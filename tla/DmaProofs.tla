------------------------------ MODULE DmaProofs ------------------------------
(***************************************************************************)
(* The page tables of a domain and the allocator of device addresses, for  *)
(* any depth, table size, number of frames and window: the device reaches  *)
(* what is mapped and nothing else, and neither tables nor addresses are   *)
(* lost or given out twice.                                                *)
(***************************************************************************)
EXTENDS DmaTables, Integers, FunctionTheorems, FiniteSetTheorems, WellFoundedInduction, TLAPS

----------------------------------------------------------------------------
(* The invariant.  A witness A gives the tables each walk visits, so that  *)
(* nothing has to be computed along a walk: A[w][d] is the table at depth  *)
(* d, or NoEntry.                                                          *)

Depths == 1 .. Levels
Frames == TableFrames \cup DataFrames
Tables == [TableFrames -> [Indices -> Entries]]
Trees  == [Walks -> [Depths -> TableFrames \cup {NoEntry}]]

\* One step of a walk, from table t by index i.
Follow(tb, t, i) == IF t = NoEntry \/ tb[t][i] = NoEntry THEN NoEntry ELSE tb[t][i].to

\* Two walks that take the same way to depth d.
Together(v, w, d) == \A e \in Depths : e < d => v[e] = w[e]

\* The Next Level field of an entry at depth d.
LevelField(f, d) == IF f = "AmdVi" THEN Levels - d ELSE 0

\* A follows the tables from the root to what is mapped.
Walked(rt, tb, M, A) ==
  \A w \in Walks :
    /\ A[w][1] = rt
    /\ \A d \in Depths : d < Levels => A[w][d + 1] = Follow(tb, A[w][d], w[d])
    /\ M[w] = Follow(tb, A[w][Levels], w[Levels])
    /\ \A d, e \in Depths : d <= e /\ A[w][d] = NoEntry => A[w][e] = NoEntry

\* The tables form a tree: a table has one depth and one way to it.
Branched(A) ==
  \A v, w \in Walks : \A c, d \in Depths :
    /\ Together(v, w, d) => A[v][d] = A[w][d]
    /\ A[v][c] # NoEntry /\ A[v][c] = A[w][d] => c = d /\ Together(v, w, d)

\* The levels its entries name are right.
Levelled(f, tb, A) ==
  \A w \in Walks : \A d \in Depths :
    A[w][d] # NoEntry /\ tb[A[w][d]][w[d]] # NoEntry => tb[A[w][d]][w[d]].next = LevelField(f, d)

\* The tables of the tree are those not in the pool.
Owned(P, A) ==
  /\ \A w \in Walks : \A d \in Depths : A[w][d] \notin P
  /\ \A t \in TableFrames : t \notin P => \E w \in Walks : \E d \in Depths : A[w][d] = t

Tree(f, rt, tb, P, M, A) ==
  A \in Trees /\ Walked(rt, tb, M, A) /\ Branched(A) /\ Levelled(f, tb, A) /\ Owned(P, A)

DmaTypes ==
  /\ fmt \in {"Vtd", "AmdVi"} /\ root \in TableFrames \cup {NoEntry} /\ table \in Tables
  /\ pool \in SUBSET TableFrames
  /\ iova \in [next : Nat, free : Seq(1 .. IovaPages)]
  /\ mapped \in [Walks -> DataFrames \cup {NoEntry}]

\* Addresses on the stack or not yet handed out are not mapped, and none is on the
\* stack twice.
Unused(it, M) ==
  /\ \A i \in 1 .. Len(it.free) : it.free[i] < it.next /\ M[WalkOf(it.free[i])] = NoEntry
  /\ \A i, j \in 1 .. Len(it.free) : it.free[i] = it.free[j] => i = j
  /\ \A n \in 1 .. IovaPages : n >= it.next => M[WalkOf(n)] = NoEntry
  /\ it.next >= 1

DmaInv ==
  /\ DmaTypes
  /\ \E A : Tree(fmt, root, table, pool, mapped, A)
  /\ Unused(iova, mapped)

----------------------------------------------------------------------------
(* Walks.                                                                  *)

LEMMA DmaNumbers ==
  /\ Levels \in Nat \ {0} /\ IovaPages \in Nat /\ FreeListLen \in Nat
  /\ IsFiniteSet(TableFrames) /\ Indices # {}
  /\ 1 \in Depths /\ Levels \in Depths
BY DmaAssumption DEF Depths

\* A set of depths that is not empty has a least one.
LEMMA LeastDepth ==
  ASSUME NEW S \in SUBSET Nat, S # {}
  PROVE  \E s \in S : \A r \in S : s <= r
<1> DEFINE Less == {ss \in Nat \X Nat : ss[1] < ss[2]}
<1>1. IsWellFoundedOn(Less, Nat)
  BY NatLessThanWellFounded, Zenon DEF OpToRel
<1>2. \A x, y \in S : ~(<<y, x>> \in Less) => x <= y
  <2>1. ASSUME NEW x \in S, NEW y \in S, ~(x <= y) PROVE <<y, x>> \in Less
    BY <2>1
  <2> QED BY <2>1
<1> HIDE DEF Less
<1>3. \E x \in S : \A y \in S : ~(<<y, x>> \in Less)
  BY <1>1, WFMin
<1> QED BY <1>2, <1>3

\* Two courses of the same steps are one.
Alike(n, g, h) ==
  /\ g = [d \in 1 .. n |-> g[d]] /\ h = [d \in 1 .. n |-> h[d]] /\ g[1] = h[1]
  /\ \A d \in 1 .. n : d < n /\ g[d] = h[d] => g[d + 1] = h[d + 1]

LEMMA SameCourse == ASSUME NEW n \in Nat, NEW g, NEW h, Alike(n, g, h) PROVE g = h
<1>0. /\ g = [d \in 1 .. n |-> g[d]] /\ h = [d \in 1 .. n |-> h[d]] /\ g[1] = h[1]
      /\ \A d \in 1 .. n : d < n /\ g[d] = h[d] => g[d + 1] = h[d + 1]
  BY DEF Alike
<1> DEFINE Bad == {d \in 1 .. n : g[d] # h[d]}
<1>1. SUFFICES ASSUME Bad # {} PROVE FALSE
  <2>1. (\A d \in 1 .. n : g[d] = h[d]) => g = h
    BY ONLY <1>0
  <2> QED BY <2>1
<1>2. PICK d \in Bad : \A k \in Bad : d <= k
  <2>1. Bad \in SUBSET Nat
    OBVIOUS
  <2> QED BY <1>1, <2>1, LeastDepth
<1>3. d \in 1 .. n /\ g[d] # h[d] /\ d # 1
  BY <1>0, <1>2
<1>4. d - 1 \in 1 .. n /\ d - 1 < n /\ (d - 1) + 1 = d /\ d - 1 < d
  BY <1>3
<1>5. g[d - 1] = h[d - 1]
  BY <1>2, <1>3, <1>4
<1> QED BY <1>0, <1>3, <1>4, <1>5

\* The function a walk is defined by.
Course(rt, tb, w, g) == g = [d \in Depths |-> IF d = 1 THEN rt ELSE Follow(tb, g[d - 1], w[d - 1])]

\* The tables a walk visits are the witness's.
LEMMA VisitedTables ==
  ASSUME NEW A \in Trees, NEW w \in Walks, Walked(root, table, mapped, A)
  PROVE  Visited(table, w) = A[w]
<1> DEFINE C(g) == Course(root, table, w, g)
<1>1. Visited(table, w) = CHOOSE g : C(g)
  BY DEF Visited, Course, Follow, Depths
<1>2. A[w] = [d \in Depths |-> A[w][d]]
  BY DEF Trees
<1>3. ASSUME NEW d \in Depths PROVE A[w][d] = IF d = 1 THEN root ELSE Follow(table, A[w][d - 1], w[d - 1])
  <2>1. d # 1 => d - 1 \in Depths /\ d - 1 < Levels /\ (d - 1) + 1 = d
    BY DmaNumbers DEF Depths
  <2> QED BY <2>1 DEF Walked
<1>4. C(A[w])
  BY <1>2, <1>3 DEF Course
<1>5. ASSUME NEW g, C(g) PROVE g = A[w]
  <2>1. \A d \in Depths : g[d] = IF d = 1 THEN root ELSE Follow(table, g[d - 1], w[d - 1])
    BY <1>5 DEF Course
  <2>2. g = [d \in Depths |-> g[d]]
    BY <1>5 DEF Course
  <2>3. ASSUME NEW d \in Depths, d < Levels, g[d] = A[w][d] PROVE g[d + 1] = A[w][d + 1]
    <3>1. d + 1 \in Depths /\ d + 1 # 1 /\ (d + 1) - 1 = d
      BY <2>3, DmaNumbers DEF Depths
    <3> QED BY <1>3, <2>1, <2>3, <3>1
  <2>4. g[1] = root /\ A[w][1] = root
    BY <1>3, <2>1, DmaNumbers
  <2>5. Alike(Levels, g, A[w])
    BY ONLY <1>2, <2>2, <2>3, <2>4 DEF Alike, Depths
  <2> QED BY ONLY <2>5, DmaNumbers, SameCourse
<1> QED BY <1>1, <1>4, <1>5

\* What is mapped is what translate finds.
LEMMA TranslateMapped ==
  ASSUME NEW A, Tree(fmt, root, table, pool, mapped, A), NEW w \in Walks
  PROVE  Translate(w) = mapped[w]
<1>1. A \in Trees /\ Walked(root, table, mapped, A)
  BY DEF Tree
<1>2. Visited(table, w) = A[w]
  BY ONLY <1>1, w \in Walks, VisitedTables
<1>3. /\ A[w][1] = root /\ mapped[w] = Follow(table, A[w][Levels], w[Levels])
      /\ \A d, e \in Depths : d <= e /\ A[w][d] = NoEntry => A[w][e] = NoEntry
  BY ONLY <1>1, w \in Walks DEF Walked
<1>4. root = NoEntry => A[w][Levels] = NoEntry
  BY <1>3, DmaNumbers DEF Depths
<1> QED BY ONLY <1>2, <1>3, <1>4 DEF Translate, Follow

\* One step of the remapping unit, to depth d from table t.
UnitStep(w, d, t) ==
  LET e == IF t \in TableFrames THEN table[t][w[d - 1]] ELSE NoEntry
  IN IF e = NoEntry \/ (fmt = "AmdVi" /\ e.next # Levels + 1 - d) THEN NoEntry ELSE e.to

\* The unit takes the same steps as the walk.
LEMMA UnitFollows ==
  ASSUME NEW A, Tree(fmt, root, table, pool, mapped, A), NEW w \in Walks, NEW d \in Depths
  PROVE  UnitStep(w, d + 1, A[w][d]) = Follow(table, A[w][d], w[d])
<1> DEFINE t == A[w][d]
           e == table[t][w[d]]
<1>1. t \in TableFrames \cup {NoEntry}
  BY DEF Tree, Trees
<1>2. t # NoEntry /\ e # NoEntry => e.next = LevelField(fmt, d)
  BY DEF Tree, Levelled
<1>3. (d + 1) - 1 = d /\ Levels + 1 - (d + 1) = Levels - d
  BY DmaNumbers DEF Depths
<1> HIDE DEF t
<1>4. NoEntry \notin TableFrames
  BY NoEntryAssumption
<1>5. fmt = "AmdVi" /\ t # NoEntry /\ e # NoEntry => e.next = Levels + 1 - (d + 1)
  BY ONLY <1>2, <1>3 DEF LevelField
<1>6. CASE t = NoEntry
  <2>1. t \notin TableFrames
    BY ONLY <1>4, <1>6
  <2>2. UnitStep(w, d + 1, t) = NoEntry
    BY ONLY <2>1 DEF UnitStep
  <2>3. Follow(table, t, w[d]) = NoEntry
    BY ONLY <1>6 DEF Follow
  <2> QED BY ONLY <2>2, <2>3 DEF t
<1>7. CASE t # NoEntry
  <2>1. t \in TableFrames
    BY ONLY <1>1, <1>7
  <2>2. table[t][w[(d + 1) - 1]] = e
    BY ONLY <1>3
  <2> HIDE DEF e
  <2>3. UnitStep(w, d + 1, t) = IF e = NoEntry \/ (fmt = "AmdVi" /\ e.next # Levels + 1 - (d + 1))
                                THEN NoEntry ELSE e.to
    BY ONLY <2>1, <2>2 DEF UnitStep
  <2>4. Follow(table, t, w[d]) = IF e = NoEntry THEN NoEntry ELSE e.to
    BY ONLY <1>7 DEF Follow, e
  <2>5. fmt = "AmdVi" /\ e # NoEntry => e.next = Levels + 1 - (d + 1)
    BY ONLY <1>5, <1>7 DEF e
  <2> QED BY ONLY <2>3, <2>4, <2>5 DEF t
<1> QED BY ONLY <1>6, <1>7 DEF t

LEMMA UnitReaches ==
  ASSUME NEW A, Tree(fmt, root, table, pool, mapped, A), NEW w \in Walks
  PROVE  HardwareWalk(w) = mapped[w]
<1> DEFINE n == Levels + 1
           C(g) == g = [d \in 1 .. n |-> IF d = 1 THEN root ELSE UnitStep(w, d, g[d - 1])]
           h == [d \in 1 .. n |-> IF d = n THEN mapped[w] ELSE A[w][d]]
<1>1. HardwareWalk(w) = (CHOOSE g : C(g))[n]
  BY DEF HardwareWalk, UnitStep
<1>2. Levels \in Nat /\ Levels >= 1 /\ n \in Nat /\ n # 1 /\ n \in 1 .. n
  BY DmaNumbers
<1>3. /\ A[w][1] = root /\ mapped[w] = Follow(table, A[w][Levels], w[Levels])
      /\ \A d \in Depths : d < Levels => A[w][d + 1] = Follow(table, A[w][d], w[d])
  BY DEF Tree, Walked
<1>4. h = [d \in 1 .. n |-> h[d]] /\ h[n] = mapped[w] /\ \A d \in Depths : h[d] = A[w][d]
  BY <1>2 DEF Depths
<1> HIDE DEF h
<1>5. h[1] = root
  BY <1>2, <1>3, <1>4, DmaNumbers
<1>6. ASSUME NEW d \in 1 .. n, d # n PROVE h[d + 1] = UnitStep(w, d + 1, h[d])
  <2>1. d \in Depths /\ (d < Levels => d + 1 \in Depths) /\ (~(d < Levels) => d = Levels /\ d + 1 = n)
    BY ONLY <1>2, <1>6 DEF Depths
  <2>2. UnitStep(w, d + 1, A[w][d]) = Follow(table, A[w][d], w[d])
    BY ONLY <2>1, Tree(fmt, root, table, pool, mapped, A), w \in Walks, UnitFollows
  <2>3. h[d + 1] = Follow(table, A[w][d], w[d])
    BY ONLY <1>3, <1>4, <2>1
  <2> QED BY ONLY <1>4, <2>1, <2>2, <2>3
<1>7. ASSUME NEW d \in 1 .. n PROVE h[d] = IF d = 1 THEN root ELSE UnitStep(w, d, h[d - 1])
  <2>1. d # 1 => d - 1 \in 1 .. n /\ d - 1 # n /\ (d - 1) + 1 = d
    BY ONLY <1>2, <1>7
  <2> QED BY ONLY <1>5, <1>6, <2>1
<1>8. C(h)
  BY ONLY <1>4, <1>7
<1>9. ASSUME NEW g, C(g) PROVE g = h
  <2>1. g = [d \in 1 .. n |-> g[d]] /\ \A d \in 1 .. n : g[d] = IF d = 1 THEN root ELSE UnitStep(w, d, g[d - 1])
    BY ONLY <1>9
  <2>2. g[1] = h[1]
    <3>1. 1 \in 1 .. n
      BY ONLY <1>2
    <3>2. g[1] = root
      BY ONLY <2>1, <3>1
    <3> QED BY ONLY <1>5, <3>2
  <2>3. ASSUME NEW d \in 1 .. n, d < n, g[d] = h[d] PROVE g[d + 1] = h[d + 1]
    <3>1. d + 1 \in 1 .. n /\ d + 1 # 1 /\ (d + 1) - 1 = d /\ d # n
      BY ONLY <1>2, <2>3
    <3>2. g[d + 1] = UnitStep(w, d + 1, g[(d + 1) - 1])
      BY ONLY <2>1, <3>1
    <3>3. g[d + 1] = UnitStep(w, d + 1, g[d])
      BY ONLY <3>1, <3>2
    <3>4. h[d + 1] = UnitStep(w, d + 1, h[d])
      BY ONLY <1>6, <2>3, <3>1
    <3> QED BY ONLY <2>3, <3>3, <3>4
  <2>4. Alike(n, g, h)
    BY ONLY <1>4, <2>1, <2>2, <2>3 DEF Alike
  <2> QED BY ONLY <1>2, <2>4, SameCourse
<1> HIDE DEF C
<1> QED BY ONLY <1>1, <1>4, <1>8, <1>9

\* A step along an entry stays within the frames.
LEMMA FollowFrames ==
  ASSUME NEW tb \in Tables, NEW t \in TableFrames, NEW i \in Indices
  PROVE  /\ tb[t][i] = NoEntry \/ (tb[t][i] \in [to : Frames, next : 0 .. Levels] /\ tb[t][i].to # NoEntry)
         /\ Follow(tb, t, i) # NoEntry <=> tb[t][i] # NoEntry
         /\ tb[t][i] # NoEntry => Follow(tb, t, i) = tb[t][i].to
<1>1. tb[t][i] \in Entries /\ t # NoEntry
  BY NoEntryAssumption DEF Tables
<1>2. \A x \in Frames : x # NoEntry
  BY NoEntryAssumption DEF Frames
<1> QED BY <1>1, <1>2 DEF Entries, Frames, Follow

\* The tables below the root are those of the tree.
LEMMA SubtreeTables ==
  ASSUME NEW A, Tree(fmt, root, table, pool, mapped, A), root # NoEntry, table \in Tables
  PROVE  Subtree(table, root) = TableFrames \ pool
<1> DEFINE At(d) == {t \in TableFrames : \E w \in Walks : A[w][d] = t}
           Below(S) == UNION {{table[t][i].to : i \in {j \in Indices : table[t][j] # NoEntry}} : t \in S}
           C(g) == g = [d \in 1 .. Levels |-> IF d = 1 THEN {root} ELSE Below(g[d - 1])]
           h == [d \in 1 .. Levels |-> At(d)]
<1>1. Subtree(table, root) = UNION {(CHOOSE g : C(g))[d] : d \in 1 .. Levels}
  BY DEF Subtree
<1>2. /\ \A w \in Walks : A[w][1] = root
      /\ \A w \in Walks : \A d \in Depths : d < Levels => A[w][d + 1] = Follow(table, A[w][d], w[d])
      /\ \A v, w \in Walks : \A d \in Depths : Together(v, w, d) => A[v][d] = A[w][d]
      /\ \A w \in Walks : \A d \in Depths : A[w][d] \in TableFrames \cup {NoEntry}
  BY DEF Tree, Walked, Branched, Trees
<1>3. \E w : w \in Walks
  <2>1. PICK i \in Indices : TRUE
    BY DmaNumbers
  <2>2. [d \in 1 .. Levels |-> i] \in Walks
    BY DEF Walks
  <2> QED BY <2>2
<1>4. At(1) = {root}
  <2>1. root \in TableFrames
    BY <1>2, <1>3, DmaNumbers
  <2> QED BY ONLY <1>2, <1>3, <2>1
<1>5. ASSUME NEW d \in Depths, d < Levels PROVE At(d + 1) = Below(At(d))
  <2>0. d + 1 \in Depths
    BY <1>5, DmaNumbers DEF Depths
  <2>1. ASSUME NEW x \in At(d + 1) PROVE x \in Below(At(d))
    <3>1. PICK w \in Walks : A[w][d + 1] = x
      BY ONLY <2>1
    <3>2. x \in TableFrames /\ x # NoEntry
      BY ONLY <2>1, NoEntryAssumption
    <3>3. x = Follow(table, A[w][d], w[d])
      BY ONLY <1>2, <1>5, <3>1
    <3>4. A[w][d] # NoEntry /\ table[A[w][d]][w[d]] # NoEntry /\ x = table[A[w][d]][w[d]].to
      BY ONLY <3>2, <3>3 DEF Follow
    <3>5. A[w][d] \in At(d) /\ w[d] \in Indices
      BY ONLY <1>2, <1>5, <3>1, <3>4 DEF Walks, Depths
    <3> HIDE DEF At
    <3> QED BY ONLY <3>4, <3>5
  <2>2. ASSUME NEW t \in At(d), NEW i \in Indices, table[t][i] # NoEntry PROVE table[t][i].to \in At(d + 1)
    <3>1. PICK w \in Walks : A[w][d] = t
      BY ONLY <2>2
    <3> DEFINE v == [w EXCEPT ![d] = i]
    <3>2. v \in Walks /\ v[d] = i /\ Together(v, w, d)
      BY <1>5, <3>1 DEF Walks, Together, Depths
    <3> HIDE DEF v
    <3>3. A[v][d] = t
      BY ONLY <1>2, <1>5, <3>1, <3>2
    <3>4. A[v][d + 1] = table[t][i].to /\ table[t][i].to # NoEntry
      BY <1>2, <1>5, <2>2, <3>2, <3>3, FollowFrames
    <3> QED BY ONLY <1>2, <2>0, <3>2, <3>4
  <2> QED BY ONLY <2>1, <2>2
<1>6. h = [d \in 1 .. Levels |-> h[d]] /\ \A d \in Depths : h[d] = At(d)
  BY DEF Depths
<1>7. \A t : (t \in TableFrames /\ t \notin pool) <=> \E d \in Depths : t \in At(d)
  <2>1. /\ \A w \in Walks : \A d \in Depths : A[w][d] \notin pool
        /\ \A t \in TableFrames : t \notin pool => \E w \in Walks : \E d \in Depths : A[w][d] = t
    BY DEF Tree, Owned
  <2> QED BY ONLY <2>1
<1> HIDE DEF h, At, Below
<1>8. h[1] = {root}
  BY ONLY <1>4, <1>6, DmaNumbers
<1>9. ASSUME NEW d \in 1 .. Levels, d < Levels PROVE d + 1 \in 1 .. Levels /\ h[d + 1] = Below(h[d])
  <2>1. d \in Depths /\ d + 1 \in Depths
    BY <1>9, DmaNumbers DEF Depths
  <2> QED BY ONLY <1>5, <1>6, <1>9, <2>1 DEF Depths
<1>10. C(h)
  <2>1. ASSUME NEW d \in 1 .. Levels PROVE h[d] = IF d = 1 THEN {root} ELSE Below(h[d - 1])
    <3>1. d # 1 => d - 1 \in 1 .. Levels /\ d - 1 < Levels /\ (d - 1) + 1 = d
      BY <2>1, DmaNumbers
    <3> QED BY ONLY <1>8, <1>9, <3>1
  <2> QED BY ONLY <1>6, <2>1
<1>11. ASSUME NEW g, C(g) PROVE g = h
  <2>1. g = [d \in 1 .. Levels |-> g[d]] /\ \A d \in 1 .. Levels : g[d] = IF d = 1 THEN {root} ELSE Below(g[d - 1])
    BY ONLY <1>11
  <2>2. g[1] = h[1]
    BY ONLY <1>8, <2>1, DmaNumbers DEF Depths
  <2>3. ASSUME NEW d \in 1 .. Levels, d < Levels, g[d] = h[d] PROVE g[d + 1] = h[d + 1]
    <3>1. d + 1 \in 1 .. Levels /\ d + 1 # 1 /\ (d + 1) - 1 = d
      BY <2>3, DmaNumbers
    <3>2. g[d + 1] = Below(g[(d + 1) - 1])
      BY ONLY <2>1, <3>1
    <3>3. g[d + 1] = Below(g[d])
      BY ONLY <3>1, <3>2
    <3>4. h[d + 1] = Below(h[d])
      BY ONLY <1>9, <2>3
    <3> QED BY ONLY <2>3, <3>3, <3>4
  <2>4. Alike(Levels, g, h)
    BY ONLY <1>6, <2>1, <2>2, <2>3 DEF Alike
  <2> QED BY ONLY <2>4, DmaNumbers, SameCourse
<1> HIDE DEF C
<1>12. Subtree(table, root) = UNION {h[d] : d \in 1 .. Levels}
  <2>1. (CHOOSE g : C(g)) = h
    BY ONLY <1>10, <1>11
  <2> QED BY ONLY <1>1, <2>1
<1> QED BY ONLY <1>6, <1>7, <1>12 DEF Depths

----------------------------------------------------------------------------
(* A domain without tables, with one, and with an entry cleared.           *)

LEMMA SomeWalk == \E w : w \in Walks
<1>1. PICK i \in Indices : TRUE
  BY DmaNumbers
<1>2. [d \in 1 .. Levels |-> i] \in Walks
  BY DEF Walks
<1> QED BY <1>2

\* Without a root nothing is mapped and every table frame is free.
LEMMA NoRoot ==
  ASSUME NEW f, NEW tb, NEW P \in SUBSET TableFrames, NEW M \in [Walks -> DataFrames \cup {NoEntry}],
         NEW A, Tree(f, NoEntry, tb, P, M, A)
  PROVE  P = TableFrames /\ M = [w \in Walks |-> NoEntry]
<1>1. ASSUME NEW w \in Walks PROVE M[w] = NoEntry /\ \A d \in Depths : A[w][d] = NoEntry
  <2>1. /\ A[w][1] = NoEntry /\ M[w] = Follow(tb, A[w][Levels], w[Levels])
        /\ \A d, e \in Depths : d <= e /\ A[w][d] = NoEntry => A[w][e] = NoEntry
    BY DEF Tree, Walked
  <2>2. \A d \in Depths : A[w][d] = NoEntry
    BY ONLY <2>1, DmaNumbers DEF Depths
  <2> QED BY ONLY <2>1, <2>2, DmaNumbers DEF Follow
<1>2. \A t \in TableFrames : t \notin P => \E w \in Walks : \E d \in Depths : A[w][d] = t
  BY DEF Tree, Owned
<1> QED BY <1>1, <1>2, NoEntryAssumption

LEMMA EmptyTree ==
  ASSUME NEW f, NEW tb
  PROVE  Tree(f, NoEntry, tb, TableFrames, [w \in Walks |-> NoEntry],
              [w \in Walks |-> [d \in Depths |-> NoEntry]])
<1> DEFINE B == [w \in Walks |-> [d \in Depths |-> NoEntry]]
           M == [w \in Walks |-> NoEntry]
<1>1. B \in Trees /\ \A w \in Walks : M[w] = NoEntry /\ \A d \in Depths : B[w][d] = NoEntry
  BY DEF Trees
<1> HIDE DEF B, M
<1>2. Walked(NoEntry, tb, M, B)
  <2>1. \A d \in Depths : d < Levels => d + 1 \in Depths
    BY DmaNumbers DEF Depths
  <2> QED BY <1>1, <2>1, DmaNumbers DEF Walked, Follow
<1>3. Branched(B) /\ Levelled(f, tb, B)
  BY <1>1 DEF Branched, Levelled
<1>4. Owned(TableFrames, B)
  BY <1>1, NoEntryAssumption DEF Owned
<1>5. Tree(f, NoEntry, tb, TableFrames, M, B)
  BY <1>1, <1>2, <1>3, <1>4 DEF Tree
<1> QED BY <1>5 DEF B, M

\* A root with no entry.
LEMMA RootTree ==
  ASSUME NEW f, NEW r \in TableFrames, NEW tb, \A i \in Indices : tb[r][i] = NoEntry
  PROVE  Tree(f, r, tb, TableFrames \ {r}, [w \in Walks |-> NoEntry],
              [w \in Walks |-> [d \in Depths |-> IF d = 1 THEN r ELSE NoEntry]])
<1> DEFINE B == [w \in Walks |-> [d \in Depths |-> IF d = 1 THEN r ELSE NoEntry]]
           M == [w \in Walks |-> NoEntry]
<1>1. B \in Trees /\ \A w \in Walks : M[w] = NoEntry /\ \A d \in Depths : B[w][d] = IF d = 1 THEN r ELSE NoEntry
  BY DEF Trees
<1>2. r # NoEntry /\ \A w \in Walks : \A d \in Depths : w[d] \in Indices
  BY NoEntryAssumption DEF Walks, Depths
<1> HIDE DEF B, M
<1>3. \A w \in Walks : \A d \in Depths : Follow(tb, B[w][d], w[d]) = NoEntry
  BY <1>1, <1>2 DEF Follow
<1>4. Walked(r, tb, M, B)
  <2>1. \A d \in Depths : d < Levels => d + 1 \in Depths /\ d + 1 # 1
    BY DmaNumbers DEF Depths
  <2>2. \A d, e \in Depths : d <= e /\ d # 1 => e # 1
    BY DEF Depths
  <2> QED BY <1>1, <1>2, <1>3, <2>1, <2>2, DmaNumbers DEF Walked
<1>5. Branched(B)
  <2>1. \A v, w : Together(v, w, 1)
    BY DEF Together, Depths
  <2> QED BY <1>1, <1>2, <2>1 DEF Branched
<1>6. Levelled(f, tb, B)
  BY <1>1, <1>2 DEF Levelled
<1>7. Owned(TableFrames \ {r}, B)
  <2>1. \A t \in TableFrames : t \notin TableFrames \ {r} => t = r
    OBVIOUS
  <2>2. PICK w : w \in Walks
    BY SomeWalk
  <2>3. B[w][1] = r
    BY <1>1, <2>2, DmaNumbers
  <2> QED BY <1>1, <2>1, <2>2, <2>3, NoEntryAssumption, DmaNumbers DEF Owned
<1>8. Tree(f, r, tb, TableFrames \ {r}, M, B)
  BY <1>1, <1>4, <1>5, <1>6, <1>7 DEF Tree
<1> QED BY <1>8 DEF B, M

\* An entry of the last table of walk W is cleared.
Clears(f, rt, tb, P, M, A, W, T, m) ==
  /\ Tree(f, rt, tb, P, M, A) /\ W \in Walks /\ A[W][Levels] # NoEntry
  /\ tb \in Tables /\ T \in Tables /\ M \in [Walks -> DataFrames \cup {NoEntry}]
  /\ m = [M EXCEPT ![W] = NoEntry]
  /\ \A t \in TableFrames : \A i \in Indices :
       T[t][i] = IF t = A[W][Levels] /\ i = W[Levels] THEN NoEntry ELSE tb[t][i]

LEMMA ClearedTree ==
  ASSUME NEW f, NEW rt, NEW tb, NEW P, NEW M, NEW A, NEW W, NEW T, NEW m, Clears(f, rt, tb, P, M, A, W, T, m)
  PROVE  Tree(f, rt, T, P, m, A)
<1> DEFINE leaf == A[W][Levels]
<1>a. /\ Tree(f, rt, tb, P, M, A) /\ W \in Walks /\ A[W][Levels] # NoEntry
      /\ tb \in Tables /\ T \in Tables /\ M \in [Walks -> DataFrames \cup {NoEntry}]
      /\ m = [M EXCEPT ![W] = NoEntry]
      /\ \A t \in TableFrames : \A i \in Indices :
           T[t][i] = IF t = A[W][Levels] /\ i = W[Levels] THEN NoEntry ELSE tb[t][i]
  BY DEF Clears
<1>0. \A w \in Walks : m[w] = IF w = W THEN NoEntry ELSE M[w]
  BY ONLY <1>a
<1>1. /\ A \in Trees /\ Walked(rt, tb, M, A) /\ Branched(A) /\ Levelled(f, tb, A) /\ Owned(P, A)
      /\ \A w \in Walks : \A d \in Depths : A[w][d] \in TableFrames \cup {NoEntry} /\ w[d] \in Indices
  BY <1>a DEF Tree, Trees, Walks, Depths
<1>2. ASSUME NEW w \in Walks, NEW d \in Depths, ~(w = W /\ d = Levels)
      PROVE  Follow(T, A[w][d], w[d]) = Follow(tb, A[w][d], w[d])
  <2>1. CASE A[w][d] = NoEntry
    BY ONLY <2>1 DEF Follow
  <2>2. CASE A[w][d] # NoEntry
    <3>1. A[w][d] \in TableFrames /\ w[d] \in Indices
      BY <1>1, <2>2
    <3>2. ~(A[w][d] = leaf /\ w[d] = W[Levels])
      <4>1. SUFFICES ASSUME A[w][d] = leaf, w[d] = W[Levels] PROVE FALSE
        OBVIOUS
      <4>2. d = Levels /\ Together(w, W, d)
        BY <1>1, <1>a, <2>2, <4>1, DmaNumbers DEF Branched
      <4>3. \A e \in Depths : w[e] = W[e]
        BY <4>1, <4>2, DmaNumbers DEF Together, Depths
      <4>4. w = W
        <5>1. w = [e \in Depths |-> w[e]] /\ W = [e \in Depths |-> W[e]]
          BY ONLY <1>a, w \in Walks DEF Walks, Depths
        <5> QED BY ONLY <4>3, <5>1
      <4> QED BY <1>2, <4>2, <4>4
    <3>3. T[A[w][d]][w[d]] = tb[A[w][d]][w[d]]
      BY <1>a, <3>1, <3>2
    <3> QED BY ONLY <3>3 DEF Follow
  <2> QED BY ONLY <2>1, <2>2
<1>3. Follow(T, A[W][Levels], W[Levels]) = NoEntry
  <2>1. leaf \in TableFrames /\ W[Levels] \in Indices
    BY <1>1, <1>a, DmaNumbers
  <2>2. T[leaf][W[Levels]] = NoEntry
    BY <1>a, <2>1
  <2> QED BY ONLY <2>2 DEF Follow
<1>4. Walked(rt, T, m, A)
  <2>1. \A d \in Depths : d < Levels => d # Levels
    BY DmaNumbers DEF Depths
  <2> QED BY ONLY <1>0, <1>1, <1>2, <1>3, <2>1, DmaNumbers DEF Walked
<1>5. Levelled(f, T, A)
  <2>1. ASSUME NEW w \in Walks, NEW d \in Depths, A[w][d] # NoEntry, T[A[w][d]][w[d]] # NoEntry
        PROVE  T[A[w][d]][w[d]] = tb[A[w][d]][w[d]]
    <3>1. A[w][d] \in TableFrames /\ w[d] \in Indices
      BY <1>1, <2>1
    <3> QED BY <1>a, <2>1, <3>1
  <2> QED BY ONLY <1>1, <2>1 DEF Levelled
<1>6. Tree(f, rt, T, P, m, A)
  BY ONLY <1>1, <1>4, <1>5 DEF Tree
<1> QED BY <1>6

----------------------------------------------------------------------------
(* A map grows the tree along one walk.                                    *)

\* Walk W has tables to depth k; at gives those to depth n, the ones below k
\* taken from the pool.
Grows(P, A, W, k, n, at) ==
  /\ W \in Walks /\ k \in Depths /\ n \in Depths /\ k <= n
  /\ at \in [1 .. n -> TableFrames]
  /\ \A d \in Depths : A[W][d] # NoEntry <=> d <= k
  /\ \A d \in Depths : d <= k => at[d] = A[W][d]
  /\ \A d \in Depths : k < d /\ d <= n => at[d] \in P
  /\ \A d, e \in Depths : d <= n /\ e <= n /\ at[d] = at[e] => d = e

\* The entries written: a link in each table from k to n, a leaf in the last.
Writes(d, n) == d < n \/ d = Levels

Rewrites(f, tb, T, W, k, n, at, phys) ==
  /\ \A t \in TableFrames : (\A d \in Depths : k <= d /\ d <= n => at[d] # t) => T[t] = tb[t]
  /\ \A d \in Depths : \A i \in Indices : k <= d /\ d <= n =>
       T[at[d]][i] =
         IF i = W[d] /\ Writes(d, n)
         THEN [to |-> IF d = Levels THEN phys ELSE at[d + 1], next |-> LevelField(f, d)]
         ELSE IF d = k THEN tb[at[d]][i] ELSE NoEntry

Branch(A, W, n, at) ==
  [w \in Walks |-> [d \in Depths |-> IF Together(w, W, d) /\ d <= n THEN at[d] ELSE A[w][d]]]

\* The walks a write changes.
Hit(w, W, d, k, n) == Together(w, W, d) /\ w[d] = W[d] /\ k <= d /\ d <= n /\ Writes(d, n)

Grafts(f, rt, tb, P, M, A, W, k, n, at) ==
  P \in SUBSET TableFrames /\ Tree(f, rt, tb, P, M, A) /\ Grows(P, A, W, k, n, at)

\* The new tree at depth d of walk w.
Grafted(A, W, k, n, at, w, d) ==
  /\ Together(w, W, d) /\ d <= n =>
       Branch(A, W, n, at)[w][d] = at[d] /\ at[d] \in TableFrames /\ at[d] # NoEntry
  /\ ~(Together(w, W, d) /\ d <= n) => Branch(A, W, n, at)[w][d] = A[w][d]
  /\ Together(w, W, d) => A[w][d] = IF d <= k THEN at[d] ELSE NoEntry
  /\ A[w][d] # NoEntry => Branch(A, W, n, at)[w][d] = A[w][d]
  /\ \A e \in Depths : e <= n /\ A[w][d] = at[e] => e = d /\ e <= k /\ Together(w, W, d)

LEMMA BranchTables ==
  ASSUME NEW f, NEW rt, NEW tb, NEW P, NEW M, NEW A, NEW W, NEW k, NEW n, NEW at,
         Grafts(f, rt, tb, P, M, A, W, k, n, at)
  PROVE  \A w \in Walks, d \in Depths : Grafted(A, W, k, n, at, w, d)
<1> TAKE w \in Walks, d \in Depths
<1>0. P \in SUBSET TableFrames /\ Tree(f, rt, tb, P, M, A) /\ Grows(P, A, W, k, n, at)
  BY DEF Grafts
<1>1. /\ W \in Walks /\ k \in Depths /\ n \in Depths /\ k <= n
      /\ at \in [1 .. n -> TableFrames]
      /\ \A c \in Depths : A[W][c] # NoEntry <=> c <= k
      /\ \A c \in Depths : c <= k => at[c] = A[W][c]
      /\ \A c \in Depths : k < c /\ c <= n => at[c] \in P
  BY <1>0 DEF Grows
<1>2. \A c \in Depths : c <= n => at[c] \in TableFrames /\ at[c] # NoEntry
  <2>1. ASSUME NEW c \in Depths, c <= n PROVE c \in 1 .. n
    BY <1>1, <2>1 DEF Depths
  <2> QED BY <1>1, <2>1, NoEntryAssumption
<1>3. Branch(A, W, n, at)[w][d] = IF Together(w, W, d) /\ d <= n THEN at[d] ELSE A[w][d]
  BY DEF Branch
<1>4. /\ \A v, x \in Walks : \A c, e \in Depths :
           /\ Together(v, x, e) => A[v][e] = A[x][e]
           /\ A[v][c] # NoEntry /\ A[v][c] = A[x][e] => c = e /\ Together(v, x, e)
      /\ A[w][d] \notin P
  BY <1>0 DEF Tree, Branched, Owned
<1>5. k \in Nat /\ n \in Nat /\ d \in Nat /\ \A c \in Depths : c \in Nat
  BY <1>1, DmaNumbers DEF Depths
<1>6. Together(w, W, d) => A[w][d] = IF d <= k THEN at[d] ELSE NoEntry
  <2>1. Together(w, W, d) => A[w][d] = A[W][d]
    BY ONLY <1>1, <1>4, w \in Walks, d \in Depths
  <2>2. A[W][d] = IF d <= k THEN at[d] ELSE NoEntry
    BY ONLY <1>1, d \in Depths
  <2> QED BY ONLY <2>1, <2>2
<1>7. ASSUME NEW e \in Depths, e <= n, A[w][d] = at[e] PROVE e = d /\ e <= k /\ Together(w, W, d)
  <2>1. e <= k
    BY ONLY <1>1, <1>4, <1>5, <1>7
  <2>2. A[w][d] = A[W][e] /\ A[w][d] # NoEntry
    BY ONLY <1>1, <1>2, <1>7, <2>1
  <2>3. d = e /\ Together(w, W, e)
    BY ONLY <1>1, <1>4, <2>2, w \in Walks, d \in Depths, e \in Depths
  <2> QED BY ONLY <2>1, <2>3
<1>8. A[w][d] # NoEntry => Branch(A, W, n, at)[w][d] = A[w][d]
  BY ONLY <1>3, <1>6
<1> QED BY ONLY <1>2, <1>3, <1>6, <1>7, <1>8, d \in Depths DEF Grafted

\* What an entry of the tree says after the map.
LEMMA BranchEntries ==
  ASSUME NEW f, NEW rt, NEW tb, NEW P, NEW M, NEW A, NEW W, NEW k, NEW n, NEW at, NEW T, NEW phys,
         Grafts(f, rt, tb, P, M, A, W, k, n, at) /\ Rewrites(f, tb, T, W, k, n, at, phys),
         NEW w \in Walks, NEW d \in Depths
  PROVE  LET b == Branch(A, W, n, at)[w][d]
         IN /\ Hit(w, W, d, k, n) =>
                 b # NoEntry /\ T[b][w[d]] = [to   |-> IF d = Levels THEN phys ELSE at[d + 1],
                                              next |-> LevelField(f, d)]
            /\ ~Hit(w, W, d, k, n) /\ b # NoEntry /\ A[w][d] = NoEntry => T[b][w[d]] = NoEntry
            /\ ~Hit(w, W, d, k, n) /\ A[w][d] # NoEntry => b = A[w][d] /\ T[b][w[d]] = tb[b][w[d]]
<1>0. Tree(f, rt, tb, P, M, A) /\ Grows(P, A, W, k, n, at)
  BY DEF Grafts
<1>1. /\ Together(w, W, d) /\ d <= n =>
           Branch(A, W, n, at)[w][d] = at[d] /\ at[d] \in TableFrames /\ at[d] # NoEntry
      /\ ~(Together(w, W, d) /\ d <= n) => Branch(A, W, n, at)[w][d] = A[w][d]
      /\ Together(w, W, d) => A[w][d] = IF d <= k THEN at[d] ELSE NoEntry
      /\ A[w][d] # NoEntry => Branch(A, W, n, at)[w][d] = A[w][d]
      /\ \A e \in Depths : e <= n /\ A[w][d] = at[e] => e = d /\ e <= k /\ Together(w, W, d)
  <2>1. Grafted(A, W, k, n, at, w, d)
    BY BranchTables
  <2> QED BY ONLY <2>1 DEF Grafted
<1> DEFINE b == Branch(A, W, n, at)[w][d]
<1>b. /\ Together(w, W, d) /\ d <= n => b = at[d] /\ at[d] # NoEntry
      /\ ~(Together(w, W, d) /\ d <= n) => b = A[w][d]
      /\ A[w][d] # NoEntry => b = A[w][d]
  BY ONLY <1>1
<1>2. /\ \A t \in TableFrames : (\A c \in Depths : k <= c /\ c <= n => at[c] # t) => T[t] = tb[t]
      /\ \A c \in Depths : \A i \in Indices : k <= c /\ c <= n =>
           T[at[c]][i] =
             IF i = W[c] /\ Writes(c, n)
             THEN [to |-> IF c = Levels THEN phys ELSE at[c + 1], next |-> LevelField(f, c)]
             ELSE IF c = k THEN tb[at[c]][i] ELSE NoEntry
  BY DEF Rewrites
<1>3. w[d] \in Indices /\ A[w][d] \in TableFrames \cup {NoEntry}
  BY <1>0 DEF Tree, Trees, Walks, Depths
<1>4. k \in Depths /\ n \in Depths /\ k <= n /\ k \in Nat /\ n \in Nat /\ d \in Nat
  BY <1>0, DmaNumbers DEF Grows, Depths
<1> HIDE DEF b
<1>5. CASE Together(w, W, d) /\ k <= d /\ d <= n
  <2>1. b = at[d] /\ b # NoEntry /\ A[w][d] = IF d <= k THEN at[d] ELSE NoEntry
    BY ONLY <1>1, <1>b, <1>5
  <2>2. T[b][w[d]] = IF w[d] = W[d] /\ Writes(d, n)
                     THEN [to |-> IF d = Levels THEN phys ELSE at[d + 1], next |-> LevelField(f, d)]
                     ELSE IF d = k THEN tb[b][w[d]] ELSE NoEntry
    BY ONLY <1>2, <1>3, <1>5, <2>1, d \in Depths
  <2>3. A[w][d] = NoEntry <=> d # k
    BY ONLY <1>4, <1>5, <2>1
  <2>4. A[w][d] # NoEntry => b = A[w][d]
    BY ONLY <1>b
  <2>5. Hit(w, W, d, k, n) <=> w[d] = W[d] /\ Writes(d, n)
    BY ONLY <1>5 DEF Hit
  <2> QED BY ONLY <2>1, <2>2, <2>3, <2>4, <2>5 DEF b
<1>6. CASE ~(Together(w, W, d) /\ k <= d /\ d <= n)
  <2>1. ~Hit(w, W, d, k, n)
    BY ONLY <1>6 DEF Hit
  <2>2. b = A[w][d]
    <3>1. CASE Together(w, W, d) /\ d <= n
      <4>1. d <= k
        BY ONLY <1>4, <1>6, <3>1
      <4> QED BY ONLY <1>1, <1>b, <3>1, <4>1
    <3> QED BY ONLY <1>1, <1>b, <3>1
  <2>3. ASSUME A[w][d] # NoEntry PROVE T[b][w[d]] = tb[b][w[d]]
    <3>1. \A c \in Depths : k <= c /\ c <= n => at[c] # b
      BY ONLY <1>1, <1>6, <2>2
    <3>2. b \in TableFrames
      BY ONLY <1>3, <2>2, <2>3
    <3>3. T[b] = tb[b]
      BY ONLY <1>2, <3>1, <3>2
    <3> QED BY ONLY <3>3
  <2> QED BY ONLY <2>1, <2>2, <2>3 DEF b
<1> QED BY ONLY <1>5, <1>6

\* A map on tables tb, pool P and mapping M leaves T, Q and m.
Maps(f, rt, tb, P, M, A, W, k, n, at, T, phys, Q, m) ==
  /\ Grafts(f, rt, tb, P, M, A, W, k, n, at) /\ Rewrites(f, tb, T, W, k, n, at, phys)
  /\ tb \in Tables /\ T \in Tables /\ phys \in DataFrames
  /\ M \in [Walks -> DataFrames \cup {NoEntry}]
  /\ Q = {t \in P : \A d \in Depths : k < d /\ d <= n => at[d] # t}
  /\ m = IF n = Levels THEN [M EXCEPT ![W] = phys] ELSE M

\* The tree with the walk's tables added is the tree of the tables rewritten.
LEMMA GrownTree ==
  ASSUME NEW f, NEW rt, NEW tb, NEW P, NEW M, NEW A, NEW W, NEW k, NEW n, NEW at, NEW T, NEW phys, NEW Q, NEW m,
         Maps(f, rt, tb, P, M, A, W, k, n, at, T, phys, Q, m)
  PROVE  Tree(f, rt, T, Q, m, Branch(A, W, n, at))
<1> DEFINE B == Branch(A, W, n, at)
           new(d) == IF d = Levels THEN phys ELSE at[d + 1]
<1>0. /\ Grafts(f, rt, tb, P, M, A, W, k, n, at) /\ Rewrites(f, tb, T, W, k, n, at, phys)
      /\ tb \in Tables /\ T \in Tables /\ phys \in DataFrames
      /\ M \in [Walks -> DataFrames \cup {NoEntry}]
      /\ Q = {t \in P : \A d \in Depths : k < d /\ d <= n => at[d] # t}
      /\ m = IF n = Levels THEN [M EXCEPT ![W] = phys] ELSE M
  BY DEF Maps
<1>1. /\ P \in SUBSET TableFrames /\ A \in Trees
      /\ Walked(rt, tb, M, A) /\ Branched(A) /\ Levelled(f, tb, A) /\ Owned(P, A)
      /\ W \in Walks /\ k \in Depths /\ n \in Depths /\ k <= n
      /\ \A d \in Depths : k < d /\ d <= n => at[d] \in P
      /\ \A d, e \in Depths : d <= n /\ e <= n /\ at[d] = at[e] => d = e
  BY <1>0 DEF Grafts, Grows, Tree
<1>2. Levels \in Nat /\ Levels \in Depths /\ 1 \in Depths /\ k \in Nat /\ n \in Nat /\ 1 <= k /\ n <= Levels
  BY <1>1, DmaNumbers DEF Depths
<1>3. \A d \in Depths : d \in Nat /\ d <= Levels /\ 1 <= d /\ (d < Levels => d + 1 \in Depths /\ d # Levels)
  BY DmaNumbers DEF Depths
<1>4. /\ \A w \in Walks : m[w] = IF n = Levels /\ w = W THEN phys ELSE M[w]
      /\ phys # NoEntry
  BY <1>0, NoEntryAssumption
<1>5. ASSUME NEW w \in Walks, NEW d \in Depths
      PROVE  /\ Together(w, W, d) /\ d <= n => B[w][d] = at[d] /\ at[d] \in TableFrames /\ at[d] # NoEntry
             /\ ~(Together(w, W, d) /\ d <= n) => B[w][d] = A[w][d]
             /\ Together(w, W, d) => A[w][d] = IF d <= k THEN at[d] ELSE NoEntry
             /\ A[w][d] # NoEntry => B[w][d] = A[w][d]
             /\ \A e \in Depths : e <= n /\ A[w][d] = at[e] => e = d /\ e <= k /\ Together(w, W, d)
  <2>1. Grafted(A, W, k, n, at, w, d)
    BY <1>0, BranchTables
  <2> QED BY ONLY <2>1 DEF Grafted
<1>6. ASSUME NEW w \in Walks, NEW d \in Depths
      PROVE  /\ Hit(w, W, d, k, n) =>
                  B[w][d] # NoEntry /\ T[B[w][d]][w[d]] = [to |-> new(d), next |-> LevelField(f, d)]
             /\ ~Hit(w, W, d, k, n) /\ B[w][d] # NoEntry /\ A[w][d] = NoEntry => T[B[w][d]][w[d]] = NoEntry
             /\ ~Hit(w, W, d, k, n) /\ A[w][d] # NoEntry =>
                  B[w][d] = A[w][d] /\ T[B[w][d]][w[d]] = tb[B[w][d]][w[d]]
  BY <1>0, BranchEntries
<1>7. B \in Trees
  <2>1. \A w \in Walks : \A d \in Depths : B[w][d] \in TableFrames \cup {NoEntry}
    BY <1>1, <1>5 DEF Trees
  <2>2. B = [w \in Walks |-> [d \in Depths |-> B[w][d]]]
    BY DEF Branch
  <2> HIDE DEF B
  <2> QED BY ONLY <2>1, <2>2 DEF Trees
<1> HIDE DEF B, new
<1>8. ASSUME NEW w \in Walks, NEW d \in Depths, d < Levels
      PROVE  Together(w, W, d + 1) <=> Together(w, W, d) /\ w[d] = W[d]
  <2>1. \A e \in Depths : e < d + 1 <=> e < d \/ e = d
    BY ONLY <1>3, d \in Depths
  <2> QED BY ONLY <2>1, d \in Depths DEF Together
<1>9. ASSUME NEW w \in Walks PROVE Together(w, W, Levels) /\ w[Levels] = W[Levels] <=> w = W
  <2>1. Together(w, W, Levels) /\ w[Levels] = W[Levels] => \A e \in Depths : w[e] = W[e]
    <3>1. \A e \in Depths : e < Levels \/ e = Levels
      BY ONLY <1>2, <1>3
    <3> QED BY ONLY <3>1 DEF Together
  <2>2. w = [e \in Depths |-> w[e]] /\ W = [e \in Depths |-> W[e]]
    BY ONLY <1>1, w \in Walks DEF Walks, Depths
  <2>3. (\A e \in Depths : w[e] = W[e]) => w = W
    BY ONLY <2>2
  <2> QED BY ONLY <2>1, <2>3 DEF Together
<1>10. ASSUME NEW w \in Walks, NEW d \in Depths
       PROVE  Follow(T, B[w][d], w[d]) = IF Hit(w, W, d, k, n) THEN new(d) ELSE Follow(tb, A[w][d], w[d])
  <2>1. CASE Hit(w, W, d, k, n)
    <3>1. B[w][d] # NoEntry /\ T[B[w][d]][w[d]] = [to |-> new(d), next |-> LevelField(f, d)]
      BY ONLY <1>6, <2>1, w \in Walks, d \in Depths
    <3>2. d = Levels \/ (d + 1 \in Depths /\ Together(w, W, d + 1) /\ d + 1 <= n)
      <4>1. Together(w, W, d) /\ w[d] = W[d] /\ (d < n \/ d = Levels)
        BY ONLY <2>1 DEF Hit, Writes
      <4>2. d < n => d < Levels /\ d + 1 <= n /\ d + 1 \in Depths
        BY ONLY <1>2, <1>3, d \in Depths
      <4>3. d < Levels => Together(w, W, d + 1)
        BY ONLY <1>8, <4>1, w \in Walks, d \in Depths
      <4> QED BY ONLY <4>1, <4>2, <4>3
    <3>3. T[B[w][d]][w[d]] # NoEntry
      <4>1. B[w][d] \in TableFrames /\ w[d] \in Indices
        <5>1. B[w][d] \in TableFrames \cup {NoEntry}
          BY ONLY <1>7, w \in Walks, d \in Depths DEF Trees
        <5>2. w[d] \in Indices
          BY ONLY w \in Walks, d \in Depths DEF Walks, Depths
        <5> QED BY ONLY <3>1, <5>1, <5>2
      <4>2. new(d) \in Frames
        BY <1>0, <1>3, <1>5, <3>2 DEF new, Frames
      <4>3. LevelField(f, d) \in 0 .. Levels
        BY <1>2, <1>3 DEF LevelField
      <4>4. [to |-> new(d), next |-> LevelField(f, d)] \in [to : Frames, next : 0 .. Levels]
        BY ONLY <4>2, <4>3
      <4> QED BY ONLY <3>1, <4>4, NoEntryAssumption DEF Frames
    <3> QED BY ONLY <2>1, <3>1, <3>3 DEF Follow
  <2>2. CASE ~Hit(w, W, d, k, n)
    <3>1. /\ B[w][d] # NoEntry /\ A[w][d] = NoEntry => T[B[w][d]][w[d]] = NoEntry
          /\ A[w][d] # NoEntry => B[w][d] = A[w][d] /\ T[B[w][d]][w[d]] = tb[B[w][d]][w[d]]
      BY ONLY <1>6, <2>2, w \in Walks, d \in Depths
    <3> QED BY ONLY <2>2, <3>1 DEF Follow
  <2> QED BY ONLY <2>1, <2>2
<1>11. Walked(rt, T, m, B)
  <2>1. ASSUME NEW w \in Walks PROVE B[w][1] = rt
    <3>1. A[w][1] = rt /\ A[W][1] = rt
      BY ONLY <1>1, w \in Walks DEF Walked
    <3>2. Together(w, W, 1) /\ 1 <= n
      BY ONLY <1>1, <1>2, <1>3 DEF Together
    <3>3. A[w][1] = at[1] /\ B[w][1] = at[1]
      BY ONLY <1>2, <1>5, <3>2, w \in Walks
    <3> QED BY ONLY <3>1, <3>3
  <2>2. ASSUME NEW w \in Walks, NEW d \in Depths, d < Levels PROVE B[w][d + 1] = Follow(T, B[w][d], w[d])
    <3>1. d + 1 \in Depths /\ d # Levels /\ A[w][d + 1] = Follow(tb, A[w][d], w[d])
      BY ONLY <1>1, <1>3, <2>2 DEF Walked
    <3>2. CASE Hit(w, W, d, k, n)
      <4>1. Together(w, W, d + 1) /\ d + 1 <= n
        BY ONLY <1>2, <1>3, <1>8, <2>2, <3>1, <3>2 DEF Hit, Writes
      <4>2. B[w][d + 1] = at[d + 1]
        BY ONLY <1>5, <2>2, <3>1, <4>1
      <4> QED BY ONLY <1>10, <2>2, <3>1, <3>2, <4>2 DEF new
    <3>3. CASE ~Hit(w, W, d, k, n)
      <4>1. CASE Together(w, W, d + 1) /\ d + 1 <= n
        <5>1. Together(w, W, d) /\ w[d] = W[d] /\ d < n
          <6>1. Together(w, W, d) /\ w[d] = W[d]
            BY ONLY <1>8, <2>2, <4>1
          <6>2. d < n
            BY ONLY <1>2, <1>3, <2>2, <4>1
          <6> QED BY ONLY <6>1, <6>2
        <5>2. d + 1 <= k
          <6>1. ~(k <= d /\ d <= n)
            BY ONLY <3>3, <5>1 DEF Hit, Writes
          <6> QED BY ONLY <1>2, <1>3, <2>2, <5>1, <6>1
        <5>3. B[w][d + 1] = A[w][d + 1]
          BY ONLY <1>5, <2>2, <3>1, <4>1, <5>2
        <5> QED BY ONLY <1>10, <2>2, <3>1, <3>3, <5>3
      <4>2. CASE ~(Together(w, W, d + 1) /\ d + 1 <= n)
        <5>1. B[w][d + 1] = A[w][d + 1]
          BY ONLY <1>5, <2>2, <3>1, <4>2
        <5> QED BY ONLY <1>10, <2>2, <3>1, <3>3, <5>1
      <4> QED BY ONLY <4>1, <4>2
    <3> QED BY ONLY <3>2, <3>3
  <2>3. ASSUME NEW w \in Walks PROVE m[w] = Follow(T, B[w][Levels], w[Levels])
    <3>1. M[w] = Follow(tb, A[w][Levels], w[Levels])
      BY ONLY <1>1, w \in Walks DEF Walked
    <3>2. Hit(w, W, Levels, k, n) <=> n = Levels /\ w = W
      BY ONLY <1>1, <1>2, <1>9, w \in Walks DEF Hit, Writes
    <3>3. Follow(T, B[w][Levels], w[Levels]) = IF Hit(w, W, Levels, k, n) THEN new(Levels)
                                               ELSE Follow(tb, A[w][Levels], w[Levels])
      BY ONLY <1>2, <1>10, w \in Walks
    <3> QED BY ONLY <1>4, <3>1, <3>2, <3>3, w \in Walks DEF new
  <2>4. ASSUME NEW w \in Walks, NEW d \in Depths, NEW e \in Depths, d <= e, B[w][d] = NoEntry
        PROVE  B[w][e] = NoEntry
    <3>1. ~(Together(w, W, d) /\ d <= n) /\ A[w][d] = NoEntry
      BY ONLY <1>5, <2>4
    <3>2. A[w][e] = NoEntry
      BY ONLY <1>1, <2>4, <3>1 DEF Walked
    <3>3. ~(Together(w, W, e) /\ e <= n)
      <4>1. \A c \in Depths : c < d => c < e
        <5>1. d \in Nat /\ e \in Nat /\ \A c \in Depths : c \in Nat
          BY ONLY <1>3, <2>4
        <5> QED BY ONLY <2>4, <5>1
      <4>2. Together(w, W, e) => Together(w, W, d)
        BY ONLY <4>1 DEF Together
      <4>3. e <= n => d <= n
        BY ONLY <1>2, <1>3, <2>4
      <4> QED BY ONLY <3>1, <4>2, <4>3
    <3> QED BY ONLY <1>5, <2>4, <3>2, <3>3
  <2> QED BY ONLY <2>1, <2>2, <2>3, <2>4 DEF Walked
<1>12. Branched(B)
  <2>1. ASSUME NEW v \in Walks, NEW w \in Walks, NEW d \in Depths, Together(v, w, d) PROVE B[v][d] = B[w][d]
    <3>1. Together(v, W, d) <=> Together(w, W, d)
      BY ONLY <2>1 DEF Together
    <3>2. A[v][d] = A[w][d]
      BY ONLY <1>1, <2>1 DEF Branched
    <3> QED BY ONLY <1>5, <2>1, <3>1, <3>2
  <2>2. ASSUME NEW v \in Walks, NEW w \in Walks, NEW c \in Depths, NEW d \in Depths,
               B[v][c] # NoEntry, B[v][c] = B[w][d]
        PROVE  c = d /\ Together(v, w, d)
    <3>1. CASE Together(v, W, c) /\ c <= n /\ Together(w, W, d) /\ d <= n
      <4>1. c = d
        BY ONLY <1>1, <1>5, <2>2, <3>1
      <4> QED BY ONLY <3>1, <4>1 DEF Together
    <3>2. CASE Together(v, W, c) /\ c <= n /\ ~(Together(w, W, d) /\ d <= n)
      <4>1. at[c] = A[w][d]
        BY ONLY <1>5, <2>2, <3>2
      <4>2. c = d /\ Together(w, W, d)
        BY ONLY <1>5, <2>2, <3>2, <4>1
      <4> QED BY ONLY <3>2, <4>2
    <3>3. CASE ~(Together(v, W, c) /\ c <= n) /\ Together(w, W, d) /\ d <= n
      <4>1. at[d] = A[v][c]
        BY ONLY <1>5, <2>2, <3>3
      <4>2. c = d /\ Together(v, W, c)
        BY ONLY <1>5, <2>2, <3>3, <4>1
      <4> QED BY ONLY <3>3, <4>2
    <3>4. CASE ~(Together(v, W, c) /\ c <= n) /\ ~(Together(w, W, d) /\ d <= n)
      <4>1. A[v][c] # NoEntry /\ A[v][c] = A[w][d]
        BY ONLY <1>5, <2>2, <3>4
      <4> QED BY ONLY <1>1, <2>2, <4>1 DEF Branched
    <3> QED BY ONLY <3>1, <3>2, <3>3, <3>4
  <2> QED BY ONLY <2>1, <2>2 DEF Branched
<1>13. Levelled(f, T, B)
  <2>1. ASSUME NEW w \in Walks, NEW d \in Depths, B[w][d] # NoEntry, T[B[w][d]][w[d]] # NoEntry
        PROVE  T[B[w][d]][w[d]].next = LevelField(f, d)
    <3>1. CASE Hit(w, W, d, k, n)
      <4>1. T[B[w][d]][w[d]] = [to |-> new(d), next |-> LevelField(f, d)]
        BY ONLY <1>6, <2>1, <3>1
      <4> QED BY ONLY <4>1
    <3>2. CASE ~Hit(w, W, d, k, n)
      <4>1. A[w][d] # NoEntry
        BY ONLY <1>6, <2>1, <3>2
      <4>2. B[w][d] = A[w][d] /\ T[B[w][d]][w[d]] = tb[B[w][d]][w[d]]
        BY ONLY <1>6, <2>1, <3>2, <4>1
      <4>3. tb[A[w][d]][w[d]] # NoEntry /\ T[B[w][d]][w[d]] = tb[A[w][d]][w[d]]
        BY ONLY <2>1, <4>2
      <4>4. tb[A[w][d]][w[d]].next = LevelField(f, d)
        BY ONLY <1>1, <2>1, <4>1, <4>3 DEF Levelled
      <4> QED BY ONLY <4>3, <4>4
    <3> QED BY ONLY <3>1, <3>2
  <2> QED BY ONLY <2>1 DEF Levelled
<1>14. Owned(Q, B)
  <2>0. Q = {t \in P : \A d \in Depths : k < d /\ d <= n => at[d] # t}
    BY <1>0
  <2>1. ASSUME NEW w \in Walks, NEW d \in Depths PROVE B[w][d] \notin Q
    <3>1. A[w][d] \notin P
      BY ONLY <1>1, <2>1 DEF Owned
    <3>2. CASE Together(w, W, d) /\ d <= n
      <4>1. B[w][d] = at[d] /\ (d <= k => A[w][d] = at[d])
        BY ONLY <1>5, <2>1, <3>2
      <4>2. d <= k \/ k < d
        BY ONLY <1>2, <1>3, <2>1
      <4> QED BY ONLY <2>0, <2>1, <3>1, <3>2, <4>1, <4>2
    <3>3. CASE ~(Together(w, W, d) /\ d <= n)
      BY ONLY <1>5, <2>0, <2>1, <3>1, <3>3
    <3> QED BY ONLY <3>2, <3>3
  <2>2. ASSUME NEW t \in TableFrames, t \notin Q PROVE \E w \in Walks : \E d \in Depths : B[w][d] = t
    <3>1. CASE t \notin P
      <4>1. PICK w \in Walks, d \in Depths : A[w][d] = t
        BY ONLY <1>1, <2>0, <2>2, <3>1 DEF Owned
      <4>2. B[w][d] = t
        <5>1. A[w][d] # NoEntry
          BY <2>2, <4>1, NoEntryAssumption
        <5> QED BY ONLY <1>5, <4>1, <5>1
      <4> QED BY ONLY <4>2
    <3>2. CASE t \in P
      <4>1. PICK d \in Depths : k < d /\ d <= n /\ at[d] = t
        BY ONLY <2>0, <2>2, <3>2
      <4>2. Together(W, W, d)
        BY ONLY DEF Together
      <4>3. B[W][d] = t
        BY ONLY <1>1, <1>5, <4>1, <4>2
      <4> QED BY ONLY <1>1, <4>3
    <3> QED BY ONLY <3>1, <3>2
  <2> QED BY ONLY <2>1, <2>2 DEF Owned
<1>15. Tree(f, rt, T, Q, m, B)
  BY ONLY <1>7, <1>11, <1>12, <1>13, <1>14 DEF Tree
<1> QED BY <1>15 DEF B

----------------------------------------------------------------------------
(* What map writes.                                                        *)

\* A walk has tables to some depth and none below.
LEMMA WalkDepth ==
  ASSUME NEW f, NEW rt, NEW tb, NEW P, NEW M, NEW A, Tree(f, rt, tb, P, M, A), rt # NoEntry, NEW W \in Walks
  PROVE  \E k \in Depths : \A d \in Depths : A[W][d] # NoEntry <=> d <= k
<1>1. /\ A[W][1] = rt
      /\ \A d, e \in Depths : d <= e /\ A[W][d] = NoEntry => A[W][e] = NoEntry
  BY DEF Tree, Walked
<1> DEFINE S == {d \in Depths : A[W][d] = NoEntry}
<1>2. CASE S = {}
  <2>1. \A d \in Depths : A[W][d] # NoEntry /\ d <= Levels
    BY ONLY <1>2, DmaNumbers DEF Depths
  <2> QED BY ONLY <2>1, DmaNumbers
<1>3. CASE S # {}
  <2>1. S \in SUBSET Nat
    BY DEF Depths
  <2>2. PICK s \in S : \A r \in S : s <= r
    BY ONLY <1>3, <2>1, LeastDepth
  <2>3. s \in Depths /\ s # 1 /\ A[W][s] = NoEntry
    BY <1>1, <2>2
  <2>4. s - 1 \in Depths /\ \A d \in Depths : d <= s - 1 <=> ~(s <= d)
    BY ONLY <2>3, DmaNumbers DEF Depths
  <2>5. \A d \in Depths : A[W][d] # NoEntry <=> d <= s - 1
    BY ONLY <1>1, <2>2, <2>3, <2>4
  <2> QED BY ONLY <2>4, <2>5
<1> QED BY ONLY <1>2, <1>3

\* The depth is what MissingFrom counts.
LEMMA MissingDepth ==
  ASSUME NEW A, Tree(fmt, root, table, pool, mapped, A), NEW W \in Walks, NEW k \in Depths,
         \A d \in Depths : A[W][d] # NoEntry <=> d <= k
  PROVE  /\ Visited(table, W) = A[W]
         /\ Cardinality(MissingFrom(W)) = Levels - k /\ Levels - k \in Nat
         /\ Levels - Cardinality(MissingFrom(W)) = k
<1>1. Visited(table, W) = A[W]
  BY VisitedTables DEF Tree
<1>2. Levels \in Nat /\ k \in Nat /\ 1 <= k /\ k <= Levels
  BY DmaNumbers DEF Depths
<1>3. MissingFrom(W) = k .. Levels - 1
  <2>1. ASSUME NEW d \in 1 .. Levels - 1 PROVE A[W][d + 1] = NoEntry <=> d \in k .. Levels - 1
    <3>1. d + 1 \in Depths /\ (d + 1 <= k <=> ~(d \in k .. Levels - 1))
      BY ONLY <1>2, <2>1 DEF Depths
    <3> QED BY <3>1
  <2>2. MissingFrom(W) = {d \in 1 .. Levels - 1 : A[W][d + 1] = NoEntry}
    BY ONLY <1>1 DEF MissingFrom
  <2>3. \A d \in k .. Levels - 1 : d \in 1 .. Levels - 1
    BY ONLY <1>2
  <2> QED BY ONLY <2>1, <2>2, <2>3
<1>4. Cardinality(k .. Levels - 1) = IF k > Levels - 1 THEN 0 ELSE Levels - 1 - k + 1
  <2>1. k \in Int /\ Levels - 1 \in Int
    BY ONLY <1>2
  <2>2. Cardinality(k .. Levels - 1) = IF k > Levels - 1 THEN 0 ELSE (Levels - 1) - k + 1
    BY ONLY <2>1, FS_Interval
  <2> QED BY ONLY <1>2, <2>2
<1> QED BY ONLY <1>1, <1>2, <1>3, <1>4

\* The frames handed out are different ones of the pool.
LEMMA FreshFrames ==
  ASSUME pool \in SUBSET TableFrames, NEW m \in Nat
  PROVE  LET s == Fresh(m)
             have == IF Cardinality(pool) < m THEN Cardinality(pool) ELSE m
         IN /\ have \in Nat /\ have <= m /\ (have = m <=> Cardinality(pool) >= m)
            /\ s \in [1 .. have -> pool] /\ \A i, j \in 1 .. have : i # j => s[i] # s[j]
            /\ Len(s) = have /\ DOMAIN s = 1 .. have
<1> DEFINE c == Cardinality(pool)
           have == IF c < m THEN c ELSE m
           Right(s) == s \in [1 .. have -> pool] /\ \A i, j \in 1 .. have : i # j => s[i] # s[j]
<1>1. IsFiniteSet(pool)
  BY FS_Subset, DmaNumbers
<1>2. c \in Nat /\ ExistsBijection(1 .. c, pool)
  BY <1>1, FS_CardinalityType
<1>3. PICK b : b \in Bijection(1 .. c, pool)
  BY <1>2 DEF ExistsBijection
<1>4. b \in [1 .. c -> pool] /\ \A i, j \in 1 .. c : b[i] = b[j] => i = j
  BY ONLY <1>3, Fun_BijectionProperties
<1> HIDE DEF c
<1>5. have \in Nat /\ have <= m /\ have <= c /\ (have = m <=> c >= m)
  BY ONLY <1>2, m \in Nat
<1> HIDE DEF have
<1>6. \A i \in 1 .. have : i \in 1 .. c
  BY ONLY <1>2, <1>5
<1>7. Right([i \in 1 .. have |-> b[i]])
  BY ONLY <1>4, <1>6
<1>8. Fresh(m) = CHOOSE s : Right(s)
  <2>1. Fresh(m) = CHOOSE s \in [1 .. have -> pool] : \A i, j \in 1 .. have : i # j => s[i] # s[j]
    BY DEF Fresh, have, c
  <2> QED BY ONLY <2>1
<1>9. Right(Fresh(m))
  BY ONLY <1>7, <1>8
<1>10. Fresh(m) \in [1 .. have -> pool] /\ DOMAIN Fresh(m) = 1 .. have
  BY ONLY <1>9
<1>11. Len(Fresh(m)) = have
  <2>1. Fresh(m) \in Seq(pool)
    BY ONLY <1>5, <1>10
  <2>2. Len(Fresh(m)) \in Nat /\ DOMAIN Fresh(m) = 1 .. Len(Fresh(m))
    BY ONLY <2>1
  <2> QED BY ONLY <1>5, <1>10, <2>2
<1> QED BY ONLY <1>5, <1>9, <1>10, <1>11 DEF have, c

\* The tables after a map, of a walk with tables `seen` to depth k, when those
\* made reach depth n.
MapTo(seen, k, n, w, phys, fresh) ==
  LET at(d) == IF d <= k THEN seen[d] ELSE fresh[d - k]
  IN [t \in TableFrames |->
       LET depths == {d \in k .. n : at(d) = t}
           base == IF \E d \in (k + 1) .. n : at(d) = t THEN ZeroTable ELSE table[t]
       IN IF depths = {} THEN table[t]
          ELSE LET d == CHOOSE x \in depths : TRUE
               IN IF d = Levels THEN [base EXCEPT ![w[d]] = EncodeLeaf(phys)]
                  ELSE IF d < n THEN [base EXCEPT ![w[d]] = EncodeLink(at(d + 1), d)]
                  ELSE base]

LEMMA MapMade ==
  ASSUME NEW W, NEW phys, NEW fresh
  PROVE  LET first == Levels - Cardinality(MissingFrom(W))
         IN MapTables(W, phys, fresh) = MapTo(Visited(table, W), first, first + Len(fresh), W, phys, fresh)
BY DEF MapTables, MapTo

\* The frames of the walk: those there, then those made.
WalkFrames(seen, k, n, fresh) == [d \in 1 .. n |-> IF d <= k THEN seen[d] ELSE fresh[d - k]]

LEMMA MapGrows ==
  ASSUME NEW P \in SUBSET TableFrames, NEW A, Tree(fmt, root, table, P, mapped, A), NEW W \in Walks,
         NEW k \in Depths, \A d \in Depths : A[W][d] # NoEntry <=> d <= k,
         NEW have \in Nat, k + have <= Levels, NEW fresh \in [1 .. have -> P],
         \A i, j \in 1 .. have : i # j => fresh[i] # fresh[j]
  PROVE  Grows(P, A, W, k, k + have, WalkFrames(A[W], k, k + have, fresh))
<1> DEFINE n == k + have
           at == WalkFrames(A[W], k, n, fresh)
<1>1. Levels \in Nat /\ k \in Nat /\ 1 <= k /\ k <= Levels /\ n \in Depths /\ k <= n /\ n \in Nat /\ n <= Levels
  BY DmaNumbers DEF Depths
<1>2. \A d \in Depths : d <= n => at[d] = IF d <= k THEN A[W][d] ELSE fresh[d - k]
  BY <1>1 DEF WalkFrames, Depths
<1>3. \A d \in Depths : k < d /\ d <= n => d - k \in 1 .. have
  BY <1>1 DEF Depths
<1>4. /\ \A d \in Depths : A[W][d] \in TableFrames \cup {NoEntry} /\ A[W][d] \notin P
      /\ \A d, e \in Depths : A[W][d] # NoEntry /\ A[W][d] = A[W][e] => d = e
  BY DEF Tree, Trees, Owned, Branched
<1>5. \A d \in Depths : d \in Nat /\ (~(d <= k) <=> k < d)
  BY <1>1 DEF Depths
<1>6. \A d \in Depths : d <= k => at[d] = A[W][d] /\ at[d] # NoEntry /\ at[d] \in TableFrames /\ at[d] \notin P
  <2>1. \A d \in Depths : d <= k => d <= n
    BY ONLY <1>1, <1>5
  <2> HIDE DEF at
  <2> QED BY ONLY <1>2, <1>4, <2>1, \A d \in Depths : A[W][d] # NoEntry <=> d <= k
<1>7. \A d \in Depths : k < d /\ d <= n => at[d] = fresh[d - k] /\ at[d] \in P
  BY <1>2, <1>3, <1>5
<1> HIDE DEF at
<1>8. at \in [1 .. n -> TableFrames]
  <2>1. at = [d \in 1 .. n |-> at[d]]
    BY DEF at, WalkFrames
  <2>2. \A d \in 1 .. n : d \in Depths /\ d <= n
    BY ONLY <1>1 DEF Depths
  <2>3. \A d \in 1 .. n : at[d] \in TableFrames
    BY ONLY <1>5, <1>6, <1>7, <2>2, P \in SUBSET TableFrames
  <2> QED BY ONLY <2>1, <2>3
<1>9. ASSUME NEW d \in Depths, NEW e \in Depths, d <= n, e <= n, at[d] = at[e] PROVE d = e
  <2>1. CASE d <= k /\ e <= k
    BY ONLY <1>4, <1>6, <1>9, <2>1
  <2>2. CASE k < d /\ k < e
    <3>1. d - k \in 1 .. have /\ e - k \in 1 .. have /\ fresh[d - k] = fresh[e - k]
      BY ONLY <1>3, <1>7, <1>9, <2>2
    <3>2. d - k = e - k
      BY <3>1
    <3> QED BY ONLY <1>1, <1>5, <3>2, d \in Depths, e \in Depths
  <2>3. CASE d <= k /\ k < e
    BY ONLY <1>6, <1>7, <1>9, <2>3
  <2>4. CASE k < d /\ e <= k
    BY ONLY <1>6, <1>7, <1>9, <2>4
  <2> QED BY ONLY <1>5, <2>1, <2>2, <2>3, <2>4
<1>10. Grows(P, A, W, k, n, at)
  BY ONLY <1>1, <1>6, <1>7, <1>8, <1>9, W \in Walks, k \in Depths,
          \A d \in Depths : A[W][d] # NoEntry <=> d <= k DEF Grows
<1> QED BY <1>10 DEF at

\* One row of the tables after a map.
NewRow(old, W, k, n, at, phys, d) ==
  [i \in Indices |-> IF i = W[d] /\ Writes(d, n)
                     THEN [to |-> IF d = Levels THEN phys ELSE at[d + 1], next |-> LevelField(fmt, d)]
                     ELSE IF d = k THEN old[i] ELSE NoEntry]

\* The frames `at` are those a map of walk W writes to.
Written(seen, k, n, W, fresh, at) ==
  /\ k \in Depths /\ n \in Depths /\ k <= n /\ W \in Walks /\ table \in Tables
  /\ at = WalkFrames(seen, k, n, fresh)
  /\ \A d, e \in Depths : d <= n /\ e <= n /\ at[d] = at[e] => d = e

LEMMA MapRow ==
  ASSUME NEW seen, NEW k, NEW n, NEW W, NEW phys, NEW fresh, NEW at, Written(seen, k, n, W, fresh, at),
         NEW t \in TableFrames
  PROVE  /\ (\A d \in Depths : k <= d /\ d <= n => at[d] # t) => MapTo(seen, k, n, W, phys, fresh)[t] = table[t]
         /\ \A d \in Depths : k <= d /\ d <= n /\ at[d] = t =>
              MapTo(seen, k, n, W, phys, fresh)[t] = NewRow(table[t], W, k, n, at, phys, d)
<1> DEFINE a(d) == IF d <= k THEN seen[d] ELSE fresh[d - k]
           ds == {d \in k .. n : a(d) = t}
           base == IF \E d \in (k + 1) .. n : a(d) = t THEN ZeroTable ELSE table[t]
           pick == CHOOSE x \in ds : TRUE
           R == MapTo(seen, k, n, W, phys, fresh)[t]
<1>0. /\ k \in Depths /\ n \in Depths /\ k <= n /\ W \in Walks /\ table \in Tables
      /\ at = WalkFrames(seen, k, n, fresh)
      /\ \A d, e \in Depths : d <= n /\ e <= n /\ at[d] = at[e] => d = e
  BY DEF Written
<1>1. R = IF ds = {} THEN table[t]
          ELSE IF pick = Levels THEN [base EXCEPT ![W[pick]] = EncodeLeaf(phys)]
          ELSE IF pick < n THEN [base EXCEPT ![W[pick]] = EncodeLink(a(pick + 1), pick)]
          ELSE base
  BY DEF MapTo
<1>2. Levels \in Nat /\ k \in Nat /\ n \in Nat /\ 1 <= k /\ n <= Levels /\ \A d \in Depths : d \in Nat
  BY <1>0, DmaNumbers DEF Depths
<1>3. \A d \in Depths : d <= n => at[d] = a(d)
  BY <1>0, <1>2 DEF WalkFrames, Depths
<1>4. \A d : d \in k .. n <=> d \in Depths /\ k <= d /\ d <= n
  BY <1>0, <1>2 DEF Depths
<1>5. \A d : d \in ds <=> d \in Depths /\ k <= d /\ d <= n /\ at[d] = t
  BY <1>3, <1>4
<1>6. \A d : d \in (k + 1) .. n <=> d \in Depths /\ k < d /\ d <= n
  BY <1>0, <1>2 DEF Depths
<1>7. (\E d \in (k + 1) .. n : a(d) = t) <=> \E d \in Depths : k < d /\ d <= n /\ at[d] = t
  BY <1>3, <1>6
<1> HIDE DEF a, R
<1>8. ASSUME \A d \in Depths : k <= d /\ d <= n => at[d] # t PROVE R = table[t]
  <2>1. ds = {}
    BY ONLY <1>5, <1>8
  <2> QED BY ONLY <1>1, <2>1
<1>9. ASSUME NEW d \in Depths, k <= d, d <= n, at[d] = t
      PROVE  R = NewRow(table[t], W, k, n, at, phys, d)
  <2>1. d \in ds /\ \A x \in ds : x = d
    BY ONLY <1>0, <1>5, <1>9
  <2>2. pick = d /\ ds # {}
    BY ONLY <2>1
  <2>3. base = IF d = k THEN table[t] ELSE ZeroTable
    <3>1. (\E e \in Depths : k < e /\ e <= n /\ at[e] = t) <=> d # k
      BY ONLY <1>0, <1>2, <1>9
    <3> QED BY ONLY <1>7, <3>1
  <2> DEFINE base2 == IF d = k THEN table[t] ELSE ZeroTable
  <2>4. R = IF d = Levels THEN [base2 EXCEPT ![W[d]] = EncodeLeaf(phys)]
            ELSE IF d < n THEN [base2 EXCEPT ![W[d]] = EncodeLink(a(d + 1), d)]
            ELSE base2
    <3> HIDE DEF pick, base, ds
    <3> QED BY ONLY <1>1, <2>2, <2>3
  <2>5. base2 = [i \in Indices |-> IF d = k THEN table[t][i] ELSE NoEntry]
    BY <1>0 DEF ZeroTable, Tables
  <2> HIDE DEF base2
  <2>6. W[d] \in Indices
    BY <1>0 DEF Walks, Depths
  <2>7. ASSUME NEW x
        PROVE  [base2 EXCEPT ![W[d]] = x] =
                 [i \in Indices |-> IF i = W[d] THEN x ELSE IF d = k THEN table[t][i] ELSE NoEntry]
    BY ONLY <2>5, <2>6
  <2>8. CASE d = Levels
    <3>1. EncodeLeaf(phys) = [to |-> phys, next |-> LevelField(fmt, d)]
      BY ONLY <1>2, <2>8 DEF EncodeLeaf, LevelField
    <3>2. R = [base2 EXCEPT ![W[d]] = [to |-> phys, next |-> LevelField(fmt, d)]]
      BY ONLY <2>4, <2>8, <3>1
    <3> QED BY ONLY <2>7, <2>8, <3>2 DEF Writes, NewRow
  <2>9. CASE d # Levels /\ d < n
    <3>1. d + 1 \in Depths /\ d + 1 <= n
      BY ONLY <1>2, <2>9, d \in Depths DEF Depths
    <3>2. EncodeLink(a(d + 1), d) = [to |-> at[d + 1], next |-> LevelField(fmt, d)]
      BY ONLY <1>3, <3>1 DEF EncodeLink, LevelField
    <3>3. R = [base2 EXCEPT ![W[d]] = [to |-> at[d + 1], next |-> LevelField(fmt, d)]]
      BY ONLY <2>4, <2>9, <3>2
    <3> QED BY ONLY <2>7, <2>9, <3>3 DEF Writes, NewRow
  <2>10. CASE d # Levels /\ ~(d < n)
    BY ONLY <2>4, <2>5, <2>10 DEF Writes, NewRow
  <2> QED BY ONLY <2>8, <2>9, <2>10
<1> QED BY ONLY <1>8, <1>9 DEF R

\* The tables stay tables.
LEMMA RewrittenTables ==
  ASSUME NEW P, NEW A, NEW k, NEW n, NEW W, NEW at, NEW T, Grows(P, A, W, k, n, at), NEW phys \in DataFrames,
         table \in Tables, T = [t \in TableFrames |-> T[t]],
         \A t \in TableFrames :
           \/ T[t] = table[t]
           \/ \E d \in Depths : k <= d /\ d <= n /\ T[t] = NewRow(table[t], W, k, n, at, phys, d)
  PROVE  T \in Tables
<1>1. \A t \in TableFrames : table[t] \in [Indices -> Entries] /\ \A i \in Indices : table[t][i] \in Entries
  BY DEF Tables
<1>2. NoEntry \in Entries
  BY DEF Entries
<1>3. ASSUME NEW d \in Depths, k <= d, d <= n, Writes(d, n)
      PROVE  [to |-> IF d = Levels THEN phys ELSE at[d + 1], next |-> LevelField(fmt, d)] \in Entries
  <2>1. LevelField(fmt, d) \in 0 .. Levels
    BY DmaNumbers DEF LevelField, Depths
  <2>2. d # Levels => at[d + 1] \in TableFrames
    <3>1. d # Levels => d + 1 \in 1 .. n
      BY <1>3, DmaNumbers DEF Writes, Depths, Grows
    <3> QED BY <3>1 DEF Grows
  <2> QED BY ONLY <2>1, <2>2, phys \in DataFrames DEF Entries
<1>4. ASSUME NEW t \in TableFrames PROVE T[t] \in [Indices -> Entries]
  <2>1. CASE T[t] = table[t]
    BY ONLY <1>1, <2>1, t \in TableFrames
  <2>2. ASSUME NEW d \in Depths, k <= d, d <= n,
               T[t] = NewRow(table[t], W, k, n, at, phys, d)
        PROVE  T[t] \in [Indices -> Entries]
    <3>1. ASSUME NEW i \in Indices
          PROVE (IF i = W[d] /\ Writes(d, n)
                          THEN [to |-> IF d = Levels THEN phys ELSE at[d + 1], next |-> LevelField(fmt, d)]
                          ELSE IF d = k THEN table[t][i] ELSE NoEntry) \in Entries
      BY ONLY <1>1, <1>2, <1>3, <2>2, t \in TableFrames, i \in Indices
    <3> QED BY ONLY <2>2, <3>1 DEF NewRow
  <2> QED BY <2>1, <2>2
<1> QED BY ONLY <1>4, T = [t \in TableFrames |-> T[t]] DEF Tables

\* A map, that succeeds or runs out of frames, keeps the tree.
LEMMA MapTree ==
  ASSUME DmaTypes, NEW A, Tree(fmt, root, table, pool, mapped, A), root # NoEntry, NEW W \in Walks,
         NEW phys \in DataFrames, Translate(W) = NoEntry, DomainMap(W, phys)
  PROVE  /\ table' \in Tables /\ pool' \in SUBSET TableFrames
         /\ \E B : Tree(fmt, root, table', pool', mapped', B)
<1>1. /\ table \in Tables /\ pool \in SUBSET TableFrames /\ mapped \in [Walks -> DataFrames \cup {NoEntry}]
  BY DEF DmaTypes
<1>2. PICK k \in Depths : \A d \in Depths : A[W][d] # NoEntry <=> d <= k
  BY WalkDepth
<1>3. /\ Visited(table, W) = A[W]
      /\ Cardinality(MissingFrom(W)) = Levels - k /\ Levels - k \in Nat
      /\ Levels - Cardinality(MissingFrom(W)) = k
  BY <1>2, MissingDepth
<1> DEFINE s == Fresh(Levels - k)
           c == Cardinality(pool)
           have == IF c < Levels - k THEN c ELSE Levels - k
<1>4. /\ have \in Nat /\ have <= Levels - k /\ (have = Levels - k <=> c >= Levels - k)
      /\ s \in [1 .. have -> pool] /\ \A i, j \in 1 .. have : i # j => s[i] # s[j]
      /\ Len(s) = have /\ DOMAIN s = 1 .. have
  BY <1>1, <1>3, FreshFrames
<1>5. /\ table' = MapTables(W, phys, s) /\ pool' = pool \ {s[i] : i \in DOMAIN s}
      /\ mapped' = IF c >= Levels - k THEN [mapped EXCEPT ![W] = phys] ELSE mapped
  <2>1. Fresh(Cardinality(MissingFrom(W))) = s
    BY <1>3
  <2> QED BY <1>3, <2>1 DEF DomainMap, CanMap
<1> HIDE DEF s, c, have
<1> DEFINE n == k + have
           at == WalkFrames(A[W], k, n, s)
           T == MapTo(A[W], k, n, W, phys, s)
<1>6. Levels \in Nat /\ k \in Nat /\ n \in Depths /\ k <= n /\ n <= Levels /\ (n = Levels <=> c >= Levels - k)
  BY <1>2, <1>3, <1>4, DmaNumbers DEF Depths
<1> HIDE DEF n
<1>7. T = MapTables(W, phys, s)
  <2>1. MapTables(W, phys, s) =
          MapTo(Visited(table, W), Levels - Cardinality(MissingFrom(W)),
                (Levels - Cardinality(MissingFrom(W))) + Len(s), W, phys, s)
    BY MapMade
  <2> QED BY ONLY <1>3, <1>4, <2>1 DEF n
<1>8. Grows(pool, A, W, k, n, at)
  BY <1>1, <1>2, <1>4, <1>6, MapGrows DEF n
<1>9. Grafts(fmt, root, table, pool, mapped, A, W, k, n, at)
  BY <1>1, <1>8 DEF Grafts
<1>10. ASSUME NEW t \in TableFrames
       PROVE  /\ (\A d \in Depths : k <= d /\ d <= n => at[d] # t) => T[t] = table[t]
              /\ \A d \in Depths : k <= d /\ d <= n /\ at[d] = t =>
                   T[t] = NewRow(table[t], W, k, n, at, phys, d)
  <2>1. Written(A[W], k, n, W, s, at)
    BY <1>1, <1>2, <1>6, <1>8 DEF Grows, Written
  <2> HIDE DEF at
  <2>2. /\ (\A d \in Depths : k <= d /\ d <= n => at[d] # t) => MapTo(A[W], k, n, W, phys, s)[t] = table[t]
        /\ \A d \in Depths : k <= d /\ d <= n /\ at[d] = t =>
             MapTo(A[W], k, n, W, phys, s)[t] = NewRow(table[t], W, k, n, at, phys, d)
    BY ONLY <2>1, t \in TableFrames, MapRow
  <2> QED BY ONLY <2>2
<1>11. \A d \in Depths : k <= d /\ d <= n => at[d] \in TableFrames
  BY <1>6, <1>8 DEF Grows, Depths
<1>12. T = [t \in TableFrames |-> T[t]]
  BY DEF MapTo
<1> HIDE DEF T, at
<1>13. Rewrites(fmt, table, T, W, k, n, at, phys)
  <2>1. ASSUME NEW d \in Depths, NEW i \in Indices, k <= d, d <= n
        PROVE  T[at[d]][i] =
                 IF i = W[d] /\ Writes(d, n)
                 THEN [to |-> IF d = Levels THEN phys ELSE at[d + 1], next |-> LevelField(fmt, d)]
                 ELSE IF d = k THEN table[at[d]][i] ELSE NoEntry
    <3>1. T[at[d]] = NewRow(table[at[d]], W, k, n, at, phys, d)
      BY ONLY <1>10, <1>11, <2>1
    <3> QED BY ONLY <2>1, <3>1 DEF NewRow
  <2> QED BY ONLY <1>10, <2>1 DEF Rewrites
<1>14. T \in Tables
  <2>1. ASSUME NEW t \in TableFrames
        PROVE  \/ T[t] = table[t]
               \/ \E d \in Depths : k <= d /\ d <= n /\ T[t] = NewRow(table[t], W, k, n, at, phys, d)
    BY ONLY <1>10, t \in TableFrames
  <2> QED BY <1>1, <1>8, <1>12, <2>1, RewrittenTables
<1>15. pool' = {t \in pool : \A d \in Depths : k < d /\ d <= n => at[d] # t}
  <2>1. ASSUME NEW d \in Depths, k < d, d <= n PROVE d - k \in 1 .. have /\ at[d] = s[d - k]
    <3>1. d - k \in 1 .. have /\ d \in 1 .. n /\ ~(d <= k)
      BY ONLY <1>4, <1>6, <2>1 DEF Depths, n
    <3> QED BY ONLY <3>1 DEF at, WalkFrames
  <2>2. ASSUME NEW i \in 1 .. have PROVE k + i \in Depths /\ k < k + i /\ k + i <= n /\ at[k + i] = s[i]
    <3>1. k + i \in Depths /\ k < k + i /\ k + i <= n /\ (k + i) - k = i
      BY ONLY <1>4, <1>6, <2>2 DEF Depths, n
    <3>2. at[k + i] = s[(k + i) - k]
      BY ONLY <2>1, <3>1
    <3> QED BY ONLY <3>1, <3>2
  <2>3. \A t : (\E i \in 1 .. have : s[i] = t) <=> \E d \in Depths : k < d /\ d <= n /\ at[d] = t
    BY ONLY <2>1, <2>2
  <2>4. \A t : t \in pool' <=> t \in pool /\ ~(\E i \in 1 .. have : s[i] = t)
    BY ONLY <1>4, <1>5
  <2>5. \A t : t \in pool' <=> t \in pool /\ \A d \in Depths : k < d /\ d <= n => at[d] # t
    BY ONLY <2>3, <2>4
  <2> QED BY ONLY <2>5
<1>16. mapped' = IF n = Levels THEN [mapped EXCEPT ![W] = phys] ELSE mapped
  BY ONLY <1>5, <1>6
<1>17. Tree(fmt, root, T, pool', mapped', Branch(A, W, n, at))
  <2>1. Maps(fmt, root, table, pool, mapped, A, W, k, n, at, T, phys, pool', mapped')
    BY ONLY <1>1, <1>9, <1>13, <1>14, <1>15, <1>16, phys \in DataFrames DEF Maps
  <2> QED BY ONLY <2>1, GrownTree
<1>18. Tree(fmt, root, table', pool', mapped', Branch(A, W, n, at))
  BY ONLY <1>5, <1>7, <1>17
<1> QED BY ONLY <1>1, <1>5, <1>7, <1>14, <1>15, <1>18

----------------------------------------------------------------------------
(* The addresses.                                                          *)

Iovas == [next : Nat, free : Seq(1 .. IovaPages)]

\* Page n is in use: handed out and not on the stack.
InUse(it, n) == n \in 1 .. IovaPages /\ n < it.next /\ \A i \in 1 .. Len(it.free) : it.free[i] # n

LEMMA WindowWalks ==
  \A m, n \in 1 .. IovaPages : WalkOf(n) \in Walks /\ (WalkOf(m) = WalkOf(n) => m = n)
BY WindowAssumption

LEMMA SeqElements == ASSUME NEW S, NEW s \in Seq(S) PROVE \A i \in 1 .. Len(s) : s[i] \in S
OBVIOUS

LEMMA FreePages == ASSUME NEW it \in Iovas PROVE \A i \in 1 .. Len(it.free) : it.free[i] \in 1 .. IovaPages
<1> DEFINE s == it.free
<1>1. s \in Seq(1 .. IovaPages)
  BY DEF Iovas
<1> HIDE DEF s
<1> DEFINE S == 1 .. IovaPages
<1>2. s \in Seq(S)
  BY ONLY <1>1
<1> HIDE DEF S
<1>3. \A i \in 1 .. Len(s) : s[i] \in S
  BY ONLY <1>2, SeqElements
<1> QED BY ONLY <1>3 DEF s, S

\* A page in use may be mapped or not.
LEMMA UnusedKept ==
  ASSUME NEW it \in Iovas, NEW M, NEW m, NEW n, Unused(it, M), InUse(it, n),
         \A w \in Walks : w # WalkOf(n) => m[w] = M[w]
  PROVE  Unused(it, m)
<1>1. it.next \in Nat /\ \A i \in 1 .. Len(it.free) : it.free[i] \in 1 .. IovaPages
  BY FreePages DEF Iovas
<1>2. /\ \A i \in 1 .. Len(it.free) : it.free[i] < it.next /\ M[WalkOf(it.free[i])] = NoEntry
      /\ \A i, j \in 1 .. Len(it.free) : it.free[i] = it.free[j] => i = j
      /\ \A p \in 1 .. IovaPages : p >= it.next => M[WalkOf(p)] = NoEntry
      /\ it.next >= 1
  BY DEF Unused
<1>3. n \in 1 .. IovaPages /\ n < it.next /\ \A i \in 1 .. Len(it.free) : it.free[i] # n
  BY DEF InUse
<1>4. \A p \in 1 .. IovaPages : p # n => m[WalkOf(p)] = M[WalkOf(p)]
  BY <1>3, WindowWalks
<1>5. \A i \in 1 .. Len(it.free) : m[WalkOf(it.free[i])] = NoEntry
  BY ONLY <1>1, <1>2, <1>3, <1>4
<1>6. \A p \in 1 .. IovaPages : p >= it.next => p # n
  BY ONLY <1>1, <1>3
<1> QED BY ONLY <1>2, <1>4, <1>5, <1>6 DEF Unused

\* A page in use that is not mapped can be given back.
LEMMA GiveBack ==
  ASSUME NEW it \in Iovas, NEW M, NEW n, Unused(it, M), InUse(it, n), M[WalkOf(n)] = NoEntry
  PROVE  FreeIova(it, n) \in Iovas /\ Unused(FreeIova(it, n), M)
<1> DEFINE s == it.free
           r == FreeIova(it, n)
<1>1. s \in Seq(1 .. IovaPages) /\ it.next \in Nat /\ Len(s) \in Nat
  BY DEF Iovas
<1>2. /\ \A i \in 1 .. Len(s) : s[i] < it.next /\ M[WalkOf(s[i])] = NoEntry
      /\ \A i, j \in 1 .. Len(s) : s[i] = s[j] => i = j
      /\ \A p \in 1 .. IovaPages : p >= it.next => M[WalkOf(p)] = NoEntry
      /\ it.next >= 1
  BY DEF Unused
<1>3. n \in 1 .. IovaPages /\ n < it.next /\ \A i \in 1 .. Len(s) : s[i] # n
  BY DEF InUse
<1>4. CASE Len(s) < FreeListLen
  <2>1. r = [it EXCEPT !.free = Append(s, n)]
    BY <1>4 DEF FreeIova
  <2>2. r.next = it.next /\ r.free = Append(s, n) /\ r \in Iovas
    <3>1. Append(s, n) \in Seq(1 .. IovaPages)
      BY <1>1, <1>3
    <3> QED BY <2>1, <3>1 DEF Iovas
  <2>3. /\ Len(Append(s, n)) = Len(s) + 1
        /\ \A i \in 1 .. Len(s) + 1 : Append(s, n)[i] = IF i = Len(s) + 1 THEN n ELSE s[i]
        /\ \A i \in 1 .. Len(s) + 1 : i = Len(s) + 1 \/ i \in 1 .. Len(s)
    BY <1>1
  <2> DEFINE u == Append(s, n)
  <2> HIDE DEF u
  <2>4. Len(u) = Len(s) + 1 /\ \A i \in 1 .. Len(u) :
                                  (i = Len(s) + 1 /\ u[i] = n) \/ (i \in 1 .. Len(s) /\ u[i] = s[i])
    <3>1. \A i \in 1 .. Len(s) : i # Len(s) + 1
      BY ONLY <1>1
    <3> QED BY ONLY <2>3, <3>1 DEF u
  <2>5. \A i \in 1 .. Len(u) : u[i] < it.next /\ M[WalkOf(u[i])] = NoEntry
    BY ONLY <1>2, <1>3, <2>4, M[WalkOf(n)] = NoEntry
  <2>6. \A i, j \in 1 .. Len(u) : u[i] = u[j] => i = j
    BY ONLY <1>2, <1>3, <2>4
  <2>7. r.free = u
    BY ONLY <2>2 DEF u
  <2> HIDE DEF r
  <2>8. Unused(r, M)
    BY ONLY <1>2, <2>2, <2>5, <2>6, <2>7 DEF Unused
  <2> QED BY ONLY <2>2, <2>8 DEF r
<1>5. CASE ~(Len(s) < FreeListLen)
  BY <1>5 DEF FreeIova
<1> QED BY ONLY <1>4, <1>5

\* The page handed out is in use and not mapped.
LEMMA TakeOne ==
  ASSUME NEW M, iova \in Iovas, Unused(iova, M), HasIova
  PROVE  /\ AllocIova.rest \in Iovas /\ Unused(AllocIova.rest, M)
         /\ InUse(AllocIova.rest, AllocIova.page) /\ M[WalkOf(AllocIova.page)] = NoEntry
<1> DEFINE s == iova.free
           r == AllocIova.rest
           p == AllocIova.page
<1>1. s \in Seq(1 .. IovaPages) /\ iova.next \in Nat /\ Len(s) \in Nat /\ IovaPages \in Nat
  BY DmaNumbers DEF Iovas
<1>2. /\ \A i \in 1 .. Len(s) : s[i] < iova.next /\ M[WalkOf(s[i])] = NoEntry
      /\ \A i, j \in 1 .. Len(s) : s[i] = s[j] => i = j
      /\ \A n \in 1 .. IovaPages : n >= iova.next => M[WalkOf(n)] = NoEntry
      /\ iova.next >= 1
  BY DEF Unused
<1>3. CASE s # <<>>
  <2> DEFINE u == SubSeq(s, 1, Len(s) - 1)
  <2>1. p = s[Len(s)] /\ r = [iova EXCEPT !.free = u]
    BY <1>3 DEF AllocIova
  <2>2. Len(s) \in 1 .. Len(s) /\ s[Len(s)] \in 1 .. IovaPages
    BY <1>1, <1>3
  <2>3. u \in Seq(1 .. IovaPages) /\ Len(u) = Len(s) - 1
        /\ \A i \in 1 .. Len(s) - 1 : u[i] = s[i] /\ i \in 1 .. Len(s) /\ i # Len(s)
    BY <1>1, <2>2
  <2> HIDE DEF u
  <2>4. r.next = iova.next /\ r.free = u /\ r \in Iovas
    BY <2>1, <2>3 DEF Iovas
  <2> HIDE DEF r, p
  <2>5. Unused(r, M)
    <3>1. \A i \in 1 .. Len(u) : u[i] = s[i] /\ i \in 1 .. Len(s)
      BY ONLY <2>3
    <3>2. \A i \in 1 .. Len(u) : u[i] < iova.next /\ M[WalkOf(u[i])] = NoEntry
      BY ONLY <1>2, <3>1
    <3>3. \A i, j \in 1 .. Len(u) : u[i] = u[j] => i = j
      BY ONLY <1>2, <3>1
    <3> QED BY ONLY <1>2, <2>4, <3>2, <3>3 DEF Unused
  <2>6. InUse(r, p)
    BY ONLY <1>2, <2>1, <2>2, <2>3, <2>4 DEF InUse
  <2>7. M[WalkOf(p)] = NoEntry
    BY ONLY <1>2, <2>1, <2>2
  <2> QED BY ONLY <2>4, <2>5, <2>6, <2>7 DEF r, p
<1>4. CASE s = <<>>
  <2>1. p = iova.next /\ r = [iova EXCEPT !.next = iova.next + 1] /\ iova.next <= IovaPages
    BY <1>4 DEF AllocIova, HasIova
  <2>2. r.next = iova.next + 1 /\ r.free = s /\ r \in Iovas /\ Len(s) = 0
    BY <1>1, <1>4, <2>1 DEF Iovas
  <2>3. p \in 1 .. IovaPages /\ p < iova.next + 1 /\ p >= iova.next
    BY <1>1, <1>2, <2>1
  <2>4. \A n \in 1 .. IovaPages : n >= iova.next + 1 => n >= iova.next
    BY ONLY <1>1
  <2> HIDE DEF r, p
  <2>5. Unused(r, M)
    <3>1. iova.next + 1 >= 1
      BY ONLY <1>1
    <3>2. \A i \in 1 .. Len(s) : FALSE
      BY ONLY <2>2
    <3> QED BY ONLY <1>2, <2>2, <2>4, <3>1, <3>2 DEF Unused
  <2>6. InUse(r, p)
    BY ONLY <2>2, <2>3 DEF InUse
  <2>7. M[WalkOf(p)] = NoEntry
    BY ONLY <1>2, <2>3
  <2> QED BY ONLY <2>2, <2>5, <2>6, <2>7 DEF r, p
<1> QED BY ONLY <1>3, <1>4

----------------------------------------------------------------------------
(* The steps.                                                              *)

LEMMA DmaInitHolds == DmaInit => DmaInv
<1>1. SUFFICES ASSUME DmaInit PROVE DmaInv
  OBVIOUS
<1>2. \A n \in 1 .. IovaPages : mapped[WalkOf(n)] = NoEntry
  BY <1>1, WindowWalks DEF DmaInit
<1>3. iova = [next |-> 1, free |-> <<>>] /\ Len(<<>>) = 0
  BY <1>1 DEF DmaInit
<1>4. Unused(iova, mapped)
  BY <1>2, <1>3 DEF Unused
<1>5. DmaTypes
  <2>1. table \in Tables
    BY <1>1 DEF DmaInit, Tables, ZeroTable, Entries
  <2>2. iova \in [next : Nat, free : Seq(1 .. IovaPages)]
    BY <1>3
  <2> QED BY <1>1, <2>1, <2>2 DEF DmaInit, DmaTypes
<1>6. Tree(fmt, root, table, pool, mapped, [w \in Walks |-> [d \in Depths |-> NoEntry]])
  BY <1>1, EmptyTree DEF DmaInit
<1> QED BY <1>4, <1>5, <1>6 DEF DmaInv

LEMMA NewDomainStep == ASSUME DmaInv, NEW f \in TableFrames, NewDomain(f) PROVE DmaInv'
<1>1. PICK A : Tree(fmt, root, table, pool, mapped, A)
  BY DEF DmaInv
<1>2. /\ fmt \in {"Vtd", "AmdVi"} /\ table \in Tables /\ pool \in SUBSET TableFrames
      /\ mapped \in [Walks -> DataFrames \cup {NoEntry}]
  BY DEF DmaInv, DmaTypes
<1>3. /\ root = NoEntry /\ root' = f /\ pool' = pool \ {f} /\ fmt' = fmt /\ mapped' = mapped
      /\ table' = [table EXCEPT ![f] = ZeroTable] /\ iova' = [next |-> 1, free |-> <<>>]
  BY DEF NewDomain
<1>4. pool = TableFrames /\ mapped = [w \in Walks |-> NoEntry]
  <2>1. Tree(fmt, NoEntry, table, pool, mapped, A)
    BY <1>1, <1>3
  <2> QED BY <1>2, <2>1, NoRoot
<1>5. table' \in Tables /\ \A i \in Indices : table'[f][i] = NoEntry
  BY <1>2, <1>3 DEF Tables, ZeroTable, Entries
<1>6. DmaTypes'
  <2>1. iova' \in [next : Nat, free : Seq(1 .. IovaPages)]
    BY <1>3
  <2>2. pool' \in SUBSET TableFrames /\ root' \in TableFrames \cup {NoEntry}
    BY <1>2, <1>3
  <2> QED BY ONLY <1>2, <1>3, <1>5, <2>1, <2>2 DEF DmaTypes
<1>7. \E B : Tree(fmt', root', table', pool', mapped', B)
  <2>1. PICK tb : tb = table'
    OBVIOUS
  <2>2. \E B : Tree(fmt, f, tb, TableFrames \ {f}, [w \in Walks |-> NoEntry], B)
    <3>1. \A i \in Indices : tb[f][i] = NoEntry
      BY <1>5, <2>1
    <3> QED BY <3>1, RootTree
  <2> QED BY ONLY <1>3, <1>4, <2>1, <2>2
<1>8. Unused(iova', mapped')
  <2>1. \A n \in 1 .. IovaPages : mapped'[WalkOf(n)] = NoEntry
    BY <1>3, <1>4, WindowWalks
  <2>2. Len(<<>>) = 0
    OBVIOUS
  <2> QED BY ONLY <1>3, <2>1, <2>2 DEF Unused
<1> QED BY ONLY <1>6, <1>7, <1>8 DEF DmaInv

LEMMA TeardownStep == ASSUME DmaInv, DomainTeardown PROVE DmaInv'
<1>1. PICK A : Tree(fmt, root, table, pool, mapped, A)
  BY DEF DmaInv
<1>2. /\ fmt \in {"Vtd", "AmdVi"} /\ table \in Tables /\ pool \in SUBSET TableFrames
      /\ iova \in Iovas /\ Unused(iova, mapped)
  BY DEF DmaInv, DmaTypes, Iovas
<1>3. /\ root # NoEntry /\ pool' = pool \cup Subtree(table, root) /\ root' = NoEntry
      /\ mapped' = [w \in Walks |-> NoEntry] /\ fmt' = fmt /\ table' = table /\ iova' = iova
  BY DEF DomainTeardown, FreeSubtree
<1>4. pool' = TableFrames
  <2>1. Subtree(table, root) = TableFrames \ pool
    BY <1>1, <1>2, <1>3, SubtreeTables
  <2> QED BY <1>2, <1>3, <2>1
<1>5. \A n \in 1 .. IovaPages : mapped'[WalkOf(n)] = NoEntry
  BY <1>3, WindowWalks
<1>6. mapped' \in [Walks -> DataFrames \cup {NoEntry}]
  BY <1>3
<1>7. DmaTypes'
  BY ONLY <1>2, <1>3, <1>4, <1>6 DEF DmaTypes, Iovas
<1>8. \E B : Tree(fmt', root', table', pool', mapped', B)
  <2>1. \E B : Tree(fmt, NoEntry, table, TableFrames, [w \in Walks |-> NoEntry], B)
    BY EmptyTree
  <2> QED BY ONLY <1>3, <1>4, <2>1
<1>9. Unused(iova', mapped')
  <2>1. \A i \in 1 .. Len(iova.free) : iova.free[i] \in 1 .. IovaPages
    BY <1>2, FreePages
  <2> QED BY ONLY <1>2, <1>3, <1>5, <2>1 DEF Unused
<1> QED BY ONLY <1>7, <1>8, <1>9 DEF DmaInv

LEMMA MapStep == ASSUME DmaInv, NEW phys \in DataFrames, MapBuffer(phys) PROVE DmaInv'
<1>1. PICK A : Tree(fmt, root, table, pool, mapped, A)
  BY DEF DmaInv
<1>2. /\ fmt \in {"Vtd", "AmdVi"} /\ root \in TableFrames \cup {NoEntry}
      /\ mapped \in [Walks -> DataFrames \cup {NoEntry}]
      /\ iova \in Iovas /\ Unused(iova, mapped) /\ DmaTypes
  BY DEF DmaInv, DmaTypes, Iovas
<1> DEFINE r == AllocIova.rest
           p == AllocIova.page
           W == WalkOf(p)
<1>3. /\ root # NoEntry /\ HasIova /\ DomainMap(W, phys)
      /\ iova' = IF CanMap(W) THEN r ELSE FreeIova(r, p)
  BY DEF MapBuffer
<1>4. r \in Iovas /\ Unused(r, mapped) /\ InUse(r, p) /\ mapped[W] = NoEntry
  BY <1>2, <1>3, TakeOne
<1>5. W \in Walks
  BY <1>4, WindowWalks DEF InUse
<1> HIDE DEF r, p
<1>6. Translate(W) = NoEntry
  BY <1>1, <1>4, <1>5, TranslateMapped
<1>7. /\ table' \in Tables /\ pool' \in SUBSET TableFrames
      /\ \E B : Tree(fmt, root, table', pool', mapped', B)
  BY <1>1, <1>2, <1>3, <1>5, <1>6, MapTree
<1>8. /\ mapped' = IF CanMap(W) THEN [mapped EXCEPT ![W] = phys] ELSE mapped
      /\ fmt' = fmt /\ root' = root
  BY <1>3 DEF DomainMap
<1>9. mapped' \in [Walks -> DataFrames \cup {NoEntry}]
  BY ONLY <1>2, <1>5, <1>8, phys \in DataFrames
<1>10. iova' \in Iovas /\ Unused(iova', mapped')
  <2>1. CASE CanMap(W)
    <3>1. PICK m : m = [mapped EXCEPT ![W] = phys]
      OBVIOUS
    <3>2. \A w \in Walks : w # WalkOf(p) => m[w] = mapped[w]
      BY ONLY <1>2, <3>1
    <3>3. Unused(r, m)
      BY <1>4, <3>2, UnusedKept
    <3> QED BY ONLY <1>3, <1>4, <1>8, <2>1, <3>1, <3>3
  <2>2. CASE ~CanMap(W)
    <3>1. FreeIova(r, p) \in Iovas /\ Unused(FreeIova(r, p), mapped)
      BY <1>4, GiveBack
    <3> QED BY ONLY <1>3, <1>8, <2>2, <3>1
  <2> QED BY ONLY <2>1, <2>2
<1>11. DmaTypes'
  BY ONLY <1>2, <1>7, <1>8, <1>9, <1>10 DEF DmaTypes, Iovas
<1> QED BY ONLY <1>7, <1>8, <1>10, <1>11 DEF DmaInv

LEMMA UnmapStep == ASSUME DmaInv, NEW n \in 1 .. IovaPages, UnmapBuffer(n) PROVE DmaInv'
<1>1. PICK A : Tree(fmt, root, table, pool, mapped, A)
  BY DEF DmaInv
<1>2. /\ fmt \in {"Vtd", "AmdVi"} /\ root \in TableFrames \cup {NoEntry} /\ table \in Tables
      /\ pool \in SUBSET TableFrames /\ mapped \in [Walks -> DataFrames \cup {NoEntry}]
      /\ iova \in Iovas /\ Unused(iova, mapped)
  BY DEF DmaInv, DmaTypes, Iovas
<1> DEFINE W == WalkOf(n)
           leaf == A[W][Levels]
<1>3. /\ Translate(W) # NoEntry /\ table' = UnmapTables(W) /\ mapped' = [mapped EXCEPT ![W] = NoEntry]
      /\ iova' = FreeIova(iova, n) /\ fmt' = fmt /\ root' = root /\ pool' = pool
  BY DEF UnmapBuffer
<1>4. W \in Walks
  BY WindowWalks
<1> HIDE DEF W
<1>5. /\ A \in Trees /\ Walked(root, table, mapped, A) /\ mapped[W] = Follow(table, A[W][Levels], W[Levels])
  BY <1>1, <1>4 DEF Tree, Walked
<1>6. mapped[W] # NoEntry
  BY <1>1, <1>3, <1>4, TranslateMapped
<1>7. leaf # NoEntry /\ leaf \in TableFrames /\ W[Levels] \in Indices
  <2>1. leaf # NoEntry
    BY ONLY <1>5, <1>6 DEF Follow
  <2>2. leaf \in TableFrames \cup {NoEntry}
    BY ONLY <1>4, <1>5, DmaNumbers DEF Trees
  <2>3. W[Levels] \in Indices
    BY ONLY <1>4, DmaNumbers DEF Walks
  <2> QED BY ONLY <2>1, <2>2, <2>3
<1>8. table' = [table EXCEPT ![leaf][W[Levels]] = NoEntry]
  <2>1. Visited(table, W) = A[W]
    BY <1>4, <1>5, VisitedTables
  <2> QED BY ONLY <1>3, <2>1 DEF UnmapTables
<1> HIDE DEF leaf
<1>9. /\ table' \in Tables
      /\ \A t \in TableFrames : \A i \in Indices :
           table'[t][i] = IF t = leaf /\ i = W[Levels] THEN NoEntry ELSE table[t][i]
  <2>1. table \in [TableFrames -> [Indices -> Entries]] /\ NoEntry \in Entries
    BY <1>2 DEF Tables, Entries
  <2> QED BY ONLY <1>7, <1>8, <2>1 DEF Tables
<1>10. Tree(fmt', root', table', pool', mapped', A)
  <2>1. PICK T : T = table'
    OBVIOUS
  <2>2. PICK m : m = [mapped EXCEPT ![W] = NoEntry]
    OBVIOUS
  <2>3. T \in Tables /\ \A t \in TableFrames : \A i \in Indices :
           T[t][i] = IF t = A[W][Levels] /\ i = W[Levels] THEN NoEntry ELSE table[t][i]
    BY ONLY <1>9, <2>1 DEF leaf
  <2>4. Clears(fmt, root, table, pool, mapped, A, W, T, m)
    BY ONLY <1>1, <1>2, <1>4, <1>7, <2>2, <2>3 DEF Clears, leaf
  <2>5. Tree(fmt, root, T, pool, m, A)
    BY ONLY <2>4, ClearedTree
  <2> QED BY ONLY <1>3, <2>1, <2>2, <2>5
<1>11. mapped' \in [Walks -> DataFrames \cup {NoEntry}] /\ mapped'[W] = NoEntry
       /\ \A w \in Walks : w # W => mapped'[w] = mapped[w]
  BY ONLY <1>2, <1>3, <1>4
<1>12. InUse(iova, n)
  <2>1. iova.next \in Nat /\ \A i \in 1 .. Len(iova.free) : iova.free[i] \in 1 .. IovaPages
    BY <1>2, FreePages DEF Iovas
  <2>2. /\ \A i \in 1 .. Len(iova.free) : mapped[WalkOf(iova.free[i])] = NoEntry
        /\ \A p \in 1 .. IovaPages : p >= iova.next => mapped[WalkOf(p)] = NoEntry
    BY ONLY <1>2 DEF Unused
  <2>3. n \in Nat /\ n \in 1 .. IovaPages /\ mapped[WalkOf(n)] # NoEntry
    BY ONLY <1>6, n \in 1 .. IovaPages, DmaNumbers DEF W
  <2> QED BY ONLY <2>1, <2>2, <2>3 DEF InUse
<1>13. iova' \in Iovas /\ Unused(iova', mapped')
  <2>1. PICK m : m = mapped'
    OBVIOUS
  <2>2. Unused(iova, m)
    <3>1. \A w \in Walks : w # WalkOf(n) => m[w] = mapped[w]
      BY ONLY <1>11, <2>1 DEF W
    <3> QED BY <1>2, <1>12, <3>1, UnusedKept
  <2>3. m[WalkOf(n)] = NoEntry
    BY ONLY <1>11, <2>1 DEF W
  <2>4. FreeIova(iova, n) \in Iovas /\ Unused(FreeIova(iova, n), m)
    BY <1>2, <1>12, <2>2, <2>3, GiveBack
  <2> QED BY ONLY <1>3, <2>1, <2>4
<1>14. DmaTypes'
  BY ONLY <1>2, <1>3, <1>9, <1>11, <1>13 DEF DmaTypes, Iovas
<1> QED BY ONLY <1>10, <1>13, <1>14 DEF DmaInv

LEMMA DmaStep == DmaInv /\ [DmaNext]_dmaVars => DmaInv'
<1>1. SUFFICES ASSUME DmaInv, [DmaNext]_dmaVars PROVE DmaInv'
  OBVIOUS
<1>2. CASE \E f \in TableFrames : NewDomain(f)
  BY <1>1, <1>2, NewDomainStep
<1>3. CASE \E phys \in DataFrames : MapBuffer(phys)
  BY <1>1, <1>3, MapStep
<1>4. CASE \E n \in 1 .. IovaPages : UnmapBuffer(n)
  BY <1>1, <1>4, UnmapStep
<1>5. CASE DomainTeardown
  BY <1>1, <1>5, TeardownStep
<1>6. CASE UNCHANGED dmaVars
  <2>1. /\ fmt' = fmt /\ root' = root /\ table' = table /\ pool' = pool /\ iova' = iova /\ mapped' = mapped
    BY <1>6 DEF dmaVars
  <2>2. DmaTypes'
    BY <1>1, <2>1 DEF DmaInv, DmaTypes
  <2>3. (\E A : Tree(fmt', root', table', pool', mapped', A)) /\ Unused(iova', mapped')
    BY <1>1, <2>1 DEF DmaInv
  <2> QED BY ONLY <2>2, <2>3 DEF DmaInv
<1> QED BY <1>1, <1>2, <1>3, <1>4, <1>5, <1>6 DEF DmaNext

THEOREM DmaInvHolds == DmaSpec => []DmaInv
BY DmaInitHolds, DmaStep, PTL DEF DmaSpec

LEMMA InvAgrees == DmaInv => HardwareAgrees
<1>1. SUFFICES ASSUME DmaInv, NEW w \in Walks PROVE HardwareWalk(w) = mapped[w]
  BY DEF HardwareAgrees
<1>2. PICK A : Tree(fmt, root, table, pool, mapped, A)
  BY <1>1 DEF DmaInv
<1> QED BY <1>2, UnitReaches

LEMMA InvConserves == DmaInv => SpaceConserved
<1>1. SUFFICES ASSUME DmaInv PROVE SpaceConserved
  OBVIOUS
<1>2. PICK A : Tree(fmt, root, table, pool, mapped, A)
  BY <1>1 DEF DmaInv
<1>3. /\ table \in Tables /\ pool \in SUBSET TableFrames /\ mapped \in [Walks -> DataFrames \cup {NoEntry}]
      /\ iova \in Iovas /\ Unused(iova, mapped)
  BY <1>1 DEF DmaInv, DmaTypes, Iovas
<1>4. TablesConserved
  <2>1. CASE root = NoEntry
    <3>1. Tree(fmt, NoEntry, table, pool, mapped, A)
      BY <1>2, <2>1
    <3>2. pool = TableFrames
      BY <1>3, <3>1, NoRoot
    <3> QED BY ONLY <2>1, <3>2 DEF TablesConserved
  <2>2. CASE root # NoEntry
    <3>1. Subtree(table, root) = TableFrames \ pool
      BY <1>2, <1>3, <2>2, SubtreeTables
    <3> QED BY ONLY <1>3, <2>2, <3>1 DEF TablesConserved
  <2> QED BY ONLY <2>1, <2>2
<1>5. IovasFresh
  BY <1>3, TakeOne DEF IovasFresh
<1> QED BY <1>4, <1>5 DEF SpaceConserved

\* After any sequence of maps, maps that run out of frames half way, unmaps and
\* teardowns, in both entry formats, the unit's walk over a domain's tables
\* resolves every device address to the frame last mapped there and to nothing
\* else (map, unmap, teardown and translate of iommu.rs).
THEOREM DevicesReachWhatIsMapped == DmaSpec => []HardwareAgrees
BY DmaInvHolds, InvAgrees, PTL

\* The frames of a domain's tables are never lost nor freed twice, those left by a
\* map that failed included, and the page map_buffer takes from the window is
\* never one that is mapped (free_subtree and IovaAllocator of iommu.rs).
THEOREM DmaSpaceKept == DmaSpec => []SpaceConserved
BY DmaInvHolds, InvConserves, PTL
=============================================================================
