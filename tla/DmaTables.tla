----------------------------- MODULE DmaTables -----------------------------
(***************************************************************************)
(* The second-level page tables of an IOMMU domain and the allocator of    *)
(* device addresses above them: Domain and IovaAllocator of                *)
(* kernel/src/iommu.rs, in both entry formats (VT-d and AMD-Vi).           *)
(*                                                                         *)
(* A device address is the sequence of table indices its walk uses, top    *)
(* level first.  Memory is a set of frames; a frame holds a table or is    *)
(* free.  Data frames belong to the caller and stay out of the pool.       *)
(***************************************************************************)
EXTENDS Naturals, Sequences, FiniteSets

CONSTANTS
  NoEntry,       \* a model value: not present
  TableFrames,   \* frames of the allocator that can hold a table
  Levels,        \* walk depth; 3 to 5 in the source
  Indices,       \* 0 .. ENTRIES-1
  DataFrames,    \* caller-owned frames that get mapped
  IovaPages,     \* pages of the bound window
  FreeListLen    \* IOVA_FREELIST

ASSUME DmaAssumption ==
  /\ Levels \in Nat \ {0} /\ IovaPages \in Nat /\ FreeListLen \in Nat
  /\ IsFiniteSet(TableFrames) /\ Indices # {}

VARIABLES
  fmt,       \* the entry format: "Vtd" or "AmdVi"
  root,      \* the top-level table's frame, or NoEntry when there is no domain
  table,     \* frame |-> its entries
  pool,      \* the frames the allocator holds
  iova,      \* the allocator: next page of the window, stack of freed pages
  mapped     \* what the callers asked for: device address |-> data frame

dmaVars == <<fmt, root, table, pool, iova, mapped>>

\* An entry: present, the frame it names, and AMD-Vi's Next Level field.
Entries == {NoEntry} \cup [to : TableFrames \cup DataFrames, next : 0 .. Levels]

Walks == [1 .. Levels -> Indices]

\* An entry that is not present is told from one that is, and from a frame.
ASSUME NoEntryAssumption ==
  /\ NoEntry \notin TableFrames \cup DataFrames
  /\ NoEntry \notin [to : TableFrames \cup DataFrames, next : 0 .. Levels]

ZeroTable == [i \in Indices |-> NoEntry]

----------------------------------------------------------------------------
(* Entry formats.                                                          *)

EncodeLeaf(phys) == [to |-> phys, next |-> 0]

\* Mutant: the level of the table itself instead of the child's.
EncodeLinkOffByOne(child, depth) ==
  [to |-> child, next |-> IF fmt = "AmdVi" THEN Levels - depth + 1 ELSE 0]

\* A link names a child `Levels - depth` levels above the page; VT-d has no
\* such field.  Depth counts from 1 here.
EncodeLink(child, depth) ==
  [to |-> child, next |-> IF fmt = "AmdVi" THEN Levels - depth ELSE 0]

----------------------------------------------------------------------------
(* The walk.                                                               *)

\* The tables a walk visits: at[d] is the table read at depth d, NoEntry once
\* a link is missing.
Visited(tb, w) ==
  LET at[d \in 1 .. Levels] ==
        IF d = 1 THEN root
        ELSE LET t == at[d - 1]
             IN IF t = NoEntry \/ tb[t][w[d - 1]] = NoEntry THEN NoEntry
                ELSE tb[t][w[d - 1]].to
  IN at

Translate(w) ==
  LET leaf == Visited(table, w)[Levels]
  IN IF root = NoEntry \/ leaf = NoEntry \/ table[leaf][w[Levels]] = NoEntry
     THEN NoEntry ELSE table[leaf][w[Levels]].to

\* What the remapping unit does with the same tables: it stops at the entry
\* that says "page".  VT-d counts levels from the context entry's address
\* width; AMD-Vi follows the Next Level field, which must fall by one a step.
HardwareWalk(w) ==
  LET entry(t, d) == IF t \in TableFrames THEN table[t][w[d]] ELSE NoEntry
      step[d \in 1 .. Levels + 1] ==
        IF d = 1 THEN root
        ELSE LET e == entry(step[d - 1], d - 1)
             IN IF e = NoEntry \/ (fmt = "AmdVi" /\ e.next # Levels + 1 - d)
                THEN NoEntry ELSE e.to
  IN step[Levels + 1]

\* The tables a subtree holds, root first: what free_subtree returns.
Subtree(tb, r) ==
  LET below[d \in 1 .. Levels] ==
        IF d = 1 THEN {r}
        ELSE UNION {{tb[t][i].to : i \in {j \in Indices : tb[t][j] # NoEntry}} :
                      t \in below[d - 1]}
  IN UNION {below[d] : d \in 1 .. Levels}

\* Mutant: the leaf tables are taken for data and kept.
SubtreeMissesLeaves(tb, r) ==
  {t \in {r} \cup {tb[r][i].to : i \in {j \in Indices : tb[r][j] # NoEntry}} :
     t \in TableFrames}

FreeSubtree(tb, r) == Subtree(tb, r)

----------------------------------------------------------------------------
(* The operations.                                                         *)

\* Domain::new: one zeroed table.
NewDomain(f) ==
  /\ root = NoEntry
  /\ f \in pool
  /\ root' = f
  /\ pool' = pool \ {f}
  /\ table' = [table EXCEPT ![f] = ZeroTable]
  /\ iova' = [next |-> 1, free |-> <<>>]
  /\ UNCHANGED <<fmt, mapped>>

\* The missing links of a walk: the depths whose entry has to be allocated.
MissingFrom(w) == {d \in 1 .. Levels - 1 : Visited(table, w)[d + 1] = NoEntry}

\* Domain::map's effect on memory: `fresh` are the frames the allocator hands
\* out, in order, for the missing tables.  When they run out the links made so
\* far stay; when the leaf is already present nothing changes.
MapTables(w, phys, fresh) ==
  LET seen  == Visited(table, w)
      first == Levels - Cardinality(MissingFrom(w))   \* the last depth present
      at(d) == IF d <= first THEN seen[d] ELSE fresh[d - first]
      done  == first + Len(fresh)                    \* the depth reached
  IN [t \in TableFrames |->
       LET depths == {d \in first .. done : at(d) = t}
           base == IF \E d \in (first + 1) .. done : at(d) = t
                   THEN ZeroTable ELSE table[t]
       IN IF depths = {} THEN table[t]
          ELSE LET d == CHOOSE x \in depths : TRUE
               IN IF d = Levels THEN [base EXCEPT ![w[d]] = EncodeLeaf(phys)]
                  ELSE IF d < done THEN [base EXCEPT ![w[d]] = EncodeLink(at(d + 1), d)]
                  ELSE base]

\* The frames handed out for a map: as many as are missing, or all there are.
\* Which of the free frames they are makes no difference to the tables.
Fresh(n) ==
  LET have == IF Cardinality(pool) < n THEN Cardinality(pool) ELSE n
  IN CHOOSE s \in [1 .. have -> pool] :
       /\ \A i, j \in 1 .. have : i # j => s[i] # s[j]

CanMap(w) == Translate(w) = NoEntry /\ Cardinality(pool) >= Cardinality(MissingFrom(w))

DomainMap(w, phys) ==
  LET fresh == Fresh(Cardinality(MissingFrom(w)))
  IN /\ table' = IF Translate(w) = NoEntry THEN MapTables(w, phys, fresh) ELSE table
     /\ pool' = pool \ {fresh[i] : i \in DOMAIN fresh}
     /\ mapped' = IF CanMap(w) THEN [mapped EXCEPT ![w] = phys] ELSE mapped
     /\ UNCHANGED <<fmt, root>>

\* The walk of page n of the bound window: n in base |Indices|.
WalkOf(n) ==
  LET b == Cardinality(Indices)
  IN [d \in 1 .. Levels |-> (n \div (b ^ (Levels - d))) % b]

\* The window lies within the reach of a walk: its pages have walks of their own.
ASSUME WindowAssumption ==
  \A m, n \in 1 .. IovaPages : WalkOf(n) \in Walks /\ (WalkOf(m) = WalkOf(n) => m = n)

\* Mutant: a page is taken from the free stack and left there.
AllocKeepsFree ==
  IF iova.free # <<>>
  THEN [page |-> iova.free[Len(iova.free)], rest |-> iova]
  ELSE [page |-> iova.next, rest |-> [iova EXCEPT !.next = @ + 1]]

\* IovaAllocator::alloc: the last freed page, else the cursor.
AllocIova ==
  IF iova.free # <<>>
  THEN [page |-> iova.free[Len(iova.free)],
        rest |-> [iova EXCEPT !.free = SubSeq(@, 1, Len(@) - 1)]]
  ELSE [page |-> iova.next, rest |-> [iova EXCEPT !.next = @ + 1]]

HasIova == iova.free # <<>> \/ iova.next <= IovaPages

\* IovaAllocator::free: remembered while the stack has room.
FreeIova(it, page) ==
  IF Len(it.free) < FreeListLen THEN [it EXCEPT !.free = Append(@, page)] ELSE it

\* Domain::map_buffer: a failed map gives the address back.
MapBuffer(phys) ==
  /\ root # NoEntry
  /\ HasIova
  /\ LET a == AllocIova
     IN /\ DomainMap(WalkOf(a.page), phys)
        /\ iova' = IF CanMap(WalkOf(a.page)) THEN a.rest ELSE FreeIova(a.rest, a.page)

\* Domain::unmap: the leaf entry is cleared, the tables stay.
UnmapTables(w) ==
  [table EXCEPT ![Visited(table, w)[Levels]][w[Levels]] = NoEntry]

\* Domain::unmap_buffer.
UnmapBuffer(n) ==
  /\ root # NoEntry
  /\ Translate(WalkOf(n)) # NoEntry
  /\ table' = UnmapTables(WalkOf(n))
  /\ mapped' = [mapped EXCEPT ![WalkOf(n)] = NoEntry]
  /\ iova' = FreeIova(iova, n)
  /\ UNCHANGED <<fmt, root, pool>>

\* Domain::teardown: every table frame goes back, no mapped frame does.
DomainTeardown ==
  /\ root # NoEntry
  /\ pool' = pool \cup FreeSubtree(table, root)
  /\ root' = NoEntry
  /\ mapped' = [w \in Walks |-> NoEntry]
  /\ UNCHANGED <<fmt, table, iova>>

DmaInit ==
  /\ fmt \in {"Vtd", "AmdVi"}
  /\ root = NoEntry
  /\ table = [f \in TableFrames |-> ZeroTable]
  /\ pool = TableFrames
  /\ iova = [next |-> 1, free |-> <<>>]
  /\ mapped = [w \in Walks |-> NoEntry]

DmaNext ==
  \/ \E f \in TableFrames : NewDomain(f)
  \/ \E phys \in DataFrames : MapBuffer(phys)
  \/ \E n \in 1 .. IovaPages : UnmapBuffer(n)
  \/ DomainTeardown

DmaSpec == DmaInit /\ [][DmaNext]_dmaVars

----------------------------------------------------------------------------
(* Properties.                                                             *)

\* What the device reaches is what the callers mapped: the unit's walk over
\* the tables resolves every address to the frame last mapped there and to
\* nothing else, after any sequence of maps, failed maps, unmaps and
\* teardowns, in both entry formats.
HardwareAgrees == \A w \in Walks : HardwareWalk(w) = mapped[w]

\* A live address is never handed out a second time: map_buffer does not fail
\* with AlreadyMapped while the window has room.
IovasFresh == root # NoEntry /\ HasIova => mapped[WalkOf(AllocIova.page)] = NoEntry

\* Table frames are never lost or freed twice: each is in the pool or is one of
\* the tables reachable from the root, those a failed map left behind included.
TablesConserved ==
  LET held == IF root = NoEntry THEN {} ELSE Subtree(table, root)
  IN pool \cap held = {} /\ pool \cup held = TableFrames

\* Neither table frames nor addresses are lost or given out twice.
SpaceConserved == TablesConserved /\ IovasFresh

============================================================================
