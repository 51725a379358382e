-------------------------- MODULE ComponentProofs --------------------------
(***************************************************************************)
(* Theorems about single components: the caches of the remapping unit      *)
(* (RemapUnit), for every number of devices and pages and every command    *)
(* ring; the filesystem (RwFs), for every disk and                         *)
(* directory; the shell's screen and its reaping (Shell), for every screen *)
(* the icons fit on; the order of event streams (Reactor), for every       *)
(* number of streams and every size of the completion queue and the table; *)
(* overlapping reads on a bound device (DirectBinding), for every number   *)
(* of chains and reads.                                                    *)
(***************************************************************************)
EXTENDS RemapUnit, RwFs, Shell, Reactor, DirectBinding,
        FiniteSetTheorems, WellFoundedInduction, TLAPS

----------------------------------------------------------------------------
(* The caches of the remapping unit.                                       *)

RemapTypes ==
  /\ backend \in {"Vtd", "AmdVi"}
  /\ entry \in [RemapDevices -> Domains \cup {NoDomain}]
  /\ ctx \in [RemapDevices -> Domains \cup {NoDomain}]
  /\ pages \in [Domains -> SUBSET IoPages]
  /\ iotlb \in [Domains -> [present : SUBSET IoPages, absent : SUBSET IoPages]]
  /\ sem_val \in Nat /\ sem \in Nat
  /\ cmds \in Seq(Nat)

\* What the unit has cached of the device tables E, and of the page tables P,
\* agrees with them.
RoutesAgree(E, X) == \A d \in RemapDevices : X[d] # NoDomain => X[d] = E[d]

PagesAgree(P, T) ==
  \A did \in Domains : T[did].present \subseteq P[did] /\ T[did].absent \cap P[did] = {}

\* AMD-Vi: the flush of the wait v is still in the ring, before the wait, and the
\* semaphore does not say otherwise.
FlushAhead(C, s, v) ==
  s # v /\ \E i \in 1 .. Len(C) : C[i] = 0 /\ \A j \in 1 .. i : C[j] # v

\* No wait in the ring, and none executed, is later than v.
WaitsUpTo(C, s, v) == s <= v /\ \A i \in 1 .. Len(C) : C[i] <= v

\* The driver knows at every point of an invalidation how far the unit is.
FlushKnown ==
  /\ phase \in {"contexts", "iotlb"} => backend = "Vtd"
  /\ phase = "completion" => backend = "AmdVi"
  /\ WaitsUpTo(cmds, sem, sem_val)
  /\ phase = "contexts" => icc \/ RoutesAgree(entry, ctx)
  /\ phase = "iotlb" => /\ late \/ RoutesAgree(entry, ctx)
                        /\ ivt \/ PagesAgree(pages, iotlb)
  /\ phase = "completion" => \/ FlushAhead(cmds, sem, sem_val)
                             \/ RoutesAgree(entry, ctx) /\ PagesAgree(pages, iotlb)
  /\ (phase = "idle" /\ enabled /\ ~late) =>
       RoutesAgree(entry, ctx) /\ PagesAgree(pages, iotlb)

RemapInv == RemapTypes /\ FlushKnown

\* The command ring takes a flush and a wait without overtaking its head.
RingHasRoom == Len(cmds) + 2 < CmdRing

\* Two commands posted with room for both are the last two.
LEMMA PostedLast ==
  ASSUME NEW C \in Seq(Nat), NEW v \in Nat, Len(C) + 2 < CmdRing
  PROVE  /\ PostCommand(PostCommand(C, 0), v) \in Seq(Nat)
         /\ Len(PostCommand(PostCommand(C, 0), v)) = Len(C) + 2
         /\ PostCommand(PostCommand(C, 0), v)[Len(C) + 1] = 0
         /\ PostCommand(PostCommand(C, 0), v)[Len(C) + 2] = v
         /\ \A i \in 1 .. Len(C) : PostCommand(PostCommand(C, 0), v)[i] = C[i]
<1>1. Len(C) \in Nat /\ CmdRing \in Nat
  BY RemapAssumption
<1>2. PostCommand(C, 0) = Append(C, 0)
  BY <1>1 DEF PostCommand
<1>3. Append(C, 0) \in Seq(Nat) /\ Len(Append(C, 0)) = Len(C) + 1
  OBVIOUS
<1>4. PostCommand(Append(C, 0), v) = Append(Append(C, 0), v)
  BY <1>1, <1>3 DEF PostCommand
<1>5. /\ Append(C, 0)[Len(C) + 1] = 0
      /\ \A i \in 1 .. Len(C) : Append(C, 0)[i] = C[i]
  OBVIOUS
<1>6. ASSUME NEW E \in Seq(Nat)
      PROVE  /\ Append(E, v) \in Seq(Nat) /\ Len(Append(E, v)) = Len(E) + 1
             /\ Append(E, v)[Len(E) + 1] = v
             /\ \A i \in 1 .. Len(E) : Append(E, v)[i] = E[i]
  OBVIOUS
<1> DEFINE E == Append(C, 0)
<1> DEFINE F == Append(E, v)
<1>7. /\ E \in Seq(Nat) /\ Len(E) = Len(C) + 1 /\ E[Len(C) + 1] = 0
      /\ \A i \in 1 .. Len(C) : E[i] = C[i]
  BY <1>3, <1>5
<1>8. /\ F \in Seq(Nat) /\ Len(F) = Len(E) + 1 /\ F[Len(E) + 1] = v
      /\ \A i \in 1 .. Len(E) : F[i] = E[i]
  BY <1>6, <1>7
<1>9. PostCommand(PostCommand(C, 0), v) = F
  BY <1>2, <1>4
<1> HIDE DEF E, F
<1>a. Len(E) + 1 = Len(C) + 2 /\ Len(C) + 1 \in 1 .. Len(E)
      /\ \A i \in 1 .. Len(C) : i \in 1 .. Len(E)
  BY ONLY <1>1, <1>7
<1>b. Len(F) = Len(C) + 2 /\ F[Len(C) + 2] = v
  BY ONLY <1>a, <1>8
<1>c. F[Len(C) + 1] = 0
  BY ONLY <1>a, <1>7, <1>8
<1>d. \A i \in 1 .. Len(C) : F[i] = C[i]
  BY ONLY <1>a, <1>7, <1>8
<1> QED BY <1>8, <1>9, <1>b, <1>c, <1>d

\* A flush posted with room is ahead of its wait.
LEMMA FlushPosted ==
  ASSUME NEW C \in Seq(Nat), NEW s \in Nat, NEW v \in Nat, WaitsUpTo(C, s, v),
         Len(C) + 2 < CmdRing
  PROVE  /\ FlushAhead(PostCommand(PostCommand(C, 0), v + 1), 0, v + 1)
         /\ WaitsUpTo(PostCommand(PostCommand(C, 0), v + 1), 0, v + 1)
<1>2. Len(C) \in Nat /\ \A i \in 1 .. Len(C) : C[i] \in Nat /\ C[i] <= v
  BY DEF WaitsUpTo
<1> DEFINE D == PostCommand(PostCommand(C, 0), v + 1)
<1>1. /\ D \in Seq(Nat) /\ Len(D) = Len(C) + 2 /\ D[Len(C) + 1] = 0 /\ D[Len(C) + 2] = v + 1
      /\ \A i \in 1 .. Len(C) : D[i] = C[i]
  <2>1. v + 1 \in Nat
    OBVIOUS
  <2> QED BY <2>1, PostedLast
<1> HIDE DEF D
<1>3. \A i \in 1 .. Len(D) : i \in 1 .. Len(C) \/ i = Len(C) + 1 \/ i = Len(C) + 2
  BY <1>1, <1>2
<1>a. ASSUME NEW i \in 1 .. Len(C) PROVE D[i] <= v + 1 /\ D[i] # v + 1
  <2>1. D[i] = C[i] /\ C[i] \in Nat /\ C[i] <= v
    BY <1>1, <1>2
  <2> QED BY ONLY <2>1, v \in Nat
<1>b. D[Len(C) + 1] <= v + 1 /\ D[Len(C) + 1] # v + 1 /\ D[Len(C) + 2] <= v + 1
  BY ONLY <1>1, v \in Nat
<1>4. WaitsUpTo(D, 0, v + 1)
  BY ONLY <1>3, <1>a, <1>b, v \in Nat DEF WaitsUpTo
<1>c. \A j \in 1 .. Len(C) + 1 : j \in 1 .. Len(C) \/ j = Len(C) + 1
  BY ONLY <1>2
<1>5. \A j \in 1 .. Len(C) + 1 : D[j] # v + 1
  BY ONLY <1>a, <1>b, <1>c
<1>6. FlushAhead(D, 0, v + 1)
  BY <1>1, <1>2, <1>5 DEF FlushAhead
<1> QED BY <1>4, <1>6 DEF D

\* Executing a wait that comes before the flush leaves the flush ahead.
LEMMA WaitExecuted ==
  ASSUME NEW C \in Seq(Nat), NEW s \in Nat, NEW v \in Nat, C # <<>>, Head(C) # 0
  PROVE  /\ WaitsUpTo(C, s, v) => WaitsUpTo(Tail(C), Head(C), v)
         /\ FlushAhead(C, s, v) => FlushAhead(Tail(C), Head(C), v)
<1>1. /\ Len(C) \in Nat /\ Len(C) > 0 /\ Head(C) = C[1] /\ Tail(C) \in Seq(Nat)
      /\ Len(Tail(C)) = Len(C) - 1
      /\ \A i \in 1 .. Len(C) - 1 : Tail(C)[i] = C[i + 1]
  OBVIOUS
<1>2. ASSUME WaitsUpTo(C, s, v) PROVE WaitsUpTo(Tail(C), Head(C), v)
  BY <1>1, <1>2 DEF WaitsUpTo
<1>3. ASSUME FlushAhead(C, s, v) PROVE FlushAhead(Tail(C), Head(C), v)
  <2>1. PICK i \in 1 .. Len(C) : C[i] = 0 /\ \A j \in 1 .. i : C[j] # v
    BY <1>3 DEF FlushAhead
  <2>2. i # 1 /\ C[1] # v
    BY <1>1, <2>1
  <2>3. i - 1 \in 1 .. Len(Tail(C)) /\ Tail(C)[i - 1] = 0
    BY <1>1, <2>1, <2>2
  <2>4. \A j \in 1 .. i - 1 : Tail(C)[j] # v
    BY <1>1, <2>1, <2>2
  <2> QED BY <1>1, <2>2, <2>3, <2>4 DEF FlushAhead
<1> QED BY <1>2, <1>3


\* A step that neither begins nor ends an invalidation, and spoils no agreement
\* but by a flush that is still requested.
LEMMA KnownKept ==
  ASSUME FlushKnown, UNCHANGED <<backend, phase, late, enabled, cmds, sem, sem_val>>,
         icc => icc' \/ RoutesAgree(entry, ctx)',
         ivt => ivt' \/ PagesAgree(pages, iotlb)',
         RoutesAgree(entry, ctx) => RoutesAgree(entry, ctx)',
         PagesAgree(pages, iotlb) => PagesAgree(pages, iotlb)'
  PROVE  FlushKnown'
<1> DEFINE R == RoutesAgree(entry, ctx)
           S == PagesAgree(pages, iotlb)
           F == FlushAhead(cmds, sem, sem_val)
           W == WaitsUpTo(cmds, sem, sem_val)
<1>1. F' = F /\ W' = W
  BY DEF F, W
<1>2. FlushKnown <=> 
        /\ phase \in {"contexts", "iotlb"} => backend = "Vtd"
        /\ phase = "completion" => backend = "AmdVi"
        /\ W
        /\ phase = "contexts" => icc \/ R
        /\ phase = "iotlb" => (late \/ R) /\ (ivt \/ S)
        /\ phase = "completion" => F \/ (R /\ S)
        /\ (phase = "idle" /\ enabled /\ ~late) => R /\ S
  BY DEF FlushKnown
<1>3. FlushKnown' <=> 
        /\ phase' \in {"contexts", "iotlb"} => backend' = "Vtd"
        /\ phase' = "completion" => backend' = "AmdVi"
        /\ W'
        /\ phase' = "contexts" => icc' \/ R'
        /\ phase' = "iotlb" => (late' \/ R') /\ (ivt' \/ S')
        /\ phase' = "completion" => F' \/ (R' /\ S')
        /\ (phase' = "idle" /\ enabled' /\ ~late') => R' /\ S'
  BY DEF FlushKnown
<1>4. (R => R') /\ (S => S') /\ (icc => icc' \/ R') /\ (ivt => ivt' \/ S')
  OBVIOUS
<1>5. backend' = backend /\ phase' = phase /\ late' = late /\ enabled' = enabled
  OBVIOUS
<1> HIDE DEF R, S, F, W
<1> QED BY ONLY <1>1, <1>2, <1>3, <1>4, <1>5, FlushKnown

\* A step to a point outside an invalidation.
LEMMA KnownOutside ==
  ASSUME FlushKnown, UNCHANGED <<cmds, sem, sem_val>>,
         phase' \notin {"contexts", "iotlb", "completion"},
         (phase' = "idle" /\ enabled' /\ ~late') =>
           RoutesAgree(entry, ctx)' /\ PagesAgree(pages, iotlb)'
  PROVE  FlushKnown'
<1>1. WaitsUpTo(cmds, sem, sem_val)'
  BY DEF FlushKnown
<1> QED BY <1>1 DEF FlushKnown

\* An invalidation begins, whatever the tables have become.
LEMMA KnownBegun ==
  ASSUME RemapInv, BeginInvalidate, PostFlush => RingHasRoom,
         phase' = WaitFor, backend' = backend
  PROVE  FlushKnown' /\ sem_val' \in Nat /\ sem' \in Nat /\ cmds' \in Seq(Nat)
<1>0. sem_val \in Nat /\ sem \in Nat /\ cmds \in Seq(Nat) /\ backend \in {"Vtd", "AmdVi"}
      /\ WaitsUpTo(cmds, sem, sem_val)
  BY DEF RemapInv, RemapTypes, FlushKnown
<1>1. CASE backend = "Vtd"
  <2>1. icc' = TRUE /\ cmds' = cmds /\ sem' = sem /\ sem_val' = sem_val
        /\ phase' = "contexts" /\ backend' = "Vtd"
    BY <1>1 DEF BeginInvalidate, RequestFlush, WaitFor
  <2>2. WaitsUpTo(cmds, sem, sem_val)'
    BY <1>0, <2>1
  <2> QED BY <1>0, <2>1, <2>2 DEF FlushKnown
<1>2. CASE backend = "AmdVi"
  <2>1. /\ PostFlush /\ sem_val' = sem_val + 1 /\ sem' = 0
        /\ cmds' = PostCommand(PostCommand(cmds, 0), sem_val + 1)
        /\ phase' = "completion" /\ backend' = "AmdVi"
    BY <1>2 DEF BeginInvalidate, PostFlush, WaitFor, WaitTarget
  <2>2. Len(cmds) + 2 < CmdRing
    BY <2>1 DEF RingHasRoom
  <2>3. FlushAhead(cmds', sem', sem_val') /\ WaitsUpTo(cmds', sem', sem_val')
    BY <1>0, <2>1, <2>2, FlushPosted
  <2>4. sem_val + 1 \in Nat /\ cmds' \in Seq(Nat)
    <3>1. sem_val + 1 \in Nat
      BY <1>0
    <3> QED BY <1>0, <2>1, <2>2, <3>1, PostedLast
  <2>5. FlushKnown'
    BY <2>1, <2>3 DEF FlushKnown
  <2> QED BY <2>1, <2>4, <2>5
<1> QED BY <1>0, <1>1, <1>2


\* An access fills the caches from the tables: agreement is kept.
LEMMA TranslationAgrees ==
  ASSUME RemapTypes, NEW d \in RemapDevices, NEW p \in IoPages, UnitTranslates(d, p)
  PROVE  /\ ctx' \in [RemapDevices -> Domains \cup {NoDomain}]
         /\ iotlb' \in [Domains -> [present : SUBSET IoPages, absent : SUBSET IoPages]]
         /\ RoutesAgree(entry, ctx) => RoutesAgree(entry, ctx)'
         /\ PagesAgree(pages, iotlb) => PagesAgree(pages, iotlb)'
<1> DEFINE did == IF ctx[d] # NoDomain THEN ctx[d] ELSE entry[d]
           here == IF p \in iotlb[did].present THEN TRUE
                   ELSE IF p \in iotlb[did].absent THEN FALSE
                   ELSE p \in pages[did]
<1>1. /\ did # NoDomain /\ ctx' = [ctx EXCEPT ![d] = did]
      /\ iotlb' = IF here THEN [iotlb EXCEPT ![did].present = @ \cup {p}]
                  ELSE [iotlb EXCEPT ![did].absent = @ \cup {p}]
      /\ entry' = entry /\ pages' = pages
  BY DEF UnitTranslates, tableVars
<1>2. did \in Domains
  BY <1>1 DEF RemapTypes
<1>3. ctx[d] # NoDomain => did = ctx[d]
  OBVIOUS
<1>4. ctx[d] = NoDomain => did = entry[d]
  OBVIOUS
<1>5. /\ here => p \in iotlb[did].present \/ p \in pages[did]
      /\ ~here => p \in iotlb[did].absent \/ p \notin pages[did]
  OBVIOUS
<1>t. /\ entry \in [RemapDevices -> Domains \cup {NoDomain}]
      /\ ctx \in [RemapDevices -> Domains \cup {NoDomain}]
      /\ pages \in [Domains -> SUBSET IoPages]
      /\ iotlb \in [Domains -> [present : SUBSET IoPages, absent : SUBSET IoPages]]
  BY DEF RemapTypes
<1> HIDE DEF did, here
<1>6. ctx' \in [RemapDevices -> Domains \cup {NoDomain}]
  BY <1>1, <1>2, <1>t
<1>7. ASSUME RoutesAgree(entry, ctx) PROVE RoutesAgree(entry, ctx)'
  BY <1>1, <1>3, <1>4, <1>7, <1>t DEF RoutesAgree
<1>8. /\ \A e \in Domains : e # did => iotlb'[e] = iotlb[e]
      /\ here => /\ iotlb'[did].present = iotlb[did].present \cup {p}
                 /\ iotlb'[did].absent = iotlb[did].absent
      /\ ~here => /\ iotlb'[did].present = iotlb[did].present
                  /\ iotlb'[did].absent = iotlb[did].absent \cup {p}
  BY <1>1, <1>2, <1>t
<1>9. iotlb' \in [Domains -> [present : SUBSET IoPages, absent : SUBSET IoPages]]
  BY <1>1, <1>2, <1>t
<1>10. ASSUME PagesAgree(pages, iotlb) PROVE PagesAgree(pages, iotlb)'
  <2>1. \A e \in Domains : /\ iotlb[e].present \subseteq pages[e]
                           /\ iotlb[e].absent \cap pages[e] = {}
    BY <1>10 DEF PagesAgree
  <2>2. iotlb'[did].present \subseteq pages[did] /\ iotlb'[did].absent \cap pages[did] = {}
    <3>1. CASE here
      BY ONLY <3>1, <2>1, <1>2, <1>5, <1>8
    <3>2. CASE ~here
      BY ONLY <3>2, <2>1, <1>2, <1>5, <1>8
    <3> QED BY <3>1, <3>2
  <2>3. \A e \in Domains : /\ iotlb'[e].present \subseteq pages'[e]
                           /\ iotlb'[e].absent \cap pages'[e] = {}
    BY ONLY <2>1, <2>2, <1>1, <1>8
  <2> QED BY <2>3 DEF PagesAgree
<1> QED BY <1>6, <1>7, <1>9, <1>10

\* Caches just flushed agree with any tables.
LEMMA FlushedAgree ==
  /\ Uncached \in [RemapDevices -> Domains \cup {NoDomain}]
  /\ NoPages \in [Domains -> [present : SUBSET IoPages, absent : SUBSET IoPages]]
  /\ ctx' = Uncached => RoutesAgree(entry, ctx)'
  /\ iotlb' = NoPages => PagesAgree(pages, iotlb)'
BY DEF Uncached, NoPages, RoutesAgree, PagesAgree

\* The next command of AMD-Vi.
LEMMA ExecutionKeeps ==
  ASSUME RemapInv, UnitExecutes
  PROVE  RemapInv'
<1>1. /\ cmds # <<>> /\ cmds' = Tail(cmds)
      /\ backend' = backend /\ entry' = entry /\ pages' = pages /\ enabled' = enabled
      /\ phase' = phase /\ late' = late /\ icc' = icc /\ ivt' = ivt /\ sem_val' = sem_val
      /\ Head(cmds) = 0 => ctx' = Uncached /\ iotlb' = NoPages /\ sem' = sem
      /\ Head(cmds) # 0 => sem' = Head(cmds) /\ ctx' = ctx /\ iotlb' = iotlb
  BY DEF UnitExecutes, tableVars, cacheVars
<1>2. /\ cmds \in Seq(Nat) /\ sem \in Nat /\ sem_val \in Nat /\ RemapTypes /\ FlushKnown
      /\ WaitsUpTo(cmds, sem, sem_val)
  BY DEF RemapInv, RemapTypes, FlushKnown
<1>3. cmds' \in Seq(Nat) /\ Head(cmds) \in Nat
  BY <1>1, <1>2
<1>4. CASE Head(cmds) = 0
  <2>1. RoutesAgree(entry, ctx)' /\ PagesAgree(pages, iotlb)'
    BY <1>1, <1>4, FlushedAgree
  <2>2. RemapTypes'
    BY <1>1, <1>2, <1>3, <1>4, FlushedAgree DEF RemapTypes
  <2>3. WaitsUpTo(cmds, sem, sem_val)'
    <3>1. \A i \in 1 .. Len(Tail(cmds)) :
            i + 1 \in 1 .. Len(cmds) /\ Tail(cmds)[i] = cmds[i + 1]
      BY <1>1, <1>2
    <3> QED BY <1>1, <1>2, <1>4, <3>1 DEF WaitsUpTo
  <2>4. FlushKnown'
    BY <1>1, <1>2, <2>1, <2>3 DEF FlushKnown
  <2> QED BY <2>2, <2>4 DEF RemapInv
<1>5. CASE Head(cmds) # 0
  <2>1. /\ WaitsUpTo(cmds, sem, sem_val)'
        /\ FlushAhead(cmds, sem, sem_val) => FlushAhead(cmds, sem, sem_val)'
    BY <1>1, <1>2, <1>5, WaitExecuted
  <2>2. RemapTypes'
    BY <1>1, <1>2, <1>3, <1>5 DEF RemapTypes
  <2>3. /\ RoutesAgree(entry, ctx)' = RoutesAgree(entry, ctx)
        /\ PagesAgree(pages, iotlb)' = PagesAgree(pages, iotlb)
    BY <1>1, <1>5
  <2>4. FlushKnown'
    BY <1>1, <1>2, <2>1, <2>3 DEF FlushKnown
  <2> QED BY <2>2, <2>4 DEF RemapInv
<1> QED BY <1>4, <1>5


\* A mapping, or the freeing of a domain, that is followed by a flush.
LEMMA ChangeFlushed ==
  ASSUME RemapInv, AfterMap(TRUE), PostFlush => RingHasRoom, backend' = backend,
         entry' = entry, ctx' = ctx, iotlb' = iotlb,
         pages' \in [Domains -> SUBSET IoPages]
  PROVE  RemapInv'
<1>1. BeginInvalidate /\ phase' = WaitFor
  BY DEF AfterMap
<1>2. FlushKnown' /\ sem_val' \in Nat /\ sem' \in Nat /\ cmds' \in Seq(Nat)
  BY <1>1, KnownBegun
<1> QED BY <1>2 DEF RemapInv, RemapTypes

\* Every step keeps the invariant, if a flush is posted only with room for it.
LEMMA RemapStepKeeps ==
  ASSUME RemapInv, RemapNext, PostFlush => RingHasRoom
  PROVE  RemapInv'
<1> USE DEF tableVars, requestVars, cacheVars
<1>0. RemapTypes /\ FlushKnown
  BY DEF RemapInv
<1>1. ASSUME NEW d \in BlockDevs, PrepareDevice(d) PROVE RemapInv'
  <2>1. RemapTypes'
    BY <1>0, <1>1 DEF PrepareDevice, SetDevice, RemapTypes, Domains, RemapDevices
  <2>2. FlushKnown'
    BY <1>0, <1>1, KnownOutside DEF PrepareDevice, Idle
  <2> QED BY <2>1, <2>2 DEF RemapInv
<1>2. CASE BindPrepare
  <2>1. RemapTypes'
    BY <1>0, <1>2 DEF BindPrepare, SetDevice, RemapTypes, Domains, RemapDevices
  <2>2. FlushKnown'
    BY <1>0, <1>2, KnownOutside DEF BindPrepare, Idle
  <2> QED BY <2>1, <2>2 DEF RemapInv
<1>3. CASE Enable
  <2>1. backend' = backend /\ entry' = entry /\ pages' = pages /\ late' = late
        /\ ctx' = ctx /\ iotlb' = iotlb
    BY <1>3 DEF Enable
  <2>2. CASE backend = "Vtd"
    <3>1. phase' = "rtps" /\ cmds' = cmds /\ sem' = sem /\ sem_val' = sem_val
      BY <1>3, <2>2 DEF Enable, VtdEnable
    <3>2. RemapTypes'
      BY <1>0, <2>1, <3>1 DEF RemapTypes
    <3>3. FlushKnown'
      BY <1>0, <3>1, KnownOutside
    <3> QED BY <3>2, <3>3 DEF RemapInv
  <2>3. CASE backend # "Vtd"
    <3>1. BeginInvalidate /\ phase' = WaitFor
      BY <1>3, <2>3 DEF Enable, AmdViEnable
    <3>2. FlushKnown' /\ sem_val' \in Nat /\ sem' \in Nat /\ cmds' \in Seq(Nat)
      BY <2>1, <3>1, KnownBegun
    <3>3. RemapTypes'
      BY <1>0, <2>1, <3>2 DEF RemapTypes
    <3> QED BY <3>2, <3>3 DEF RemapInv
  <2> QED BY <2>2, <2>3
<1>4. CASE RootSet \/ EnableFails
  <2>1. RemapTypes'
    BY <1>0, <1>4 DEF RootSet, EnableFails, RemapTypes
  <2>2. FlushKnown'
    BY <1>0, <1>4, KnownOutside DEF RootSet, EnableFails
  <2> QED BY <2>1, <2>2 DEF RemapInv
<1>5. CASE TranslationSet
  <2>1. /\ BeginInvalidate /\ phase' = WaitFor
        /\ backend' = backend /\ entry' = entry /\ pages' = pages
        /\ ctx' = ctx /\ iotlb' = iotlb
    BY <1>5 DEF TranslationSet
  <2>2. FlushKnown' /\ sem_val' \in Nat /\ sem' \in Nat /\ cmds' \in Seq(Nat)
    BY <2>1, KnownBegun
  <2>3. RemapTypes'
    BY <1>0, <2>1, <2>2 DEF RemapTypes
  <2> QED BY <2>2, <2>3 DEF RemapInv
<1>6. ASSUME NEW seen \in BOOLEAN, ContextsFlushed(seen) PROVE RemapInv'
  <2>1. RemapTypes'
    BY <1>0, <1>6 DEF ContextsFlushed, RemapTypes
  <2>2. /\ phase = "contexts" /\ (seen => ~icc) /\ ivt' = TRUE /\ phase' = "iotlb"
        /\ late' = ~seen /\ backend' = backend
        /\ cmds' = cmds /\ sem' = sem /\ sem_val' = sem_val
        /\ RoutesAgree(entry, ctx)' = RoutesAgree(entry, ctx)
    BY <1>6 DEF ContextsFlushed
  <2>3. WaitsUpTo(cmds, sem, sem_val)' /\ (icc \/ RoutesAgree(entry, ctx))
        /\ backend = "Vtd"
    BY <1>0, <2>2 DEF FlushKnown
  <2>4. FlushKnown'
    BY <2>2, <2>3 DEF FlushKnown
  <2> QED BY <2>1, <2>4 DEF RemapInv
<1>7. ASSUME NEW seen \in BOOLEAN, IotlbFlushed(seen) PROVE RemapInv'
  <2>1. RemapTypes'
    BY <1>0, <1>7 DEF IotlbFlushed, RemapTypes
  <2>2. /\ phase = "iotlb" /\ (seen => ~ivt) /\ phase' = "idle" /\ late' = (late \/ ~seen)
        /\ cmds' = cmds /\ sem' = sem /\ sem_val' = sem_val
        /\ RoutesAgree(entry, ctx)' = RoutesAgree(entry, ctx)
        /\ PagesAgree(pages, iotlb)' = PagesAgree(pages, iotlb)
    BY <1>7 DEF IotlbFlushed
  <2>3. (late \/ RoutesAgree(entry, ctx)) /\ (ivt \/ PagesAgree(pages, iotlb))
    BY <1>0, <2>2 DEF FlushKnown
  <2>4. FlushKnown'
    BY <1>0, <2>2, <2>3, KnownOutside
  <2> QED BY <2>1, <2>4 DEF RemapInv
<1>8. ASSUME NEW seen \in BOOLEAN, CompletionSeen(seen) PROVE RemapInv'
  <2>1. RemapTypes'
    BY <1>0, <1>8 DEF CompletionSeen, RemapTypes
  <2>2. /\ phase = "completion" /\ (seen => sem = sem_val) /\ phase' = "idle"
        /\ late' = ~seen
        /\ cmds' = cmds /\ sem' = sem /\ sem_val' = sem_val
        /\ RoutesAgree(entry, ctx)' = RoutesAgree(entry, ctx)
        /\ PagesAgree(pages, iotlb)' = PagesAgree(pages, iotlb)
    BY <1>8 DEF CompletionSeen
  <2>3. seen => RoutesAgree(entry, ctx) /\ PagesAgree(pages, iotlb)
    BY <1>0, <2>2 DEF FlushKnown, FlushAhead
  <2>4. FlushKnown'
    BY <1>0, <2>2, <2>3, KnownOutside
  <2> QED BY <2>1, <2>4 DEF RemapInv
<1>9. ASSUME NEW p \in IoPages, BlockMapDma(p) PROVE RemapInv'
  <2>1. /\ pages' = [pages EXCEPT ![BLOCK_DID] = @ \cup {p}]
        /\ AfterMap(p \notin pages[BLOCK_DID])
        /\ backend' = backend /\ entry' = entry /\ enabled' = enabled /\ late' = late
        /\ ctx' = ctx /\ iotlb' = iotlb
    BY <1>9 DEF BlockMapDma
  <2>2. pages \in [Domains -> SUBSET IoPages] /\ BLOCK_DID \in Domains
    BY <1>0 DEF RemapTypes, Domains
  <2>3. pages' \in [Domains -> SUBSET IoPages]
    BY <2>1, <2>2
  <2>4. CASE p \notin pages[BLOCK_DID]
    <3>1. AfterMap(TRUE)
      BY <2>1, <2>4 DEF AfterMap
    <3> QED BY <2>1, <2>3, <3>1, ChangeFlushed
  <2>5. CASE p \in pages[BLOCK_DID]
    <3>1. /\ phase' = phase /\ icc' = icc /\ ivt' = ivt /\ cmds' = cmds /\ sem' = sem
          /\ sem_val' = sem_val
      BY <2>1, <2>5 DEF AfterMap
    <3>2. pages' = pages
      BY <2>1, <2>2, <2>5
    <3>3. /\ RoutesAgree(entry, ctx)' = RoutesAgree(entry, ctx)
          /\ PagesAgree(pages, iotlb)' = PagesAgree(pages, iotlb)
      BY <2>1, <3>2
    <3>4. FlushKnown'
      BY <1>0, <2>1, <3>1, <3>3, KnownKept
    <3>5. RemapTypes'
      BY <1>0, <2>1, <3>1, <3>2 DEF RemapTypes
    <3> QED BY <3>4, <3>5 DEF RemapInv
  <2> QED BY <2>4, <2>5
<1>10. ASSUME NEW p \in IoPages, BindMapDma(p) PROVE RemapInv'
  <2>1. pages' \in [Domains -> SUBSET IoPages]
    BY <1>0, <1>10 DEF BindMapDma, RemapTypes
  <2> QED BY <1>10, <2>1, ChangeFlushed DEF BindMapDma
<1>11. CASE Detach
  <2>1. RemapTypes'
    BY <1>0, <1>11 DEF Detach, ClearDevice, RemapTypes
  <2>2. FlushKnown'
    BY <1>0, <1>11, KnownOutside DEF Detach
  <2> QED BY <2>1, <2>2 DEF RemapInv
<1>12. CASE FreeDomain
  <2>1. pages' \in [Domains -> SUBSET IoPages]
    BY <1>0, <1>12 DEF FreeDomain, RemapTypes
  <2> QED BY <1>12, <2>1, ChangeFlushed DEF FreeDomain
<1>13. CASE UnitAcks
  <2>1. /\ backend' = backend /\ entry' = entry /\ pages' = pages /\ enabled' = enabled
        /\ phase' = phase /\ late' = late /\ icc' = icc /\ ivt' = ivt /\ cmds' = cmds
        /\ sem' = sem /\ sem_val' = sem_val /\ ctx' = ctx /\ iotlb' = iotlb
    BY <1>13 DEF UnitAcks
  <2>2. /\ RoutesAgree(entry, ctx)' = RoutesAgree(entry, ctx)
        /\ PagesAgree(pages, iotlb)' = PagesAgree(pages, iotlb)
    BY <2>1
  <2>3. FlushKnown'
    BY <1>0, <2>1, <2>2, KnownKept
  <2>4. RemapTypes'
    BY <1>0, <2>1 DEF RemapTypes
  <2> QED BY <2>3, <2>4 DEF RemapInv
<1>14. CASE UnitFlushes
  <2>1. /\ backend' = backend /\ entry' = entry /\ pages' = pages /\ enabled' = enabled
        /\ phase' = phase /\ late' = late /\ cmds' = cmds /\ sem' = sem /\ sem_val' = sem_val
        /\ \/ ctx' = Uncached /\ ivt' = ivt /\ iotlb' = iotlb
           \/ iotlb' = NoPages /\ icc' = icc /\ ctx' = ctx
    BY <1>14 DEF UnitFlushes
  <2>2. RemapTypes'
    BY <1>0, <2>1, FlushedAgree DEF RemapTypes
  <2>3. CASE ctx' = Uncached /\ ivt' = ivt /\ iotlb' = iotlb
    <3>1. RoutesAgree(entry, ctx)' /\ PagesAgree(pages, iotlb)' = PagesAgree(pages, iotlb)
      BY <2>1, <2>3, FlushedAgree
    <3> QED BY <1>0, <2>1, <2>2, <2>3, <3>1, KnownKept DEF RemapInv
  <2>4. CASE iotlb' = NoPages /\ icc' = icc /\ ctx' = ctx
    <3>1. PagesAgree(pages, iotlb)' /\ RoutesAgree(entry, ctx)' = RoutesAgree(entry, ctx)
      BY <2>1, <2>4, FlushedAgree
    <3> QED BY <1>0, <2>1, <2>2, <2>4, <3>1, KnownKept DEF RemapInv
  <2> QED BY <2>1, <2>3, <2>4
<1>15. CASE UnitExecutes
  BY <1>15, ExecutionKeeps
<1>16. ASSUME NEW d \in RemapDevices, NEW p \in IoPages, UnitTranslates(d, p)
       PROVE  RemapInv'
  <2>1. /\ backend' = backend /\ entry' = entry /\ pages' = pages /\ enabled' = enabled
        /\ phase' = phase /\ late' = late /\ icc' = icc /\ ivt' = ivt /\ cmds' = cmds
        /\ sem' = sem /\ sem_val' = sem_val
    BY <1>16 DEF UnitTranslates
  <2>2. /\ ctx' \in [RemapDevices -> Domains \cup {NoDomain}]
        /\ iotlb' \in [Domains -> [present : SUBSET IoPages, absent : SUBSET IoPages]]
        /\ RoutesAgree(entry, ctx) => RoutesAgree(entry, ctx)'
        /\ PagesAgree(pages, iotlb) => PagesAgree(pages, iotlb)'
    BY <1>0, <1>16, TranslationAgrees
  <2>3. FlushKnown'
    BY <1>0, <2>1, <2>2, KnownKept
  <2>4. RemapTypes'
    BY <1>0, <2>1, <2>2 DEF RemapTypes
  <2> QED BY <2>3, <2>4 DEF RemapInv
<1> QED
  BY <1>1, <1>2, <1>3, <1>4, <1>5, <1>6, <1>7, <1>8, <1>9, <1>10, <1>11, <1>12, <1>13,
     <1>14, <1>15, <1>16 DEF RemapNext

\* A step of nothing keeps it.
LEMMA RemapStutters ==
  ASSUME RemapInv, UNCHANGED remapVars
  PROVE  RemapInv'
<1>1. /\ backend' = backend /\ entry' = entry /\ pages' = pages /\ enabled' = enabled
      /\ phase' = phase /\ late' = late /\ icc' = icc /\ ivt' = ivt /\ cmds' = cmds
      /\ sem' = sem /\ sem_val' = sem_val /\ ctx' = ctx /\ iotlb' = iotlb
  BY DEF remapVars, tableVars, requestVars, cacheVars
<1>2. RemapTypes'
  BY <1>1 DEF RemapInv, RemapTypes
<1>3. RoutesAgree(entry, ctx)' = RoutesAgree(entry, ctx)
      /\ PagesAgree(pages, iotlb)' = PagesAgree(pages, iotlb)
  BY <1>1
<1>4. FlushKnown'
  BY <1>1, <1>3, KnownKept DEF RemapInv
<1> QED BY <1>2, <1>4 DEF RemapInv

\* The invariant holds at the start and says what CachesCoherent says.
LEMMA RemapInvEnds == (RemapInit => RemapInv) /\ (RemapInv => CachesCoherent)
<1>1. ASSUME RemapInit PROVE RemapInv
  <2>1. RemapTypes
    BY <1>1 DEF RemapInit, RemapTypes, Uncached, NoPages, RegistersReset, CommandRingReset
  <2>2. WaitsUpTo(cmds, sem, sem_val)
    BY <1>1 DEF RemapInit, CommandRingReset, WaitsUpTo
  <2>3. FlushKnown
    BY <1>1, <2>2 DEF RemapInit, FlushKnown
  <2> QED BY <2>1, <2>3 DEF RemapInv
<1>2. ASSUME RemapInv PROVE CachesCoherent
  BY <1>2 DEF RemapInv, FlushKnown, CachesCoherent, Idle, RoutesAgree, PagesAgree
<1> QED BY <1>1, <1>2

\* Whatever invalidations the driver has given up waiting for, whenever the unit
\* executes them and whatever it caches meanwhile, a flush the driver has seen
\* complete left nothing stale - as long as AMD-Vi's command ring has room for the
\* two commands of each flush, which post_command does not check.
THEOREM CachesCoherentWithRoom ==
  RemapSpec /\ [][PostFlush => RingHasRoom]_remapVars => []CachesCoherent
<1>1. RemapInv /\ [RemapNext]_remapVars /\ [PostFlush => RingHasRoom]_remapVars => RemapInv'
  <2>1. ASSUME RemapInv, RemapNext, PostFlush => RingHasRoom PROVE RemapInv'
    BY <2>1, RemapStepKeeps
  <2>2. ASSUME RemapInv, UNCHANGED remapVars PROVE RemapInv'
    BY <2>2, RemapStutters
  <2> QED BY <2>1, <2>2
<1> QED BY <1>1, RemapInvEnds, PTL DEF RemapSpec

\* VT-d has no command ring, and needs no premise at all.
THEOREM VtdCachesCoherent ==
  RemapSpec /\ backend = "Vtd" => []CachesCoherent
<1> DEFINE J == RemapInv /\ backend = "Vtd"
<1>1. J /\ [RemapNext]_remapVars => J'
  <2>1. ASSUME J, RemapNext PROVE J'
    <3>1. backend' = backend
      BY <2>1 DEF RemapNext, PrepareDevice, BindPrepare, Enable, RootSet, TranslationSet,
                  EnableFails, ContextsFlushed, IotlbFlushed, CompletionSeen, BlockMapDma,
                  BindMapDma, Detach, FreeDomain, UnitAcks, UnitFlushes, UnitExecutes,
                  UnitTranslates, tableVars
    <3>2. sem_val \in Nat
      BY <2>1 DEF RemapInv, RemapTypes
    <3>3. sem_val' = sem_val
      BY <2>1 DEF RemapNext, PrepareDevice, BindPrepare, Enable, VtdEnable, RootSet,
                  TranslationSet, EnableFails, ContextsFlushed, IotlbFlushed, CompletionSeen,
                  BlockMapDma, BindMapDma, AfterMap, Detach, FreeDomain, BeginInvalidate,
                  RequestFlush, UnitAcks, UnitFlushes, UnitExecutes, UnitTranslates
    <3>4. ~PostFlush
      BY <3>2, <3>3 DEF PostFlush, WaitTarget
    <3> QED BY <2>1, <3>1, <3>4, RemapStepKeeps
  <2>2. ASSUME J, UNCHANGED remapVars PROVE J'
    BY <2>2, RemapStutters DEF remapVars, tableVars
  <2> QED BY <2>1, <2>2
<1>2. RemapInit /\ backend = "Vtd" => J
  BY RemapInvEnds
<1>3. J => CachesCoherent
  BY RemapInvEnds
<1> HIDE DEF J
<1> QED BY <1>1, <1>2, <1>3, PTL DEF RemapSpec

----------------------------------------------------------------------------
(* The filesystem: the search of the bitmap.                               *)

\* A non-empty set of numbers has a least element.
LEMMA LeastExists ==
  ASSUME NEW S \in SUBSET Nat, S # {}
  PROVE  \E s \in S : \A r \in S : s <= r
<1> DEFINE Less == {ss \in Nat \X Nat : ss[1] < ss[2]}
<1>1. IsWellFoundedOn(Less, Nat)
  BY NatLessThanWellFounded, Zenon DEF OpToRel
<1>2. \A x, y \in S : ~(<<y, x>> \in Less) => x <= y
  <2>1. ASSUME NEW x \in S, NEW y \in S, ~(x <= y)
        PROVE  <<y, x>> \in Less
    BY <2>1
  <2> QED BY <2>1
<1> HIDE DEF Less
<1>3. \E x \in S : \A y \in S : ~(<<y, x>> \in Less)
  BY <1>1, WFMin
<1> QED BY <1>2, <1>3

\* Min of a set of numbers is its least element.
LEMMA MinIsLeast ==
  ASSUME NEW S \in SUBSET Nat, S # {}
  PROVE  Min(S) \in S /\ \A r \in S : Min(S) <= r
<1>1. \E s \in S : \A r \in S : s <= r
  BY LeastExists
<1> QED BY <1>1 DEF Min

\* g is the loop's course over the first n bits.
ScanCourse(g, n) ==
  g = [i \in 0 .. n - 1 |->
         ScanStep(IF i = 0 THEN [start |-> 0, len |-> 0] ELSE g[i - 1], i)]

\* The loop has a course over any number of bits.
LEMMA ScanCourseExists ==
  ASSUME NEW m \in Nat
  PROVE  \E g : ScanCourse(g, m)
<1> DEFINE Bad == {n \in Nat : ~ \E g : ScanCourse(g, n)}
<1>1. SUFFICES ASSUME Bad # {} PROVE FALSE
  OBVIOUS
<1>2. PICK n \in Bad : \A k \in Bad : n <= k
  BY <1>1, LeastExists
<1>3. n \in Nat /\ ~ \E g : ScanCourse(g, n)
  BY <1>2
<1>4. CASE n = 0
  <2> DEFINE g == [i \in 0 .. 0 - 1 |-> 0]
  <2>1. ScanCourse(g, 0)
    BY DEF ScanCourse
  <2> QED BY <1>3, <1>4, <2>1
<1>5. CASE n # 0
  <2>1. n - 1 \in Nat /\ n - 1 \notin Bad
    BY <1>2, <1>3, <1>5
  <2>2. PICK g : ScanCourse(g, n - 1)
    BY <2>1
  <2> DEFINE P(f, i) == ScanStep(IF i = 0 THEN [start |-> 0, len |-> 0] ELSE f[i - 1], i)
             h == [i \in 0 .. n - 1 |-> IF i = n - 1 THEN P(g, n - 1) ELSE g[i]]
  <2>3. ASSUME NEW i \in 0 .. n - 1
        PROVE  h[i] = P(h, i)
    <3>0. i # 0 => i - 1 \in 0 .. n - 1 /\ i - 1 # n - 1 /\ h[i - 1] = g[i - 1]
      BY <1>3
    <3>1. CASE i = n - 1
      BY <1>3, <3>0, <3>1
    <3>2. CASE i # n - 1
      <4>1. i \in 0 .. (n - 1) - 1 /\ h[i] = g[i]
        BY <1>3, <3>2
      <4>2. g[i] = P(g, i)
        BY <2>2, <4>1 DEF ScanCourse
      <4> QED BY <3>0, <4>1, <4>2
    <3> QED BY <3>1, <3>2
  <2>4. h = [i \in 0 .. n - 1 |-> h[i]]
    OBVIOUS
  <2> HIDE DEF h
  <2>5. ScanCourse(h, n)
    BY <2>3, <2>4 DEF ScanCourse
  <2> QED BY <1>3, <2>5
<1> QED BY <1>4, <1>5

\* Scan is its course over all bits.
LEMMA ScanSteps ==
  \A i \in Bits : Scan[i] = ScanStep(IF i = 0 THEN [start |-> 0, len |-> 0] ELSE Scan[i - 1], i)
<1>1. Scan = CHOOSE g : ScanCourse(g, BitmapBits)
  BY DEF Scan, ScanCourse, Bits
<1>2. \E g : ScanCourse(g, BitmapBits)
  BY RwFsAssumption, ScanCourseExists
<1>3. ScanCourse(Scan, BitmapBits)
  BY <1>1, <1>2
<1> QED BY <1>3 DEF ScanCourse, Bits

\* r is the longest run of clear bits that ends with bit i.
LongestRun(r, i) ==
  /\ r.start \in Nat /\ r.len \in Nat /\ r.start + r.len = i + 1
  /\ \A j \in r.start .. i : ~bitmap[j]
  /\ r.start = 0 \/ bitmap[r.start - 1]

\* The loop keeps the longest run that ends with each bit.
LEMMA ScanKeepsRun ==
  \A i \in Bits : LongestRun(Scan[i], i)
<1> DEFINE Bad == {i \in Bits : ~LongestRun(Scan[i], i)}
<1>0. BitmapBits \in Nat
  BY RwFsAssumption
<1>1. SUFFICES ASSUME Bad # {} PROVE FALSE
  OBVIOUS
<1>2. Bad \in SUBSET Nat
  BY <1>0 DEF Bits
<1>3. PICK i \in Bad : \A k \in Bad : i <= k
  BY <1>1, <1>2, LeastExists
<1>4. i \in Bits /\ i \in Nat /\ ~LongestRun(Scan[i], i)
  BY <1>2, <1>3
<1> DEFINE before == IF i = 0 THEN [start |-> 0, len |-> 0] ELSE Scan[i - 1]
<1>5. /\ before.start \in Nat /\ before.len \in Nat /\ before.start + before.len = i
      /\ \A j \in before.start .. i - 1 : ~bitmap[j]
      /\ before.start = 0 \/ bitmap[before.start - 1]
  <2>1. CASE i = 0
    BY <2>1
  <2>2. CASE i # 0
    <3>1. i - 1 \in Bits /\ i - 1 \notin Bad
      BY <1>0, <1>3, <1>4, <2>2 DEF Bits
    <3>2. LongestRun(Scan[i - 1], i - 1) /\ before = Scan[i - 1]
      BY <3>1, <2>2
    <3> QED BY <1>4, <3>2 DEF LongestRun
  <2> QED BY <2>1, <2>2
<1>6. Scan[i] = ScanStep(before, i)
  BY <1>4, ScanSteps
<1> HIDE DEF before
<1>7. CASE bitmap[i]
  <2>1. Scan[i] = [start |-> i + 1, len |-> 0]
    BY <1>6, <1>7 DEF ScanStep
  <2> QED BY <1>4, <1>7, <2>1 DEF LongestRun
<1>8. CASE ~bitmap[i]
  <2>1. Scan[i] = [start |-> before.start, len |-> before.len + 1]
    BY <1>6, <1>8 DEF ScanStep
  <2>2. \A j \in before.start .. i : ~bitmap[j]
    BY <1>4, <1>5, <1>8
  <2> QED BY <1>4, <1>5, <2>1, <2>2 DEF LongestRun
<1> QED BY <1>7, <1>8


\* The starts of the runs of n clear bits in the data area.
Fits(n) ==
  {i \in DiskSectors : Run(i, n) \subseteq DiskSectors /\ \A j \in Run(i, n) : ~bitmap[j]}

\* The bits at which the loop has found a run of n.
EndsOfRuns(n) == {i \in DiskSectors : Scan[i].len = n}

\* Where the loop stops, a run of n ends.
LEMMA EndGivesFit ==
  ASSUME DataSectors <= BitmapBits, NEW n \in Nat, n # 0, NEW i \in EndsOfRuns(n)
  PROVE  Scan[i].start \in Fits(n) /\ Scan[i].start = i - n + 1
<1>0. DataSectors \in Nat /\ BitmapBits \in Nat
  BY RwFsAssumption
<1>1. i \in DiskSectors /\ i \in Bits /\ i \in Nat /\ i <= DataSectors - 1 /\ Scan[i].len = n
  BY <1>0 DEF EndsOfRuns, DiskSectors, Bits
<1> DEFINE s == Scan[i].start
<1>2. s \in Nat /\ s + n = i + 1 /\ \A j \in s .. i : ~bitmap[j]
  BY <1>1, ScanKeepsRun DEF LongestRun
<1> HIDE DEF s
<1>3. s = i - n + 1 /\ s <= i
  BY ONLY <1>1, <1>2, n \in Nat, n # 0
<1>4. Run(s, n) = s .. i
  BY ONLY <1>1, <1>2, <1>3, n \in Nat DEF Run
<1>5. s \in DiskSectors /\ s .. i \subseteq DiskSectors
  BY ONLY <1>0, <1>1, <1>2, <1>3 DEF DiskSectors
<1>6. s \in Fits(n)
  BY ONLY <1>2, <1>4, <1>5 DEF Fits
<1> QED BY <1>3, <1>6 DEF s

\* The longest run that ends inside a longer one starts where that one starts.
LEMMA RunsShareStart ==
  ASSUME NEW i \in Bits, NEW k \in Nat, Scan[i].start <= k, k <= i
  PROVE  Scan[k].start = Scan[i].start
<1>0. BitmapBits \in Nat
  BY RwFsAssumption
<1>1. i \in Nat /\ k \in Bits
  BY <1>0 DEF Bits
<1> DEFINE s == Scan[i].start
           t == Scan[k].start
           m == Scan[k].len
<1>2. s \in Nat /\ (\A j \in s .. i : ~bitmap[j]) /\ (s = 0 \/ bitmap[s - 1])
  BY <1>1, ScanKeepsRun DEF LongestRun
<1>3. /\ t \in Nat /\ m \in Nat /\ t + m = k + 1
      /\ (\A j \in t .. k : ~bitmap[j]) /\ (t = 0 \/ bitmap[t - 1])
  BY <1>1, ScanKeepsRun DEF LongestRun
<1>4. s <= k
  OBVIOUS
<1> HIDE DEF s, t, m
<1>5. ~(t > s)
  <2>1. ASSUME t > s PROVE FALSE
    <3>1. t - 1 \in s .. i /\ t # 0
      BY ONLY <1>1, <1>2, <1>3, <1>4, <2>1, k <= i, k \in Nat
    <3> QED BY ONLY <1>2, <1>3, <3>1
  <2> QED BY <2>1
<1>6. ~(s > t)
  <2>1. ASSUME s > t PROVE FALSE
    <3>1. s - 1 \in t .. k /\ s # 0
      BY ONLY <1>1, <1>2, <1>3, <1>4, <2>1, k <= i, k \in Nat
    <3> QED BY ONLY <1>2, <1>3, <3>1
  <2> QED BY <2>1
<1>7. t = s
  BY ONLY <1>2, <1>3, <1>5, <1>6
<1> QED BY <1>7 DEF s, t

\* Where there is a run of n, the loop stops no later than at its end.
LEMMA FitGivesEnd ==
  ASSUME DataSectors <= BitmapBits, NEW n \in Nat, n # 0, NEW f \in Fits(n)
  PROVE  \E i \in EndsOfRuns(n) : i <= f + n - 1
<1>0. DataSectors \in Nat /\ BitmapBits \in Nat
  BY RwFsAssumption
<1>1. f \in Nat /\ Run(f, n) \subseteq DiskSectors /\ \A j \in Run(f, n) : ~bitmap[j]
  BY <1>0 DEF Fits, DiskSectors
<1> DEFINE last == f + n - 1
<1>2. last \in Nat /\ last \in Run(f, n) /\ f <= last
  BY <1>1 DEF Run
<1>3. last \in DiskSectors /\ last \in Bits /\ last <= DataSectors - 1
  BY <1>0, <1>1, <1>2 DEF DiskSectors, Bits
<1> DEFINE s == Scan[last].start
<1>4. s \in Nat /\ (s = 0 \/ bitmap[s - 1])
  BY <1>3, ScanKeepsRun DEF LongestRun
<1>l. last = f + n - 1
  OBVIOUS
<1> HIDE DEF s, last
<1>5. s <= f
  <2>1. ASSUME s > f PROVE FALSE
    <3>0. s <= last + 1
      BY <1>3, ScanKeepsRun DEF LongestRun, s
    <3>1. s # 0 /\ s - 1 \in Run(f, n)
      BY ONLY <1>1, <1>4, <1>l, <2>1, <3>0, n \in Nat DEF Run
    <3> QED BY ONLY <1>1, <1>4, <3>1
  <2> QED BY ONLY <1>1, <1>4, <2>1
<1> DEFINE i == s + n - 1
<1>6. i \in Nat /\ s <= i /\ i <= last
  BY ONLY <1>1, <1>4, <1>5, <1>l, n \in Nat, n # 0
<1>i. i = s + n - 1
  OBVIOUS
<1> HIDE DEF i
<1>7. i \in Bits /\ i \in DiskSectors
  BY ONLY <1>0, <1>2, <1>3, <1>6 DEF Bits, DiskSectors
<1>8. Scan[i].start = s
  BY <1>3, <1>6, RunsShareStart DEF s
<1>9. Scan[i].len \in Nat /\ Scan[i].start + Scan[i].len = i + 1
  BY <1>7, ScanKeepsRun DEF LongestRun
<1>10. Scan[i].len = n
  BY ONLY <1>4, <1>6, <1>8, <1>9, <1>i, n \in Nat
<1> QED BY <1>6, <1>7, <1>10 DEF EndsOfRuns, last

\* bitmap::alloc finds the lowest run that fits, whenever there is one.
LEMMA AllocIsFirstFit ==
  ASSUME DataSectors <= BitmapBits, NEW n \in Nat, n # 0
  PROVE  Alloc(n) = IF Fits(n) = {} THEN NoRun ELSE Min(Fits(n))
<1>0. DataSectors \in Nat /\ BitmapBits \in Nat
  BY RwFsAssumption
<1>1. EndsOfRuns(n) \in SUBSET Nat /\ Fits(n) \in SUBSET Nat
  BY <1>0 DEF EndsOfRuns, Fits, DiskSectors
<1>2. CASE n > DataSectors
  <2>1. Alloc(n) = NoRun
    BY <1>2 DEF Alloc
  <2>2. ASSUME NEW f \in Fits(n) PROVE FALSE
    <3>1. f \in Nat /\ Run(f, n) \subseteq DiskSectors
      BY <1>1 DEF Fits
    <3>2. f + n - 1 \in Run(f, n)
      BY <3>1 DEF Run
    <3> QED BY <1>0, <1>2, <3>1, <3>2 DEF DiskSectors
  <2> QED BY <2>1, <2>2
<1>3. CASE ~(n > DataSectors)
  <2>1. Alloc(n) = IF EndsOfRuns(n) = {} THEN NoRun ELSE Scan[Min(EndsOfRuns(n))].start
    BY <1>0, <1>3 DEF Alloc, EndsOfRuns
  <2>2. CASE EndsOfRuns(n) = {}
    <3>1. Fits(n) = {}
      BY <2>2, FitGivesEnd
    <3> QED BY <2>1, <2>2, <3>1
  <2>3. CASE EndsOfRuns(n) # {}
    <3> DEFINE e == Min(EndsOfRuns(n))
               a == Scan[e].start
    <3>1. e \in EndsOfRuns(n) /\ \A i \in EndsOfRuns(n) : e <= i
      BY <1>1, <2>3, MinIsLeast
    <3>2. a \in Fits(n) /\ a = e - n + 1
      BY <3>1, EndGivesFit
    <3>3. Alloc(n) = a
      BY <2>1, <2>3
    <3> HIDE DEF e, a
    <3>4. ASSUME NEW f \in Fits(n) PROVE a <= f
      <4>1. PICK i \in EndsOfRuns(n) : i <= f + n - 1
        BY FitGivesEnd
      <4>2. e <= i /\ e \in Nat /\ i \in Nat /\ f \in Nat
        BY <1>1, <3>1, <4>1
      <4> QED BY ONLY <3>2, <4>1, <4>2, n \in Nat
    <3>5. Fits(n) # {} /\ Min(Fits(n)) \in Fits(n) /\ \A f \in Fits(n) : Min(Fits(n)) <= f
      BY <1>1, <3>2, MinIsLeast
    <3>6. a <= Min(Fits(n)) /\ Min(Fits(n)) <= a
      BY <3>2, <3>4, <3>5
    <3>7. a \in Nat /\ Min(Fits(n)) \in Nat
      BY <1>1, <3>2, <3>5
    <3> QED BY <3>3, <3>5, <3>6, <3>7
  <2> QED BY <2>2, <2>3
<1> QED BY <1>2, <1>3

\* A run that alloc returns lies in the data area, and its bits are clear.
LEMMA AllocGivesFit ==
  ASSUME NEW n \in Nat, n # 0, Alloc(n) # NoRun
  PROVE  DataSectors <= BitmapBits /\ Alloc(n) \in Fits(n)
<1>0. DataSectors \in Nat /\ BitmapBits \in Nat
  BY RwFsAssumption
<1>1. DataSectors <= BitmapBits
  BY <1>0 DEF Alloc
<1>2. Fits(n) # {} /\ Alloc(n) = Min(Fits(n))
  BY <1>1, AllocIsFirstFit
<1>3. Fits(n) \in SUBSET Nat
  BY <1>0 DEF Fits, DiskSectors
<1> QED BY <1>1, <1>2, <1>3, MinIsLeast


----------------------------------------------------------------------------
(* The filesystem: bitmap, directory and contents.                         *)

FileEntries ==
  [name : Names \cup {""}, first : 0 .. DataSectors - 1, n : 1 .. MaxSectors,
   version : 1 .. MaxVersions]

FsTypes ==
  /\ bitmap \in [Bits -> BOOLEAN]
  /\ dir \in [DirSlots -> FileEntries \cup {NoFile}]
  /\ disk \in [DiskSectors -> Nat \cup {NoFile}]
  /\ version \in Nat

\* The files of a directory D, and the sectors of an entry.
FilesIn(D) == {s \in DirSlots : D[s] # NoFile}

Extent(e) == Run(e.first, e.n)

\* Bitmap B, directory D and disk K agree: what SpaceAccounted says, names that
\* are taken once, and each file's version in each of its sectors.
FsAgree(B, D, K) ==
  /\ \A s \in FilesIn(D) : Extent(D[s]) \subseteq DiskSectors
  /\ \A i \in Bits : B[i] <=> \E s \in FilesIn(D) : i \in Extent(D[s])
  /\ \A s, t \in FilesIn(D) : s # t => Extent(D[s]) \cap Extent(D[t]) = {}
  /\ \A s, t \in FilesIn(D) : s # t => D[s].name # D[t].name
  /\ \A s \in FilesIn(D) : \A i \in Extent(D[s]) : K[i] = D[s].version

FsInv == FsTypes /\ FsAgree(bitmap, dir, disk)

\* Entry e in the free slot m, in sectors whose bits were clear.
AddsFile(B, D, K, B2, D2, K2, m, e) ==
  /\ m \in DirSlots /\ D[m] = NoFile /\ e # NoFile
  /\ Extent(e) \subseteq DiskSectors /\ DiskSectors \subseteq Bits
  /\ \A i \in Extent(e) : ~B[i]
  /\ \A s \in FilesIn(D) : D[s].name # e.name
  /\ \A i \in Bits : B2[i] <=> (B[i] \/ i \in Extent(e))
  /\ D2[m] = e /\ \A s \in DirSlots : s # m => D2[s] = D[s]
  /\ \A i \in DiskSectors : /\ i \in Extent(e) => K2[i] = e.version
                            /\ i \notin Extent(e) => K2[i] = K[i]

\* A new file.
LEMMA FileAdded ==
  ASSUME NEW B, NEW D, NEW K, NEW B2, NEW D2, NEW K2, NEW m, NEW e,
         FsAgree(B, D, K), AddsFile(B, D, K, B2, D2, K2, m, e)
  PROVE  FsAgree(B2, D2, K2)
<1> USE DEF AddsFile
<1>1. FilesIn(D2) = FilesIn(D) \cup {m} /\ m \notin FilesIn(D)
  BY DEF FilesIn
<1>2. \A s \in FilesIn(D) : D2[s] = D[s] /\ s # m
  BY <1>1 DEF FilesIn
<1>3. \A s \in FilesIn(D) : Extent(D[s]) \subseteq DiskSectors
  BY DEF FsAgree
<1>4. \A i \in Bits : B[i] <=> \E s \in FilesIn(D) : i \in Extent(D[s])
  BY DEF FsAgree
<1>5. \A s \in FilesIn(D) : Extent(D[s]) \cap Extent(e) = {}
  <2>1. ASSUME NEW s \in FilesIn(D), NEW i \in Extent(D[s]), i \in Extent(e) PROVE FALSE
    <3>1. i \in Bits
      BY <1>3, <2>1
    <3>2. B[i]
      BY <1>4, <2>1, <3>1
    <3> QED BY <2>1, <3>2
  <2> QED BY <2>1
<1>6. \A s \in FilesIn(D2) : Extent(D2[s]) \subseteq DiskSectors
  BY <1>1, <1>2, <1>3
<1>7. \A i \in Bits : B2[i] <=> \E s \in FilesIn(D2) : i \in Extent(D2[s])
  <2>1. ASSUME NEW i \in Bits
        PROVE  (\E s \in FilesIn(D2) : i \in Extent(D2[s])) <=>
               ((\E s \in FilesIn(D) : i \in Extent(D[s])) \/ i \in Extent(e))
    BY <1>1, <1>2
  <2> QED BY <1>4, <2>1
<1>8. \A s, t \in FilesIn(D2) : s # t => Extent(D2[s]) \cap Extent(D2[t]) = {}
  <2>1. \A s, t \in FilesIn(D) : s # t => Extent(D[s]) \cap Extent(D[t]) = {}
    BY DEF FsAgree
  <2> QED BY <1>1, <1>2, <1>5, <2>1
<1>9. \A s, t \in FilesIn(D2) : s # t => D2[s].name # D2[t].name
  <2>1. \A s, t \in FilesIn(D) : s # t => D[s].name # D[t].name
    BY DEF FsAgree
  <2> QED BY <1>1, <1>2, <2>1
<1>10. \A s \in FilesIn(D2) : \A i \in Extent(D2[s]) : K2[i] = D2[s].version
  <2>1. ASSUME NEW s \in FilesIn(D), NEW i \in Extent(D[s]) PROVE K2[i] = D[s].version
    <3>1. K[i] = D[s].version
      BY <2>1 DEF FsAgree
    <3>2. i \in DiskSectors /\ i \notin Extent(e)
      BY <1>3, <1>5, <2>1
    <3> QED BY <3>1, <3>2
  <2>2. \A i \in Extent(e) : K2[i] = e.version
    OBVIOUS
  <2> QED BY <1>1, <1>2, <2>1, <2>2
<1> QED BY <1>6, <1>7, <1>8, <1>9, <1>10 DEF FsAgree

\* A file removed and its sectors freed.
LEMMA FileRemoved ==
  ASSUME NEW B, NEW D, NEW K, NEW B2, NEW D2, FsAgree(B, D, K),
         NEW m \in FilesIn(D),
         \A i \in Bits : B2[i] <=> (B[i] /\ i \notin Extent(D[m])),
         D2[m] = NoFile, \A s \in DirSlots : s # m => D2[s] = D[s]
  PROVE  FsAgree(B2, D2, K)
<1>1. FilesIn(D2) = FilesIn(D) \ {m}
  BY DEF FilesIn
<1>2. \A s \in FilesIn(D2) : D2[s] = D[s] /\ s # m /\ s \in FilesIn(D)
  BY <1>1 DEF FilesIn
<1>3. \A s \in FilesIn(D2) : Extent(D2[s]) \subseteq DiskSectors
  BY <1>2 DEF FsAgree
<1>4. \A s, t \in FilesIn(D) : s # t => Extent(D[s]) \cap Extent(D[t]) = {}
  BY DEF FsAgree
<1>5. \A i \in Bits : B2[i] <=> \E s \in FilesIn(D2) : i \in Extent(D2[s])
  <2>1. ASSUME NEW i \in Bits
        PROVE  (\E s \in FilesIn(D2) : i \in Extent(D2[s])) <=>
               ((\E s \in FilesIn(D) : i \in Extent(D[s])) /\ i \notin Extent(D[m]))
    <3>1. ASSUME NEW s \in FilesIn(D2), i \in Extent(D2[s])
          PROVE  (\E t \in FilesIn(D) : i \in Extent(D[t])) /\ i \notin Extent(D[m])
      BY <1>2, <1>4, <3>1
    <3>2. ASSUME NEW s \in FilesIn(D), i \in Extent(D[s]), i \notin Extent(D[m])
          PROVE  \E t \in FilesIn(D2) : i \in Extent(D2[t])
      BY <1>1, <1>2, <3>2
    <3> QED BY <3>1, <3>2
  <2>2. \A i \in Bits : B[i] <=> \E s \in FilesIn(D) : i \in Extent(D[s])
    BY DEF FsAgree
  <2> QED BY <2>1, <2>2
<1>6. \A s, t \in FilesIn(D2) : s # t => Extent(D2[s]) \cap Extent(D2[t]) = {}
  BY <1>2, <1>4
<1>7. \A s, t \in FilesIn(D2) : s # t => D2[s].name # D2[t].name
  <2>1. \A s, t \in FilesIn(D) : s # t => D[s].name # D[t].name
    BY DEF FsAgree
  <2> QED BY <1>2, <2>1
<1>8. \A s \in FilesIn(D2) : \A i \in Extent(D2[s]) : K[i] = D2[s].version
  <2>1. \A s \in FilesIn(D) : \A i \in Extent(D[s]) : K[i] = D[s].version
    BY DEF FsAgree
  <2> QED BY <1>2, <2>1
<1> QED BY <1>3, <1>5, <1>6, <1>7, <1>8 DEF FsAgree

\* The same files and the same bits, and a disk that differs in clear sectors only.
LEMMA FilesUntouched ==
  ASSUME NEW B, NEW D, NEW K, NEW B2, NEW K2, FsAgree(B, D, K),
         \A i \in Bits : B2[i] = B[i],
         \A s \in FilesIn(D) : \A i \in Extent(D[s]) : K2[i] = K[i]
  PROVE  FsAgree(B2, D, K2)
BY DEF FsAgree


\* What a run returned by alloc is, of the state.
LEMMA AllocatedRun ==
  ASSUME FsInv, NEW n \in 1 .. MaxSectors, Alloc(n) # NoRun
  PROVE  /\ n \in Nat /\ DiskSectors \subseteq Bits
         /\ Alloc(n) \in DiskSectors /\ Run(Alloc(n), n) \subseteq DiskSectors
         /\ \A j \in Run(Alloc(n), n) : ~bitmap[j]
<1>0. MaxSectors \in Nat /\ DataSectors \in Nat /\ BitmapBits \in Nat
  BY RwFsAssumption
<1>1. n \in Nat /\ n # 0 /\ DataSectors \in Nat /\ BitmapBits \in Nat
  BY ONLY <1>0, n \in 1 .. MaxSectors
<1>2. DataSectors <= BitmapBits /\ Alloc(n) \in Fits(n)
  BY <1>1, AllocGivesFit
<1>3. DiskSectors \subseteq Bits
  BY <1>1, <1>2 DEF DiskSectors, Bits
<1> QED BY <1>1, <1>2, <1>3 DEF Fits

\* A reservation undone leaves the bitmap as it was.
LEMMA ReservationUndone ==
  ASSUME FsInv, NEW n \in 1 .. MaxSectors, Alloc(n) # NoRun
  PROVE  Unreserve(Marked(bitmap, Alloc(n), n, TRUE), Alloc(n), n) = bitmap
<1>1. \A j \in Run(Alloc(n), n) : ~bitmap[j]
  BY AllocatedRun
<1>2. bitmap \in [Bits -> BOOLEAN]
  BY DEF FsInv, FsTypes
<1> DEFINE R == Run(Alloc(n), n)
           U == Unreserve(Marked(bitmap, Alloc(n), n, TRUE), Alloc(n), n)
<1>3. U = [i \in Bits |-> IF i \in R THEN FALSE
                          ELSE [j \in Bits |-> IF j \in R THEN TRUE ELSE bitmap[j]][i]]
  BY DEF Unreserve, Marked
<1>4. \A i \in R : ~bitmap[i]
  BY <1>1
<1> HIDE DEF R, U
<1>5. ASSUME NEW i \in Bits PROVE U[i] = bitmap[i]
  <2>1. U[i] = IF i \in R THEN FALSE ELSE bitmap[i]
    BY <1>3
  <2>2. bitmap[i] \in BOOLEAN
    BY <1>2
  <2> QED BY <1>4, <2>1, <2>2
<1>6. U = [i \in Bits |-> U[i]] /\ bitmap = [i \in Bits |-> bitmap[i]]
  BY <1>2, <1>3
<1>7. U = bitmap
  BY <1>5, <1>6
<1> QED BY <1>7 DEF U

\* Every operation of the filesystem keeps the agreement.
LEMMA FsStepKeeps ==
  ASSUME FsInv, FsNext
  PROVE  FsInv'
<1>0. /\ bitmap \in [Bits -> BOOLEAN] /\ dir \in [DirSlots -> FileEntries \cup {NoFile}]
      /\ disk \in [DiskSectors -> Nat \cup {NoFile}] /\ version \in Nat
      /\ FsAgree(bitmap, dir, disk)
  BY DEF FsInv, FsTypes
<1>a. /\ DataSectors \in Nat /\ BitmapBits \in Nat /\ MaxSectors \in Nat /\ MaxVersions \in Nat
      /\ DirSlots \subseteq Nat /\ NoFile \notin FileEntries
  BY RwFsAssumption DEF FileEntries
<1>b. version + 1 \in Nat /\ (version < MaxVersions => version + 1 \in 1 .. MaxVersions)
  BY ONLY <1>0, <1>a
<1>1. ASSUME NEW wrote \in BOOLEAN, NEW read \in BOOLEAN, Format(wrote, read) PROVE FsInv'
  <2>1. /\ bitmap' = [i \in Bits |-> FALSE] /\ dir' = [s \in DirSlots |-> NoFile]
        /\ disk' = disk /\ version' = version
    BY <1>1 DEF Format
  <2>2. FsTypes'
    BY <1>0, <2>1 DEF FsTypes
  <2>3. FilesIn(dir') = {}
    BY <2>1 DEF FilesIn
  <2>4. FsAgree(bitmap', dir', disk')
    BY <2>1, <2>3 DEF FsAgree
  <2> QED BY <2>2, <2>4 DEF FsInv
<1>2. ASSUME NEW name \in Names \cup {""}, NEW n \in 0 .. MaxSectors + 1,
             CreateRefused(name, n)
      PROVE  FsInv'
  <2>1. dir' = dir /\ disk' = disk /\ version' = version + 1
    BY <1>2 DEF CreateRefused
  <2>2. bitmap' = bitmap
    <3>1. CASE n \notin 1 .. MaxSectors \/ Alloc(n) = NoRun
      BY <1>2, <3>1 DEF CreateRefused
    <3>2. CASE n \in 1 .. MaxSectors /\ Alloc(n) # NoRun
      <4>1. bitmap' = Unreserve(Marked(bitmap, Alloc(n), n, TRUE), Alloc(n), n)
        BY <1>2, <3>2 DEF CreateRefused
      <4> QED BY <3>2, <4>1, ReservationUndone
    <3> QED BY <3>1, <3>2
  <2>3. FsTypes'
    BY <1>0, <1>b, <2>1, <2>2 DEF FsTypes
  <2>4. FsAgree(bitmap', dir', disk')
    BY <1>0, <2>1, <2>2
  <2> QED BY <2>3, <2>4 DEF FsInv
<1>3. ASSUME NEW name \in Names \cup {""}, NEW n \in 0 .. MaxSectors + 1,
             NEW torn \in SUBSET DiskSectors, CreateDataFails(name, n, torn)
      PROVE  FsInv'
  <2>1. /\ n \in 1 .. MaxSectors /\ Alloc(n) # NoRun /\ torn \subseteq Run(Alloc(n), n)
        /\ dir' = dir /\ version' = version + 1
        /\ disk' = [s \in DiskSectors |-> IF s \in torn THEN version + 1 ELSE disk[s]]
        /\ bitmap' = Unreserve(Marked(bitmap, Alloc(n), n, TRUE), Alloc(n), n)
    BY <1>3 DEF CreateDataFails, Creatable
  <2>2. bitmap' = bitmap
    BY <2>1, ReservationUndone
  <2>3. FsTypes'
    BY <1>0, <1>b, <2>1, <2>2 DEF FsTypes
  <2>4. ASSUME NEW s \in FilesIn(dir), NEW i \in Extent(dir[s]) PROVE disk'[i] = disk[i]
    <3>1. i \in DiskSectors
      BY <1>0, <2>4 DEF FsAgree
    <3>2. i \in Bits /\ \A j \in Run(Alloc(n), n) : ~bitmap[j]
      BY <2>1, <3>1, AllocatedRun
    <3>3. bitmap[i]
      BY <1>0, <2>4, <3>2 DEF FsAgree
    <3> QED BY <2>1, <3>1, <3>2, <3>3
  <2>5. \A i \in Bits : bitmap'[i] = bitmap[i]
    BY <2>2
  <2>6. FsAgree(bitmap', dir, disk')
    BY <1>0, <2>4, <2>5, FilesUntouched
  <2> QED BY <2>1, <2>3, <2>6 DEF FsInv
<1>4. ASSUME NEW name \in Names \cup {""}, NEW n \in 0 .. MaxSectors + 1, NEW ok \in BOOLEAN,
             Create(name, n, ok)
      PROVE  FsInv'
  <2> DEFINE a == Alloc(n)
             e == [name |-> name, first |-> a, n |-> n, version |-> version + 1]
             m == Min(FreeDirSlots)
  <2>1. /\ n \in 1 .. MaxSectors /\ Alloc(n) # NoRun /\ version < MaxVersions
        /\ Find(name) = {} /\ FreeDirSlots # {}
        /\ bitmap' = Marked(bitmap, a, n, TRUE)
        /\ dir' = [dir EXCEPT ![m] = e]
        /\ disk' = [s \in DiskSectors |-> IF s \in Run(a, n) THEN version + 1 ELSE disk[s]]
        /\ version' = version + 1
    BY <1>4 DEF Create, Creatable, Inserted
  <2>2. /\ n \in Nat /\ DiskSectors \subseteq Bits
        /\ a \in DiskSectors /\ Run(a, n) \subseteq DiskSectors
        /\ \A j \in Run(a, n) : ~bitmap[j]
    BY <2>1, AllocatedRun
  <2>3. m \in DirSlots /\ dir[m] = NoFile
    <3>1. FreeDirSlots \in SUBSET Nat
      BY <1>a DEF FreeDirSlots
    <3>2. m \in FreeDirSlots
      BY <2>1, <3>1, MinIsLeast
    <3> QED BY <3>2 DEF FreeDirSlots
  <2>4. e.first = a /\ e.n = n /\ e.version = version + 1 /\ e.name = name
    OBVIOUS
  <2>5. e \in FileEntries
    <3>1. version + 1 \in 1 .. MaxVersions
      BY ONLY <1>b, <2>1
    <3>2. a \in 0 .. DataSectors - 1
      BY <2>2 DEF DiskSectors
    <3> HIDE DEF a
    <3> QED BY <2>1, <3>1, <3>2 DEF FileEntries
  <2> HIDE DEF a, e, m
  <2>6. e # NoFile
    BY <1>a, <2>5
  <2>7. Extent(e) = Run(a, n)
    BY <2>4 DEF Extent
  <2>8. \A s \in FilesIn(dir) : dir[s].name # e.name
    BY <2>1, <2>4 DEF Find, FilesIn, Entries
  <2>9. ASSUME NEW i \in Bits PROVE bitmap'[i] <=> (bitmap[i] \/ i \in Extent(e))
    <3>1. bitmap'[i] = IF i \in Run(a, n) THEN TRUE ELSE bitmap[i]
      BY <2>1 DEF Marked
    <3> QED BY <2>7, <3>1
  <2>10. dir'[m] = e /\ \A s \in DirSlots : s # m => dir'[s] = dir[s]
    BY <1>0, <2>1, <2>3
  <2>11. \A i \in DiskSectors : /\ i \in Extent(e) => disk'[i] = e.version
                                /\ i \notin Extent(e) => disk'[i] = disk[i]
    BY <2>1, <2>4, <2>7
  <2>12. FsAgree(bitmap', dir', disk')
    <3>1. Extent(e) \subseteq DiskSectors /\ \A i \in Extent(e) : ~bitmap[i]
      BY <2>2, <2>7
    <3>2. FsAgree(bitmap, dir, disk) /\ DiskSectors \subseteq Bits
      BY <1>0, <2>2
    <3>3. \A i \in Bits : bitmap'[i] <=> (bitmap[i] \/ i \in Extent(e))
      BY <2>9
    <3>4. AddsFile(bitmap, dir, disk, bitmap', dir', disk', m, e)
      BY ONLY <2>3, <2>6, <2>8, <2>10, <2>11, <3>1, <3>2, <3>3 DEF AddsFile
    <3> QED BY ONLY <3>2, <3>4, FileAdded
  <2>13. FsTypes'
    <3>1. bitmap' \in [Bits -> BOOLEAN]
      BY <1>0, <2>1 DEF Marked
    <3>2. dir' \in [DirSlots -> FileEntries \cup {NoFile}]
      BY <1>0, <2>1, <2>3, <2>5
    <3>3. disk' \in [DiskSectors -> Nat \cup {NoFile}]
      BY <1>0, <1>b, <2>1
    <3>4. version' \in Nat
      BY <1>b, <2>1
    <3> QED BY <3>1, <3>2, <3>3, <3>4 DEF FsTypes
  <2> QED BY <2>12, <2>13 DEF FsInv
<1>5. ASSUME NEW name \in Names, NEW ok \in BOOLEAN, Delete(name, ok) PROVE FsInv'
  <2>1. PICK s \in Find(name) :
          /\ dir' = [dir EXCEPT ![s] = NoFile] /\ bitmap' = Released(s)
          /\ disk' = disk /\ version' = version
    BY <1>5 DEF Delete
  <2>2. s \in DirSlots /\ s \in FilesIn(dir)
    BY <2>1 DEF Find, Entries, FilesIn
  <2>3. ASSUME NEW i \in Bits PROVE bitmap'[i] <=> (bitmap[i] /\ i \notin Extent(dir[s]))
    <3>1. bitmap'[i] = IF i \in Run(dir[s].first, dir[s].n) THEN FALSE ELSE bitmap[i]
      BY <2>1 DEF Released, Marked
    <3> QED BY <3>1 DEF Extent
  <2>4. dir'[s] = NoFile /\ \A t \in DirSlots : t # s => dir'[t] = dir[t]
    BY <1>0, <2>1, <2>2
  <2>5. FsAgree(bitmap', dir', disk)
    BY <1>0, <2>2, <2>3, <2>4, FileRemoved
  <2>6. FsTypes'
    <3>1. bitmap' \in [Bits -> BOOLEAN]
      BY <1>0, <2>1 DEF Released, Marked
    <3>2. dir' \in [DirSlots -> FileEntries \cup {NoFile}]
      BY <1>0, <2>1, <2>2
    <3> QED BY <1>0, <2>1, <3>1, <3>2 DEF FsTypes
  <2> QED BY <2>1, <2>5, <2>6 DEF FsInv
<1> QED BY <1>1, <1>2, <1>3, <1>4, <1>5 DEF FsNext

\* The agreement is what SpaceAccounted and FilesIntact say.
LEMMA FsInvEnough ==
  ASSUME FsInv
  PROVE  SpaceAccounted /\ FilesIntact
<1>1. Entries = FilesIn(dir) /\ \A s : Extent(dir[s]) = Run(dir[s].first, dir[s].n)
  BY DEF Entries, FilesIn, Extent
<1>2. FsAgree(bitmap, dir, disk)
  BY DEF FsInv
<1>3. SpaceAccounted
  BY <1>1, <1>2 DEF SpaceAccounted, FsAgree
<1>4. ASSUME NEW s \in Entries PROVE ReadBack(dir[s].name) = {dir[s].version}
  <2>1. Find(dir[s].name) = {s}
    BY <1>1, <1>2 DEF Find, FsAgree
  <2>2. ReadBack(dir[s].name) = {disk[i] : i \in Extent(dir[s])}
    BY <1>1, <2>1 DEF ReadBack
  <2>3. \A i \in Extent(dir[s]) : disk[i] = dir[s].version
    BY <1>1, <1>2 DEF FsAgree
  <2>4. dir[s] \in FileEntries
    BY <1>1 DEF FsInv, FsTypes, Entries
  <2>5. dir[s].first \in Nat /\ dir[s].n \in Nat /\ dir[s].n >= 1
    <3>1. dir[s].first \in 0 .. DataSectors - 1 /\ dir[s].n \in 1 .. MaxSectors
      BY <2>4 DEF FileEntries
    <3>2. DataSectors \in Nat /\ MaxSectors \in Nat
      BY RwFsAssumption
    <3> QED BY <3>1, <3>2
  <2>6. dir[s].first \in Extent(dir[s])
    BY <2>5 DEF Extent, Run
  <2> QED BY <2>2, <2>3, <2>6
<1>5. FilesIntact
  BY <1>4 DEF FilesIntact
<1> QED BY <1>3, <1>5

\* The metadata on the disk stays what the last persist that succeeded wrote.
LEMMA DiskStaysCurrent ==
  ASSUME FsInv, DiskCurrent, FsNext
  PROVE  DiskCurrent'
<1> DEFINE meta == [bitmap |-> bitmap, dir |-> dir]
<1>1. ASSUME diskmeta' = diskmeta, bitmap' = bitmap, dir' = dir
      PROVE  DiskCurrent'
  BY <1>1 DEF DiskCurrent
<1>2. ASSUME NEW ok \in BOOLEAN, Persist(bitmap', dir', ok)
      PROVE  DiskCurrent'
  BY <1>2 DEF DiskCurrent, Persist
<1>3. ASSUME NEW name \in Names \cup {""}, NEW n \in 0 .. MaxSectors + 1,
             CreateRefused(name, n)
      PROVE  DiskCurrent'
  <2>1. diskmeta' = diskmeta /\ dir' = dir
    BY <1>3 DEF CreateRefused
  <2>2. CASE n \notin 1 .. MaxSectors \/ Alloc(n) = NoRun
    BY <1>1, <1>3, <2>1, <2>2 DEF CreateRefused
  <2>3. CASE n \in 1 .. MaxSectors /\ Alloc(n) # NoRun
    <3>1. bitmap' = Unreserve(Marked(bitmap, Alloc(n), n, TRUE), Alloc(n), n)
      BY <1>3, <2>3 DEF CreateRefused
    <3>2. bitmap' = bitmap
      BY <2>3, <3>1, ReservationUndone
    <3> QED BY <1>1, <2>1, <3>2
  <2> QED BY <2>2, <2>3
<1>4. ASSUME NEW name \in Names \cup {""}, NEW n \in 0 .. MaxSectors + 1,
             NEW torn \in SUBSET DiskSectors, CreateDataFails(name, n, torn)
      PROVE  DiskCurrent'
  <2>1. /\ n \in 1 .. MaxSectors /\ Alloc(n) # NoRun
        /\ diskmeta' = diskmeta /\ dir' = dir
        /\ bitmap' = Unreserve(Marked(bitmap, Alloc(n), n, TRUE), Alloc(n), n)
    BY <1>4 DEF CreateDataFails, Creatable
  <2>2. bitmap' = bitmap
    BY <2>1, ReservationUndone
  <2> QED BY <1>1, <2>1, <2>2
<1>5. ASSUME NEW wrote \in BOOLEAN, NEW read \in BOOLEAN, Format(wrote, read)
      PROVE  DiskCurrent'
  BY <1>2, <1>5 DEF Format
<1>6. ASSUME NEW name \in Names \cup {""}, NEW n \in 0 .. MaxSectors + 1, NEW ok \in BOOLEAN,
             Create(name, n, ok)
      PROVE  DiskCurrent'
  BY <1>2, <1>6 DEF Create
<1>7. ASSUME NEW name \in Names, NEW ok \in BOOLEAN, Delete(name, ok)
      PROVE  DiskCurrent'
  BY <1>2, <1>7 DEF Delete
<1> QED BY <1>3, <1>4, <1>5, <1>6, <1>7 DEF FsNext

\* On any disk, directory and set of names, and whichever disk operations fail:
\* bitmap and directory agree, every file reads back as it was created, alloc finds
\* the lowest run that fits, and the metadata on the disk is that in memory but
\* after a persist that failed.  The bitmap has a bit for every data sector
\* (format.rs: one bitmap sector "vastly exceeds any data-area size").
THEOREM FilesStaySound ==
  ASSUME DataSectors <= BitmapBits
  PROVE  FsSpec => []FilesystemSound
<1>1. FsInit => FsInv /\ DiskCurrent
  <2>1. ASSUME FsInit PROVE FsInv
    <3>1. FsTypes
      BY <2>1 DEF FsInit, FsTypes
    <3>2. FilesIn(dir) = {}
      BY <2>1 DEF FsInit, FilesIn
    <3>3. FsAgree(bitmap, dir, disk)
      BY <2>1, <3>2 DEF FsInit, FsAgree
    <3> QED BY <3>1, <3>3 DEF FsInv
  <2>2. FsInit => DiskCurrent
    BY DEF FsInit, DiskCurrent
  <2> QED BY <2>1, <2>2
<1>2. FsInv /\ DiskCurrent /\ [FsNext]_fsVars => (FsInv /\ DiskCurrent)'
  <2>1. ASSUME FsInv, UNCHANGED fsVars PROVE FsInv'
    BY <2>1 DEF fsVars, FsInv, FsTypes
  <2>2. ASSUME DiskCurrent, UNCHANGED fsVars PROVE DiskCurrent'
    BY <2>2 DEF fsVars, DiskCurrent
  <2> QED BY <2>1, <2>2, FsStepKeeps, DiskStaysCurrent
<1>3. FsInv /\ DiskCurrent => FilesystemSound
  <2>1. ASSUME FsInv PROVE FirstFit
    <3>1. ASSUME NEW n \in 1 .. MaxSectors
          PROVE  Alloc(n) = IF Fits(n) = {} THEN NoRun ELSE Min(Fits(n))
      <4>0. MaxSectors \in Nat
        BY RwFsAssumption
      <4>1. n \in Nat /\ n # 0
        BY ONLY <4>0, n \in 1 .. MaxSectors
      <4> QED BY <4>1, AllocIsFirstFit
    <3> QED BY <3>1 DEF FirstFit, Fits
  <2> QED BY <2>1, FsInvEnough DEF FilesystemSound
<1> QED BY <1>1, <1>2, <1>3, PTL DEF FsSpec


----------------------------------------------------------------------------
(* The shell: icons.                                                       *)

\* Half of a number, rounded down.
LEMMA HalfOf ==
  ASSUME NEW y \in Nat
  PROVE  y \div 2 \in Nat /\ 2 * (y \div 2) <= y
OBVIOUS

\* The sizes, one by one.
LEMMA ScreenSizes ==
  /\ ScreenW \in Nat /\ ScreenH \in Nat /\ IconGap \in Nat /\ TitleOffset \in Nat
  /\ IconSide \in Nat /\ IconSide >= 1
  /\ ScreenW >= 2 * IconSide + IconGap
  /\ ScreenH >= 2 * (IconSide + TitleOffset) + IconGap
<1>1. ScreenW \in Nat /\ ScreenH \in Nat /\ IconGap \in Nat /\ TitleOffset \in Nat
  BY ShellAssumption
<1>2. IconSide \in Nat \ {0}
  BY ShellAssumption
<1>3. ScreenW >= 2 * IconSide + IconGap
  BY ShellAssumption
<1>4. ScreenH >= 2 * (IconSide + TitleOffset) + IconGap
  BY ShellAssumption
<1> QED BY ONLY <1>1, <1>2, <1>3, <1>4

\* The grid's corner, and the four cells.
GridX == (ScreenW - (2 * IconSide + IconGap)) \div 2
GridY == (ScreenH - (2 * IconSide + IconGap)) \div 2 + TitleOffset

\* Where the icons are.
LEMMA IconPlaces ==
  /\ GridX \in Nat /\ GridY \in Nat
  /\ GridX + 2 * IconSide + IconGap <= ScreenW
  /\ GridY + 2 * IconSide + IconGap <= ScreenH
  /\ IconAt(0) = <<GridX, GridY>>
  /\ IconAt(1) = <<GridX + (IconSide + IconGap), GridY>>
  /\ IconAt(2) = <<GridX, GridY + (IconSide + IconGap)>>
  /\ IconAt(3) = <<GridX + (IconSide + IconGap), GridY + (IconSide + IconGap)>>
<1> DEFINE x == ScreenW - (2 * IconSide + IconGap)
           y == ScreenH - (2 * IconSide + IconGap)
           u == x \div 2
           v == y \div 2
           p == IconSide + IconGap
<1>1. x \in Nat /\ y \in Nat /\ y >= 2 * TitleOffset /\ p \in Nat
  BY ONLY ScreenSizes
<1>2. u \in Nat /\ 2 * u <= x /\ v \in Nat /\ 2 * v <= y
  <2> HIDE DEF x, y
  <2> QED BY <1>1, HalfOf
<1>3. GridX = u /\ GridY = v + TitleOffset
  BY DEF GridX, GridY
<1>4. ASSUME NEW i
      PROVE  IconAt(i) = <<u + (i % 2) * p, v + TitleOffset + (i \div 2) * p>>
  BY DEF IconAt
<1>5. ScreenW = x + (2 * IconSide + IconGap) /\ ScreenH = y + (2 * IconSide + IconGap)
  BY ONLY ScreenSizes
<1> HIDE DEF x, y, u, v, p
<1>6. u + 2 * IconSide + IconGap <= ScreenW /\ v + TitleOffset + 2 * IconSide + IconGap <= ScreenH
      /\ v + TitleOffset \in Nat
  BY ONLY <1>1, <1>2, <1>5, ScreenSizes
<1>7. /\ 0 % 2 = 0 /\ 0 \div 2 = 0 /\ 1 % 2 = 1 /\ 1 \div 2 = 0
      /\ 2 % 2 = 0 /\ 2 \div 2 = 1 /\ 3 % 2 = 1 /\ 3 \div 2 = 1
  OBVIOUS
<1> DEFINE w == v + TitleOffset
<1>w. w \in Nat
  BY <1>6
<1> HIDE DEF w
<1>8. IconAt(0) = <<u, w>> /\ IconAt(1) = <<u + p, w>> /\ IconAt(2) = <<u, w + p>>
      /\ IconAt(3) = <<u + p, w + p>>
  <2>1. \A n \in Nat : n + 0 * p = n /\ n + 1 * p = n + p
    BY <1>1
  <2>2. /\ IconAt(0) = <<u + 0 * p, w + 0 * p>> /\ IconAt(1) = <<u + 1 * p, w + 0 * p>>
        /\ IconAt(2) = <<u + 0 * p, w + 1 * p>> /\ IconAt(3) = <<u + 1 * p, w + 1 * p>>
    BY <1>4, <1>7 DEF w
  <2> QED BY ONLY <1>2, <1>w, <2>1, <2>2
<1> QED BY <1>2, <1>3, <1>6, <1>8 DEF p, w

\* No block is in two icons, and HitTest names the icon of a block.
LEMMA HitIsCell ==
  ASSUME NEW b \in Blocks, NEW i \in Icons
  PROVE  b \in IconCells(i) <=> HitTest(b) = i
<1> DEFINE p == IconSide + IconGap
<1>1. b[1] \in Int /\ b[2] \in Int
  BY ScreenSizes DEF Blocks
<1>2. p \in Nat /\ p >= IconSide /\ IconSide \in Nat /\ GridX \in Nat /\ GridY \in Nat
  BY ScreenSizes, IconPlaces
<1>3. \A k \in Icons : b \in IconCells(k) <=>
        /\ IconAt(k)[1] <= b[1] /\ b[1] <= IconAt(k)[1] + IconSide - 1
        /\ IconAt(k)[2] <= b[2] /\ b[2] <= IconAt(k)[2] + IconSide - 1
  <2>1. \A k \in Icons : IconAt(k)[1] \in Int /\ IconAt(k)[2] \in Int
    BY <1>2, IconPlaces DEF Icons
  <2>2. ASSUME NEW k \in Icons
        PROVE  b \in IconCells(k) <=> /\ b[1] \in IconAt(k)[1] .. IconAt(k)[1] + IconSide - 1
                                      /\ b[2] \in IconAt(k)[2] .. IconAt(k)[2] + IconSide - 1
    BY DEF IconCells
  <2> QED BY ONLY <1>1, <1>2, <2>1, <2>2
<1>4. ASSUME NEW k \in Icons, NEW l \in Icons, b \in IconCells(k), b \in IconCells(l)
      PROVE  k = l
  <2>1. /\ IconAt(0)[1] = GridX /\ IconAt(0)[2] = GridY
        /\ IconAt(1)[1] = GridX + p /\ IconAt(1)[2] = GridY
        /\ IconAt(2)[1] = GridX /\ IconAt(2)[2] = GridY + p
        /\ IconAt(3)[1] = GridX + p /\ IconAt(3)[2] = GridY + p
    BY IconPlaces
  <2>2. k \in {0, 1, 2, 3} /\ l \in {0, 1, 2, 3}
    BY DEF Icons
  <2>3. /\ IconAt(k)[1] <= b[1] /\ b[1] <= IconAt(k)[1] + IconSide - 1
        /\ IconAt(k)[2] <= b[2] /\ b[2] <= IconAt(k)[2] + IconSide - 1
        /\ IconAt(l)[1] <= b[1] /\ b[1] <= IconAt(l)[1] + IconSide - 1
        /\ IconAt(l)[2] <= b[2] /\ b[2] <= IconAt(l)[2] + IconSide - 1
    BY <1>3, <1>4
  <2> HIDE DEF p
  <2> QED BY ONLY <1>1, <1>2, <2>1, <2>2, <2>3
<1>5. HitTest(b) = i => b \in IconCells(i)
  <2>1. NoIcon \notin Icons
    BY DEF NoIcon, Icons
  <2> QED BY <2>1 DEF HitTest
<1>6. b \in IconCells(i) => HitTest(b) = i
  BY <1>4 DEF HitTest
<1> QED BY <1>5, <1>6

\* HitTest names an icon or none.
LEMMA HitTyped ==
  ASSUME NEW b
  PROVE  HitTest(b) \in Icons \cup {NoIcon}
BY DEF HitTest


----------------------------------------------------------------------------
(* The shell: the pointer and what it covers.                              *)

Colours == {"background", "selected", "icon", "view", "app", "pointer", "none"}

Screens == [pix : [Blocks -> Colours], at : Blocks, shown : BOOLEAN, save : Colours]

\* The home page without the pointer; and with it, over what it has saved.
Bare(s, i) == s \in Screens /\ ~s.shown /\ s.pix = HomePicture(i)

AtHome(s, i) ==
  /\ s \in Screens /\ s.shown /\ s.pix[s.at] = "pointer"
  /\ s.save = HomePicture(i)[s.at]
  /\ \A b \in Blocks : b # s.at => s.pix[b] = HomePicture(i)[b]

\* A page's colours.
LEMMA HomeColours ==
  ASSUME NEW i \in Icons
  PROVE  /\ HomePicture(i) \in [Blocks -> Colours]
         /\ \A b \in Blocks : HomePicture(i)[b] = IF HitTest(b) = NoIcon THEN "background"
                                                  ELSE IF HitTest(b) = i THEN "selected"
                                                  ELSE "icon"
<1>1. ASSUME NEW b \in Blocks
      PROVE  HomePicture(i)[b] = IF HitTest(b) = NoIcon THEN "background"
                                 ELSE IF HitTest(b) = i THEN "selected" ELSE "icon"
  <2>1. HomePicture(i)[b] = CASE HitTest(b) = NoIcon -> "background"
                              [] HitTest(b) = i      -> "selected"
                              [] OTHER               -> "icon"
    BY DEF HomePicture
  <2>2. i # NoIcon
    BY DEF Icons, NoIcon
  <2>3. CASE HitTest(b) = NoIcon
    BY <2>1, <2>2, <2>3
  <2>4. CASE HitTest(b) = i
    BY <2>1, <2>2, <2>4
  <2>5. CASE HitTest(b) # NoIcon /\ HitTest(b) # i
    BY <2>1, <2>5
  <2> QED BY <2>2, <2>3, <2>4, <2>5
<1>2. HomePicture(i) = [b \in Blocks |-> HomePicture(i)[b]]
  BY DEF HomePicture
<1>3. \A b \in Blocks : HomePicture(i)[b] \in Colours
  BY <1>1 DEF Colours
<1> QED BY <1>1, <1>2, <1>3

\* Show puts the pointer on a bare page.
LEMMA ShowBare ==
  ASSUME NEW s, NEW i \in Icons, Bare(s, i)
  PROVE  AtHome(Show(s), i) /\ Show(s).at = s.at
<1>1. /\ s \in Screens /\ ~s.shown /\ s.pix = HomePicture(i)
      /\ s.pix \in [Blocks -> Colours] /\ s.at \in Blocks
  BY DEF Bare, Screens
<1>2. Show(s) = [pix |-> [s.pix EXCEPT ![s.at] = "pointer"], at |-> s.at, shown |-> TRUE,
                 save |-> s.pix[s.at]]
  BY <1>1 DEF Show
<1>3. Show(s).pix = [s.pix EXCEPT ![s.at] = "pointer"] /\ Show(s).at = s.at
      /\ Show(s).shown = TRUE /\ Show(s).save = s.pix[s.at]
  BY <1>2
<1>4. Show(s).pix[s.at] = "pointer" /\ \A b \in Blocks : b # s.at => Show(s).pix[b] = s.pix[b]
  BY <1>1, <1>3
<1>5. Show(s).pix \in [Blocks -> Colours]
  BY <1>1, <1>3 DEF Colours
<1>6. Show(s) \in Screens
  <2>1. s.pix[s.at] \in Colours
    BY <1>1
  <2> QED BY <1>1, <1>2, <1>3, <1>5, <2>1 DEF Screens
<1> QED BY <1>1, <1>3, <1>4, <1>6 DEF AtHome

\* Hide gives the bare page back.
LEMMA HideHome ==
  ASSUME NEW s, NEW i \in Icons, AtHome(s, i)
  PROVE  Bare(Hide(s), i) /\ Hide(s).at = s.at
<1>1. /\ s \in Screens /\ s.shown /\ s.save = HomePicture(i)[s.at]
      /\ s.pix \in [Blocks -> Colours] /\ s.at \in Blocks /\ s.save \in Colours
      /\ \A b \in Blocks : b # s.at => s.pix[b] = HomePicture(i)[b]
  BY DEF AtHome, Screens
<1>2. Hide(s) = [pix |-> [s.pix EXCEPT ![s.at] = s.save], at |-> s.at, shown |-> FALSE,
                 save |-> s.save]
  BY <1>1 DEF Hide
<1>3. Hide(s).pix = [s.pix EXCEPT ![s.at] = s.save] /\ Hide(s).at = s.at
      /\ Hide(s).shown = FALSE /\ Hide(s).save = s.save
  BY <1>2
<1>4. Hide(s).pix \in [Blocks -> Colours]
  BY <1>1, <1>3
<1>5. \A b \in Blocks : Hide(s).pix[b] = HomePicture(i)[b]
  BY <1>1, <1>3
<1>6. HomePicture(i) \in [Blocks -> Colours]
  BY HomeColours
<1>7. Hide(s).pix = HomePicture(i)
  BY ONLY <1>4, <1>5, <1>6
<1>8. Hide(s) \in Screens
  BY <1>1, <1>2, <1>3, <1>4 DEF Screens
<1> QED BY <1>3, <1>7, <1>8 DEF Bare

\* Repainting the two cells that change makes the page of the new selection.
LEMMA CellsRepainted ==
  ASSUME NEW s, NEW prev \in Icons, NEW new \in Icons, prev # new, Bare(s, prev)
  PROVE  /\ Bare(DrawIcon(DrawIcon(s, prev, FALSE), new, TRUE), new)
         /\ DrawIcon(DrawIcon(s, prev, FALSE), new, TRUE).at = s.at
<1>1. /\ s \in Screens /\ ~s.shown /\ s.pix = HomePicture(prev)
      /\ s.at \in Blocks /\ s.save \in Colours
  BY DEF Bare, Screens
<1> DEFINE P == [b \in Blocks |-> IF b \notin IconCells(prev) THEN s.pix[b] ELSE "icon"]
           Q == [b \in Blocks |-> IF b \notin IconCells(new) THEN P[b] ELSE "selected"]
           t == DrawIcon(s, prev, FALSE)
           r == DrawIcon(t, new, TRUE)
<1>2. t = [s EXCEPT !.pix = P]
  BY DEF DrawIcon
<1>3. t.pix = P /\ t.at = s.at /\ t.shown = s.shown /\ t.save = s.save
      /\ DOMAIN t = DOMAIN s
  BY <1>1, <1>2 DEF Screens
<1>4. r = [t EXCEPT !.pix = Q]
  BY <1>3 DEF DrawIcon
<1>5. ASSUME NEW b \in Blocks PROVE Q[b] = HomePicture(new)[b]
  <2>1. /\ b \in IconCells(prev) <=> HitTest(b) = prev
        /\ b \in IconCells(new) <=> HitTest(b) = new
    BY HitIsCell
  <2>2. Q[b] = IF HitTest(b) = new THEN "selected"
               ELSE IF HitTest(b) = prev THEN "icon" ELSE HomePicture(prev)[b]
    BY <1>1, <2>1
  <2>3. /\ HomePicture(prev)[b] = IF HitTest(b) = NoIcon THEN "background"
                                  ELSE IF HitTest(b) = prev THEN "selected" ELSE "icon"
        /\ HomePicture(new)[b] = IF HitTest(b) = NoIcon THEN "background"
                                 ELSE IF HitTest(b) = new THEN "selected" ELSE "icon"
    BY HomeColours
  <2>4. prev # NoIcon /\ new # NoIcon
    BY DEF Icons, NoIcon
  <2> QED BY ONLY <2>2, <2>3, <2>4, prev # new
<1>6. Q = [b \in Blocks |-> Q[b]]
  OBVIOUS
<1>7. HomePicture(new) \in [Blocks -> Colours]
  BY HomeColours
<1> HIDE DEF P, Q
<1>8. Q = HomePicture(new)
  BY ONLY <1>5, <1>6, <1>7
<1>9. r = [pix |-> Q, at |-> s.at, shown |-> s.shown, save |-> s.save]
  <2>1. s = [pix |-> s.pix, at |-> s.at, shown |-> s.shown, save |-> s.save]
    BY <1>1 DEF Screens
  <2> HIDE DEF t, r
  <2>2. t = [pix |-> P, at |-> s.at, shown |-> s.shown, save |-> s.save]
    BY <1>2, <2>1
  <2> QED BY <1>4, <2>2
<1> HIDE DEF t, r
<1>10. r \in Screens /\ r.pix = Q /\ r.at = s.at /\ ~r.shown
  <2>1. s.shown \in BOOLEAN
    BY <1>1 DEF Screens
  <2> QED BY <1>1, <1>7, <1>8, <1>9, <2>1 DEF Screens
<1> QED BY <1>8, <1>10 DEF Bare, t, r

\* move_selection, from one icon to another or to the same.
LEMMA SelectionMoved ==
  ASSUME NEW s, NEW prev \in Icons, NEW new \in Icons, AtHome(s, prev)
  PROVE  AtHome(MoveSelection(s, prev, new), new) /\ MoveSelection(s, prev, new).at = s.at
<1>1. CASE prev = new
  BY <1>1 DEF MoveSelection
<1>2. CASE prev # new
  <2> DEFINE r == DrawIcon(DrawIcon(Hide(s), prev, FALSE), new, TRUE)
  <2>1. Bare(Hide(s), prev) /\ Hide(s).at = s.at
    BY HideHome
  <2>2. Bare(r, new) /\ r.at = s.at
    BY <1>2, <2>1, CellsRepainted
  <2>3. MoveSelection(s, prev, new) = Show(r)
    BY <1>2 DEF MoveSelection
  <2> HIDE DEF r
  <2>4. AtHome(Show(r), new) /\ Show(r).at = r.at
    BY <2>2, ShowBare
  <2> QED BY <2>2, <2>3, <2>4
<1> QED BY <1>1, <1>2

\* The pointer lifted, moved and put down, or painted over itself.
LEMMA PointerKeepsPage ==
  ASSUME NEW s, NEW i \in Icons, NEW to \in Blocks, AtHome(s, i)
  PROVE  AtHome(PointerMoved(s, to), i) /\ PointerMoved(s, to).at = to
<1>1. CASE to = s.at
  <2>1. /\ s \in Screens /\ s.shown /\ s.pix \in [Blocks -> Colours] /\ s.at \in Blocks
        /\ s.pix[s.at] = "pointer"
    BY DEF AtHome, Screens
  <2>2. [s.pix EXCEPT ![s.at] = "pointer"] = s.pix
    BY <2>1
  <2>3. [s EXCEPT !.pix = s.pix] = s
    BY <2>1 DEF Screens
  <2>4. Refresh(s) = s
    BY <2>1, <2>2, <2>3 DEF Refresh
  <2> QED BY <1>1, <2>4 DEF PointerMoved
<1>2. CASE to # s.at
  <2> DEFINE h == Hide(s)
             r == [h EXCEPT !.at = to]
  <2>1. Bare(h, i)
    BY HideHome
  <2>2. h \in Screens /\ ~h.shown /\ h.pix = HomePicture(i)
    BY <2>1 DEF Bare
  <2>3. PointerMoved(s, to) = Show(r)
    BY <1>2 DEF PointerMoved
  <2> HIDE DEF h
  <2>4. r \in Screens /\ ~r.shown /\ r.pix = HomePicture(i) /\ r.at = to
    BY <2>2 DEF Screens
  <2> HIDE DEF r
  <2>5. Bare(r, i)
    BY <2>4 DEF Bare
  <2>6. AtHome(Show(r), i) /\ Show(r).at = r.at
    BY <2>5, ShowBare
  <2> QED BY <2>3, <2>4, <2>6
<1> QED BY <1>1, <1>2

\* A pointer stays on the screen.
LEMMA MovedOnScreen ==
  ASSUME NEW b \in Blocks, NEW dx \in Int, NEW dy \in Int
  PROVE  Moved2D(b, dx, dy) \in Blocks
<1>1. b[1] \in Int /\ b[2] \in Int /\ ScreenW - 1 \in Nat /\ ScreenH - 1 \in Nat
  BY ScreenSizes DEF Blocks
<1>2. ASSUME NEW v \in Int, NEW limit \in Nat PROVE Clamped(v, limit) \in 0 .. limit
  BY DEF Clamped
<1>3. /\ Clamped(b[1] + dx, ScreenW - 1) \in 0 .. ScreenW - 1
      /\ Clamped(b[2] - dy, ScreenH - 1) \in 0 .. ScreenH - 1
  <2>1. b[1] + dx \in Int /\ b[2] - dy \in Int
    BY <1>1
  <2> QED BY <1>1, <1>2, <2>1
<1> QED BY <1>3 DEF Moved2D, Blocks

----------------------------------------------------------------------------
(* The shell: every step.                                                  *)

\* What every mode says of the screen.
PageOf(s, m, i) ==
  /\ s \in Screens
  /\ m = "home" => AtHome(s, i)
  /\ m = "view" => ~s.shown /\ s.pix = ViewPicture
  /\ m = "app" => ~s.shown

\* The inductive invariant of the picture.
ShellInv == mode \in {"home", "view", "app", "gone"} /\ sel \in Icons /\ PageOf(screen, mode, sel)

\* A page painted from nothing on a screen the pointer is not on.
LEMMA PageRedrawn ==
  ASSUME NEW s \in Screens, NEW i \in Icons, ~s.shown
  PROVE  AtHome(Show(Draw(s, HomePicture(i))), i)
<1> DEFINE r == Draw(s, HomePicture(i))
<1>1. HomePicture(i) \in [Blocks -> Colours]
  BY HomeColours
<1>2. r = [s EXCEPT !.pix = HomePicture(i)]
  BY DEF Draw
<1> HIDE DEF r
<1>3. r \in Screens /\ ~r.shown /\ r.pix = HomePicture(i)
  BY <1>1, <1>2 DEF Screens
<1>4. Bare(r, i)
  BY <1>3 DEF Bare
<1> QED BY <1>4, ShowBare DEF r

\* Another picture, on any screen.
LEMMA PictureDrawn ==
  ASSUME NEW s \in Screens, NEW p \in {ViewPicture, AppPicture}
  PROVE  Draw(s, p) \in Screens /\ Draw(s, p).pix = p /\ Draw(s, p).shown = s.shown
<1>1. p \in [Blocks -> Colours]
  BY DEF ViewPicture, AppPicture, Colours
<1>2. Draw(s, p) = [s EXCEPT !.pix = p]
  BY DEF Draw
<1> QED BY <1>1, <1>2 DEF Screens

\* open_icon, from a page that is intact.
LEMMA IconOpened ==
  ASSUME NEW s, NEW i \in Icons, AtHome(s, i), OpenIcon(i, s)
  PROVE  mode' \in {"view", "app"} /\ PageOf(screen', mode', i)
<1>1. s \in Screens
  BY DEF AtHome
<1>2. CASE i \in Apps
  <2>1. mode' = "app" /\ screen' = [s EXCEPT !.shown = FALSE]
    BY <1>2 DEF OpenIcon, Invalidate
  <2>2. screen' \in Screens /\ ~screen'.shown
    BY <1>1, <2>1 DEF Screens
  <2> QED BY <2>1, <2>2 DEF PageOf
<1>3. CASE i \notin Apps
  <2>1. mode' = "view" /\ screen' = Draw(Hide(s), ViewPicture)
    BY <1>3 DEF OpenIcon
  <2>2. Hide(s) \in Screens /\ ~Hide(s).shown
    BY HideHome DEF Bare
  <2>3. screen' \in Screens /\ screen'.pix = ViewPicture /\ screen'.shown = Hide(s).shown
    BY <2>1, <2>2, PictureDrawn
  <2> QED BY <2>1, <2>2, <2>3 DEF PageOf
<1> QED BY <1>2, <1>3

\* The arrows lead from icon to icon.
LEMMA BesideIsIcon ==
  ASSUME NEW i \in Icons, NEW key
  PROVE  Beside(i, key) \in Icons
<1>1. i \in {0, 1, 2, 3}
  BY DEF Icons
<1>2. /\ (0 + 2) % 4 = 2 /\ (1 + 2) % 4 = 3 /\ (2 + 2) % 4 = 0 /\ (3 + 2) % 4 = 1
      /\ 0 % 2 = 0 /\ 1 % 2 = 1 /\ 2 % 2 = 0 /\ 3 % 2 = 1
  OBVIOUS
<1>3. CASE i = 0
  BY <1>2, <1>3 DEF Beside, Icons
<1>4. CASE i = 1
  BY <1>2, <1>4 DEF Beside, Icons
<1>5. CASE i = 2
  BY <1>2, <1>5 DEF Beside, Icons
<1>6. CASE i = 3
  BY <1>2, <1>6 DEF Beside, Icons
<1> QED BY <1>1, <1>3, <1>4, <1>5, <1>6

\* The shell starts at home, the pointer on the screen.
LEMMA ShellStarts == ShellInit => ShellInv
<1> SUFFICES ASSUME ShellInit PROVE ShellInv
  OBVIOUS
<1> DEFINE half == IconSide \div 2
           middle == <<IconAt(0)[1] + half, IconAt(0)[2] + half>>
           s == [pix |-> HomePicture(0), at |-> middle, shown |-> FALSE, save |-> "none"]
<1>1. screen = Show(s) /\ mode = "home" /\ sel = 0
  BY DEF ShellInit
<1>2. 0 \in Icons
  BY DEF Icons
<1>3. middle \in Blocks
  <2>1. half \in Nat /\ 2 * half <= IconSide
    BY ScreenSizes, HalfOf
  <2>2. IconAt(0) = <<GridX, GridY>>
    BY IconPlaces
  <2> HIDE DEF half
  <2>3. middle = <<GridX + half, GridY + half>>
    BY <2>2
  <2>0. /\ GridX \in Nat /\ GridY \in Nat
        /\ GridX + 2 * IconSide + IconGap <= ScreenW
        /\ GridY + 2 * IconSide + IconGap <= ScreenH
    BY IconPlaces
  <2>4. GridX + half \in 0 .. ScreenW - 1 /\ GridY + half \in 0 .. ScreenH - 1
    BY ONLY <2>0, <2>1, ScreenSizes
  <2> HIDE DEF middle
  <2> QED BY <2>3, <2>4 DEF Blocks
<1> HIDE DEF middle
<1>4. HomePicture(0) \in [Blocks -> Colours]
  BY <1>2, HomeColours
<1>5. s \in Screens /\ ~s.shown /\ s.pix = HomePicture(0)
  BY <1>3, <1>4 DEF Screens, Colours
<1> HIDE DEF s
<1>6. Bare(s, 0)
  BY <1>5 DEF Bare
<1>7. AtHome(Show(s), 0)
  BY <1>2, <1>6, ShowBare
<1>8. Show(s) \in Screens
  BY <1>7 DEF AtHome
<1> QED BY <1>1, <1>2, <1>7, <1>8 DEF ShellInv, PageOf

\* A key at home.
LEMMA KeyAtHomeKeeps ==
  ASSUME ShellInv, NEW code \in Codes, NEW press \in BOOLEAN, KeyAtHome(code, press)
  PROVE  ShellInv'
<1> DEFINE key == KeyOf(code, press)
<1>1. mode = "home" /\ sel \in Icons /\ screen \in Screens /\ AtHome(screen, sel)
  BY DEF ShellInv, PageOf, KeyAtHome
<1>2. CASE /\ sel' = Beside(sel, key)
           /\ screen' = MoveSelection(screen, sel, Beside(sel, key)) /\ UNCHANGED mode
  <2>1. sel' \in Icons
    BY <1>1, <1>2, BesideIsIcon
  <2>2. AtHome(MoveSelection(screen, sel, sel'), sel')
    BY <1>1, <2>1, SelectionMoved
  <2>3. AtHome(screen', sel') /\ mode' = "home"
    BY <1>1, <1>2, <2>2
  <2>4. screen' \in Screens
    BY <2>3 DEF AtHome
  <2> QED BY <2>1, <2>3, <2>4 DEF ShellInv, PageOf
<1>3. CASE OpenIcon(sel, screen) /\ UNCHANGED sel
  <2>1. mode' \in {"view", "app"} /\ PageOf(screen', mode', sel)
    BY <1>1, <1>3, IconOpened
  <2> QED BY <1>1, <1>3, <2>1 DEF ShellInv
<1>4. CASE mode' = "gone" /\ UNCHANGED <<screen, sel>>
  BY <1>1, <1>4 DEF ShellInv, PageOf
<1>5. CASE UNCHANGED <<screen, sel, mode>>
  BY <1>5 DEF ShellInv
<1> QED BY <1>2, <1>3, <1>4, <1>5 DEF KeyAtHome

\* A key in a view.
LEMMA KeyInViewKeeps ==
  ASSUME ShellInv, NEW code \in Codes, NEW press \in BOOLEAN, KeyInView(code, press)
  PROVE  ShellInv'
<1>1. mode = "view" /\ sel \in Icons /\ screen \in Screens /\ ~screen.shown /\ sel' = sel
  BY DEF ShellInv, PageOf, KeyInView
<1>2. CASE mode' = "home" /\ screen' = Show(Draw(screen, HomePicture(sel)))
  <2>1. AtHome(screen', sel)
    BY <1>1, <1>2, PageRedrawn
  <2>2. screen' \in Screens
    BY <2>1 DEF AtHome
  <2> QED BY <1>1, <1>2, <2>1, <2>2 DEF ShellInv, PageOf
<1>3. CASE mode' = "gone" /\ screen' = screen
  BY <1>1, <1>3 DEF ShellInv, PageOf
<1>4. CASE screen' = screen /\ mode' = mode
  BY <1>1, <1>4 DEF ShellInv
<1> QED BY <1>2, <1>3, <1>4 DEF KeyInView

\* A packet at home.
LEMMA MouseAtHomeKeeps ==
  ASSUME ShellInv, NEW dx \in Int, NEW dy \in Int, NEW down \in BOOLEAN,
         MouseAtHome(dx, dy, down)
  PROVE  ShellInv'
<1> DEFINE to      == Moved2D(screen.at, dx, dy)
           hit     == HitTest(to)
           hovered == IF hit # over /\ hit # NoIcon THEN hit ELSE sel
           clicked == down /\ ~buttons_prev /\ hit # NoIcon
           chosen  == IF clicked THEN hit ELSE hovered
           moved   == PointerMoved(screen, to)
           midway  == MoveSelection(moved, sel, hovered)
           painted == MoveSelection(midway, hovered, chosen)
<1>1. mode = "home" /\ sel \in Icons /\ screen \in Screens /\ AtHome(screen, sel)
  BY DEF ShellInv, PageOf, MouseAtHome
<1>2. sel' = chosen /\ IF clicked THEN OpenIcon(chosen, painted)
                       ELSE screen' = painted /\ UNCHANGED mode
  BY DEF MouseAtHome
<1>3. to \in Blocks
  <2>1. screen.at \in Blocks
    BY <1>1 DEF Screens
  <2> QED BY <2>1, MovedOnScreen
<1>4. hit \in Icons \cup {NoIcon}
  BY HitTyped
<1> HIDE DEF to, hit
<1>5. hovered \in Icons /\ chosen \in Icons
  BY <1>1, <1>4
<1> HIDE DEF hovered, chosen
<1>6. AtHome(moved, sel)
  BY <1>1, <1>3, PointerKeepsPage
<1> HIDE DEF moved
<1>7. AtHome(midway, hovered)
  BY <1>1, <1>5, <1>6, SelectionMoved
<1> HIDE DEF midway
<1>8. AtHome(painted, chosen)
  BY <1>5, <1>7, SelectionMoved
<1> HIDE DEF painted
<1>9. CASE clicked
  <2>1. OpenIcon(chosen, painted)
    BY <1>2, <1>9
  <2>2. mode' \in {"view", "app"} /\ PageOf(screen', mode', chosen)
    BY <1>5, <1>8, <2>1, IconOpened
  <2> QED BY <1>2, <1>5, <2>2 DEF ShellInv
<1>10. CASE ~clicked
  <2>1. screen' = painted /\ mode' = "home"
    BY <1>1, <1>2, <1>10
  <2>2. painted \in Screens
    BY <1>8 DEF AtHome
  <2> QED BY <1>2, <1>5, <1>8, <2>1, <2>2 DEF ShellInv, PageOf
<1> QED BY <1>9, <1>10

\* A packet in a view.
LEMMA MouseInViewKeeps ==
  ASSUME ShellInv, NEW dx \in Int, NEW dy \in Int, MouseInView(dx, dy)
  PROVE  ShellInv'
<1> DEFINE to == Moved2D(screen.at, dx, dy)
<1>1. /\ mode = "view" /\ sel \in Icons /\ screen \in Screens /\ ~screen.shown
      /\ screen.pix = ViewPicture /\ screen.at \in Blocks
  BY DEF ShellInv, PageOf, MouseInView, Screens
<1>2. to \in Blocks
  BY <1>1, MovedOnScreen
<1>3. screen' = [screen EXCEPT !.at = to] /\ mode' = mode /\ sel' = sel
  BY DEF MouseInView
<1> HIDE DEF to
<1>4. screen' \in Screens /\ ~screen'.shown /\ screen'.pix = ViewPicture
  BY <1>1, <1>2, <1>3 DEF Screens
<1> QED BY <1>1, <1>3, <1>4 DEF ShellInv, PageOf

\* The screen on loan.
LEMMA LoanKeeps ==
  ASSUME ShellInv, AppPaints \/ AppEnds \/ LaunchFails
  PROVE  ShellInv'
<1>1. mode = "app" /\ sel \in Icons /\ screen \in Screens /\ ~screen.shown /\ sel' = sel
  BY DEF ShellInv, PageOf, AppPaints, AppEnds, LaunchFails
<1>2. CASE AppPaints
  <2>1. screen' = Draw(screen, AppPicture) /\ mode' = mode
    BY <1>2 DEF AppPaints
  <2>2. screen' \in Screens /\ screen'.shown = screen.shown
    BY <1>1, <2>1, PictureDrawn
  <2> QED BY <1>1, <2>1, <2>2 DEF ShellInv, PageOf
<1>3. CASE AppEnds
  <2>1. screen' = Show(Draw(screen, HomePicture(sel))) /\ mode' = "home"
    BY <1>3 DEF AppEnds
  <2>2. AtHome(screen', sel)
    BY <1>1, <2>1, PageRedrawn
  <2>3. screen' \in Screens
    BY <2>2 DEF AtHome
  <2> QED BY <1>1, <2>1, <2>2, <2>3 DEF ShellInv, PageOf
<1>4. CASE LaunchFails
  BY <1>1, <1>4 DEF LaunchFails, ShellInv, PageOf
<1> QED BY <1>2, <1>3, <1>4

\* No step of the shell leaves a trace on the screen.
LEMMA ShellSteps == ShellInv /\ [ShellNext]_shellVars => ShellInv'
<1> SUFFICES ASSUME ShellInv, [ShellNext]_shellVars PROVE ShellInv'
  OBVIOUS
<1>1. CASE UNCHANGED <<screen, mode, sel>>
  BY <1>1 DEF ShellInv
<1>2. ASSUME NEW stream \in {"key", "mouse"}, Posted(stream)
      PROVE  ShellInv'
  BY <1>1, <1>2 DEF Posted
<1>3. CASE ReapBegins \/ ReapEntry \/ ReapEnds
  BY <1>1, <1>3 DEF ReapBegins, ReapEntry, ReapEnds, Unpainted
<1>4. ASSUME NEW d \in Deltas PROVE d[1] \in Int /\ d[2] \in Int
  BY DEF Deltas
<1>5. ASSUME NEW d \in Deltas, MouseInView(d[1], d[2])
      PROVE  ShellInv'
  BY <1>4, <1>5, MouseInViewKeeps
<1>6. ASSUME NEW d \in Deltas, NEW down \in BOOLEAN, MouseAtHome(d[1], d[2], down)
      PROVE  ShellInv'
  BY <1>4, <1>6, MouseAtHomeKeeps
<1>7. CASE UNCHANGED shellVars
  BY <1>1, <1>7 DEF shellVars
<1> QED BY <1>2, <1>3, <1>5, <1>6, <1>7, KeyAtHomeKeeps, KeyInViewKeeps, LoanKeeps DEF ShellNext

\* The shell's pointer and partial repaints leave no trace, on every screen the
\* icons fit on: with the pointer lifted the screen is what a full redraw would
\* paint, whatever is moved, hovered, clicked, lent and taken back.
THEOREM PictureStaysIntact == ShellSpec => []PictureIntact
<1>1. ShellInv => PictureIntact
  <2> SUFFICES ASSUME ShellInv PROVE PictureIntact
    OBVIOUS
  <2>1. CASE mode = "home"
    <3>1. sel \in Icons /\ AtHome(screen, sel)
      BY <2>1 DEF ShellInv, PageOf
    <3>2. Hide(screen).pix = HomePicture(sel)
      BY <3>1, HideHome DEF Bare
    <3> QED BY <2>1, <3>1, <3>2 DEF PictureIntact, AtHome
  <2>2. CASE mode # "home"
    BY <2>2 DEF PictureIntact, ShellInv, PageOf
  <2> QED BY <2>1, <2>2
<1> QED BY <1>1, ShellStarts, ShellSteps, PTL DEF ShellSpec

----------------------------------------------------------------------------
(* The shell: the reactor's table.                                         *)

\* How far a reap is: everything staged, lost and still queued was queued when it
\* began, at most a ring of it, or has been posted since; entries are lost only
\* once the table is full.
ReapCourse(q, t, r) ==
  /\ q \in Seq({"key", "mouse"}) /\ Len(q) <= ShellCq
  /\ t \in [{"key", "mouse"} -> Nat]
  /\ r \in [on : BOOLEAN, late : Nat, lost : Nat]
  /\ t["key"] + t["mouse"] <= ShellTable
  /\ r.on => /\ t["key"] + t["mouse"] + Len(q) + r.lost <= ShellCq + r.late
             /\ r.lost > 0 => t["key"] + t["mouse"] = ShellTable
  /\ ~r.on => r.lost = 0

ReaperInv == ReapCourse(shellCq, staged, reaping)

\* A stream that leaves the table for the shell.
LEMMA TakenKeeps ==
  ASSUME ReaperInv, NEW stream \in {"key", "mouse"}, NextOf(stream)
  PROVE  ReaperInv'
<1>1. /\ shellCq' = shellCq /\ reaping' = reaping /\ ~reaping.on /\ staged[stream] > 0
      /\ staged' = [staged EXCEPT ![stream] = @ - 1]
  BY DEF NextOf
<1>2. /\ staged \in [{"key", "mouse"} -> Nat] /\ staged["key"] + staged["mouse"] <= ShellTable
      /\ ShellTable \in Nat
  BY ShellAssumption DEF ReaperInv, ReapCourse
<1>3. /\ staged' \in [{"key", "mouse"} -> Nat]
      /\ staged'["key"] + staged'["mouse"] <= ShellTable
  <2>1. /\ staged["key"] \in Nat /\ staged["mouse"] \in Nat
    BY <1>2
  <2>2. CASE stream = "key"
    BY <1>1, <1>2, <2>1, <2>2
  <2>3. CASE stream = "mouse"
    BY <1>1, <1>2, <2>1, <2>3
  <2> QED BY <2>2, <2>3
<1> QED BY <1>1, <1>3 DEF ReaperInv, ReapCourse

\* A completion posted, while a reap runs or not.
LEMMA PostedKeeps ==
  ASSUME ReaperInv, NEW stream \in {"key", "mouse"}, Posted(stream)
  PROVE  ReaperInv'
<1>1. /\ Len(shellCq) < ShellCq /\ shellCq' = Append(shellCq, stream) /\ staged' = staged
      /\ IF reaping.on THEN reaping' = [reaping EXCEPT !.late = @ + 1]
         ELSE reaping' = reaping
  BY DEF Posted
<1>2. /\ shellCq \in Seq({"key", "mouse"}) /\ staged \in [{"key", "mouse"} -> Nat]
      /\ reaping \in [on : BOOLEAN, late : Nat, lost : Nat]
      /\ staged["key"] + staged["mouse"] <= ShellTable /\ ShellCq \in Nat
      /\ reaping.on => /\ staged["key"] + staged["mouse"] + Len(shellCq) + reaping.lost
                            <= ShellCq + reaping.late
                       /\ reaping.lost > 0 => staged["key"] + staged["mouse"] = ShellTable
      /\ ~reaping.on => reaping.lost = 0
  BY ShellAssumption DEF ReaperInv, ReapCourse
<1>3. /\ shellCq' \in Seq({"key", "mouse"}) /\ Len(shellCq') = Len(shellCq) + 1
      /\ Len(shellCq) \in Nat
  BY <1>1, <1>2
<1>4. /\ staged["key"] \in Nat /\ staged["mouse"] \in Nat
      /\ reaping.late \in Nat /\ reaping.lost \in Nat
  BY <1>2
<1>5. CASE reaping.on
  <2>1. /\ reaping' \in [on : BOOLEAN, late : Nat, lost : Nat] /\ reaping'.on
        /\ reaping'.late = reaping.late + 1 /\ reaping'.lost = reaping.lost
    BY <1>1, <1>2, <1>5
  <2>2. staged["key"] + staged["mouse"] + Len(shellCq') + reaping'.lost
          <= ShellCq + reaping'.late
    BY ONLY <1>2, <1>3, <1>4, <1>5, <2>1
  <2> QED BY <1>1, <1>2, <1>3, <1>5, <2>1, <2>2 DEF ReaperInv, ReapCourse
<1>6. CASE ~reaping.on
  BY <1>1, <1>2, <1>3, <1>6 DEF ReaperInv, ReapCourse
<1> QED BY <1>5, <1>6

\* One more of a stream in the table.
LEMMA StagedOneMore ==
  ASSUME NEW t \in [{"key", "mouse"} -> Nat], NEW e \in {"key", "mouse"}
  PROVE  /\ [t EXCEPT ![e] = @ + 1] \in [{"key", "mouse"} -> Nat]
         /\ [t EXCEPT ![e] = @ + 1]["key"] + [t EXCEPT ![e] = @ + 1]["mouse"]
              = t["key"] + t["mouse"] + 1
<1>1. t["key"] \in Nat /\ t["mouse"] \in Nat
  OBVIOUS
<1>2. [t EXCEPT ![e] = t[e] + 1] \in [{"key", "mouse"} -> Nat]
  OBVIOUS
<1>3. CASE e = "key"
  <2>1. /\ [t EXCEPT ![e] = t[e] + 1]["key"] = t["key"] + 1
        /\ [t EXCEPT ![e] = t[e] + 1]["mouse"] = t["mouse"]
    BY <1>3
  <2> QED BY <1>1, <1>2, <2>1
<1>4. CASE e = "mouse"
  <2>1. /\ [t EXCEPT ![e] = t[e] + 1]["mouse"] = t["mouse"] + 1
        /\ [t EXCEPT ![e] = t[e] + 1]["key"] = t["key"]
    BY <1>4
  <2> QED BY <1>1, <1>2, <2>1
<1> QED BY <1>3, <1>4

\* With a full table the entry is lost.
LEMMA EntryLost ==
  ASSUME NEW k \in Nat, NEW m \in Nat, NEW q \in Nat, NEW lost_ \in Nat, NEW late_ \in Nat,
         k + m <= ShellTable, ~(k + m < ShellTable), q <= ShellCq,
         k + m + q + lost_ <= ShellCq + late_
  PROVE  /\ k + m = ShellTable /\ q - 1 <= ShellCq
         /\ k + m + (q - 1) + (lost_ + 1) <= ShellCq + late_
BY ShellAssumption

\* An entry reaped, into the table or into nothing.
LEMMA EntryKeeps ==
  ASSUME ReaperInv, ReapEntry
  PROVE  ReaperInv'
<1> DEFINE room == staged["key"] + staged["mouse"] < ShellTable
<1>1. /\ reaping.on /\ shellCq # <<>> /\ shellCq' = Tail(shellCq)
      /\ IF room THEN staged' = [staged EXCEPT ![Head(shellCq)] = @ + 1] /\ reaping' = reaping
         ELSE reaping' = [reaping EXCEPT !.lost = @ + 1] /\ staged' = staged
  BY DEF ReapEntry
<1>2. /\ shellCq \in Seq({"key", "mouse"}) /\ staged \in [{"key", "mouse"} -> Nat]
      /\ reaping \in [on : BOOLEAN, late : Nat, lost : Nat] /\ Len(shellCq) <= ShellCq
      /\ staged["key"] + staged["mouse"] <= ShellTable /\ ShellCq \in Nat /\ ShellTable \in Nat
      /\ staged["key"] + staged["mouse"] + Len(shellCq) + reaping.lost <= ShellCq + reaping.late
      /\ reaping.lost > 0 => staged["key"] + staged["mouse"] = ShellTable
  BY <1>1, ShellAssumption DEF ReaperInv, ReapCourse
<1>3. /\ shellCq' \in Seq({"key", "mouse"}) /\ Len(shellCq') = Len(shellCq) - 1
      /\ Len(shellCq) \in Nat /\ Len(shellCq') \in Nat /\ Head(shellCq) \in {"key", "mouse"}
  BY <1>1, <1>2
<1>4. /\ staged["key"] \in Nat /\ staged["mouse"] \in Nat
      /\ reaping.late \in Nat /\ reaping.lost \in Nat
  BY <1>2
<1>5. CASE room
  <2>1. /\ staged' \in [{"key", "mouse"} -> Nat]
        /\ staged'["key"] + staged'["mouse"] = staged["key"] + staged["mouse"] + 1
    <3>1. staged' = [staged EXCEPT ![Head(shellCq)] = @ + 1]
      BY <1>1, <1>5
    <3> QED BY <1>2, <1>3, <3>1, StagedOneMore
  <2>2. reaping' = reaping /\ ~(reaping.lost > 0)
    BY <1>1, <1>2, <1>4, <1>5
  <2>3. /\ staged'["key"] + staged'["mouse"] <= ShellTable
        /\ staged'["key"] + staged'["mouse"] + Len(shellCq') + reaping.lost
             <= ShellCq + reaping.late
        /\ Len(shellCq') <= ShellCq
    BY ONLY <1>2, <1>3, <1>4, <1>5, <2>1
  <2> QED BY <1>1, <1>2, <1>3, <2>1, <2>2, <2>3 DEF ReaperInv, ReapCourse
<1>6. CASE ~room
  <2>1. reaping' = [reaping EXCEPT !.lost = @ + 1] /\ staged' = staged
    BY <1>1, <1>6
  <2>2. /\ reaping' \in [on : BOOLEAN, late : Nat, lost : Nat] /\ reaping'.on
        /\ reaping'.late = reaping.late /\ reaping'.lost = reaping.lost + 1
    <3>1. reaping \in [on : BOOLEAN, late : Nat, lost : Nat] /\ reaping.on
      BY <1>1, <1>2
    <3> QED BY ONLY <1>4, <2>1, <3>1
  <2>3. ~(staged["key"] + staged["mouse"] < ShellTable)
    BY <1>6
  <2>4. /\ staged["key"] + staged["mouse"] = ShellTable /\ Len(shellCq) - 1 <= ShellCq
        /\ staged["key"] + staged["mouse"] + (Len(shellCq) - 1) + (reaping.lost + 1)
             <= ShellCq + reaping.late
    BY <1>2, <1>3, <1>4, <2>3, EntryLost
  <2> QED BY <1>1, <1>2, <1>3, <2>1, <2>2, <2>4 DEF ReaperInv, ReapCourse
<1> QED BY <1>5, <1>6

\* A reap begins with an empty table, and ends with an empty queue.
LEMMA ReapEndsKeep ==
  ASSUME ReaperInv, ReapBegins \/ ReapEnds
  PROVE  ReaperInv'
<1>1. /\ shellCq' = shellCq /\ staged' = staged
      /\ shellCq \in Seq({"key", "mouse"}) /\ Len(shellCq) <= ShellCq /\ Len(shellCq) \in Nat
      /\ staged \in [{"key", "mouse"} -> Nat] /\ staged["key"] + staged["mouse"] <= ShellTable
      /\ ShellCq \in Nat
  BY ShellAssumption DEF ReaperInv, ReapCourse, ReapBegins, ReapEnds
<1>2. CASE ReapBegins
  <2>1. staged["key"] = 0 /\ staged["mouse"] = 0 /\ reaping' = [on |-> TRUE, late |-> 0, lost |-> 0]
    BY <1>2 DEF ReapBegins, Serviced
  <2> QED BY <1>1, <2>1 DEF ReaperInv, ReapCourse
<1>3. CASE ReapEnds
  <2>1. reaping' = [on |-> FALSE, late |-> 0, lost |-> 0]
    BY <1>3 DEF ReapEnds, NotReaping
  <2> QED BY <1>1, <2>1 DEF ReaperInv, ReapCourse
<1> QED BY <1>2, <1>3

\* The staging table is no smaller than the completion queue (both have 16
\* entries), and the shell only reaps with an empty table: whatever has piled up
\* finds room, and a reap loses no more than was posted while it ran.
THEOREM BacklogIsKept ==
  ASSUME ShellCq <= ShellTable
  PROVE  ShellSpec => []BacklogKept
<1>1. ShellInit => ReaperInv
  BY ShellAssumption DEF ShellInit, NotReaping, ReaperInv, ReapCourse
<1>2. ReaperInv /\ [ShellNext]_shellVars => ReaperInv'
  <2> SUFFICES ASSUME ReaperInv, [ShellNext]_shellVars PROVE ReaperInv'
    OBVIOUS
  <2>1. CASE UNCHANGED <<shellCq, staged, reaping>>
    BY <2>1 DEF ReaperInv, ReapCourse
  <2>2. ASSUME NEW code \in Codes, NEW press \in BOOLEAN,
               KeyAtHome(code, press) \/ KeyInView(code, press)
        PROVE  ReaperInv'
    BY <2>2, TakenKeeps DEF KeyAtHome, KeyInView
  <2>3. ASSUME NEW d \in Deltas, MouseInView(d[1], d[2])
        PROVE  ReaperInv'
    BY <2>3, TakenKeeps DEF MouseInView
  <2>4. ASSUME NEW d \in Deltas, NEW down \in BOOLEAN, MouseAtHome(d[1], d[2], down)
        PROVE  ReaperInv'
    BY <2>4, TakenKeeps DEF MouseAtHome
  <2>5. CASE AppPaints \/ AppEnds \/ LaunchFails
    BY <2>1, <2>5 DEF AppPaints, AppEnds, LaunchFails
  <2>6. CASE UNCHANGED shellVars
    BY <2>1, <2>6 DEF shellVars
  <2> QED BY <2>2, <2>3, <2>4, <2>5, <2>6, PostedKeeps, EntryKeeps, ReapEndsKeep DEF ShellNext
<1>3. ReaperInv => BacklogKept
  <2> SUFFICES ASSUME ReaperInv PROVE reaping.lost <= reaping.late
    BY DEF BacklogKept
  <2>1. /\ Len(shellCq) \in Nat /\ ShellCq \in Nat /\ ShellTable \in Nat
        /\ staged["key"] \in Nat /\ staged["mouse"] \in Nat
        /\ reaping.late \in Nat /\ reaping.lost \in Nat
    BY ShellAssumption DEF ReaperInv, ReapCourse
  <2>2. CASE reaping.on
    <3>1. /\ staged["key"] + staged["mouse"] + Len(shellCq) + reaping.lost
                <= ShellCq + reaping.late
          /\ reaping.lost > 0 => staged["key"] + staged["mouse"] = ShellTable
      BY <2>2 DEF ReaperInv, ReapCourse
    <3> QED BY ONLY <2>1, <3>1, ShellCq <= ShellTable
  <2>3. CASE ~reaping.on
    BY <2>1, <2>3 DEF ReaperInv, ReapCourse
  <2> QED BY <2>2, <2>3
<1> QED BY <1>1, <1>2, <1>3, PTL DEF ShellSpec

----------------------------------------------------------------------------
(* The reactor: places in a table.                                         *)

\* A non-empty set of places has a last one.
LEMMA LastExists ==
  ASSUME NEW N \in Nat, NEW S \in SUBSET (1 .. N), S # {}
  PROVE  \E m \in S : \A k \in S : k <= m
<1> DEFINE T == {N - k : k \in S}
<1>0. \A k \in S : N - k \in Nat
  OBVIOUS
<1>1. T \in SUBSET Nat /\ T # {}
  BY <1>0
<1>2. PICK t \in T : \A u \in T : t <= u
  BY <1>1, LeastExists
<1>3. PICK m \in S : t = N - m
  BY <1>2
<1>4. \A k \in S : N - m <= N - k
  BY <1>2, <1>3
<1>5. \A k \in S : k \in Nat
  OBVIOUS
<1> QED BY <1>4, <1>5

\* The places of S up to k.
UpTo(S, k) == {j \in S : j <= k}

\* How many places there are up to each of them.
LEMMA Ranks ==
  ASSUME NEW N \in Nat, NEW S \in SUBSET (1 .. N)
  PROVE  /\ IsFiniteSet(S) /\ Cardinality(S) \in Nat /\ Cardinality(S) <= N
         /\ \A k \in S : IsFiniteSet(UpTo(S, k)) /\ Cardinality(UpTo(S, k)) \in Nat
         /\ \A k, l \in S : k < l => Cardinality(UpTo(S, k)) < Cardinality(UpTo(S, l))
<1>0. \A k \in S : k \in Nat
  OBVIOUS
<1>1. IsFiniteSet(1 .. N) /\ Cardinality(1 .. N) = N
  BY FS_Interval
<1>2. IsFiniteSet(S) /\ Cardinality(S) <= N
  BY <1>1, FS_Subset
<1>3. Cardinality(S) \in Nat
  BY <1>2, FS_CardinalityType
<1>4. ASSUME NEW k \in S
      PROVE  IsFiniteSet(UpTo(S, k)) /\ Cardinality(UpTo(S, k)) \in Nat
  <2>1. UpTo(S, k) \in SUBSET S
    BY DEF UpTo
  <2>2. IsFiniteSet(UpTo(S, k))
    BY <1>2, <2>1, FS_Subset
  <2> QED BY <2>2, FS_CardinalityType
<1>5. ASSUME NEW k \in S, NEW l \in S, k < l
      PROVE  Cardinality(UpTo(S, k)) < Cardinality(UpTo(S, l))
  <2>1. UpTo(S, k) \in SUBSET UpTo(S, l) /\ l \in UpTo(S, l) /\ l \notin UpTo(S, k)
    <3>1. (\A j \in S : j <= k => j <= l) /\ l <= l /\ ~(l <= k)
      BY ONLY <1>0, <1>5, k \in S, l \in S
    <3> QED BY <3>1 DEF UpTo
  <2>2. /\ Cardinality(UpTo(S, k)) <= Cardinality(UpTo(S, l))
        /\ Cardinality(UpTo(S, l)) = Cardinality(UpTo(S, k)) => UpTo(S, l) = UpTo(S, k)
    BY <1>4, <2>1, FS_Subset
  <2>3. Cardinality(UpTo(S, k)) \in Nat /\ Cardinality(UpTo(S, l)) \in Nat
    BY <1>4
  <2> QED BY <2>1, <2>2, <2>3
<1> QED BY <1>2, <1>3, <1>4, <1>5

\* Every rank is the rank of a place.
LEMMA RankTaken ==
  ASSUME NEW N \in Nat, NEW S \in SUBSET (1 .. N), NEW i \in 1 .. Cardinality(S)
  PROVE  \E k \in S : Cardinality(UpTo(S, k)) = i
<1> DEFINE R(k) == Cardinality(UpTo(S, k))
           Q == {k \in S : R(k) >= i}
<1>0. \A k \in S : k \in Nat
  OBVIOUS
<1>1. /\ IsFiniteSet(S) /\ Cardinality(S) \in Nat
      /\ \A k \in S : IsFiniteSet(UpTo(S, k)) /\ R(k) \in Nat
  BY Ranks
<1>2. S # {}
  BY <1>1, FS_EmptySet
<1>3. Q # {}
  <2>1. PICK m \in S : \A k \in S : k <= m
    BY <1>2, LastExists
  <2>2. UpTo(S, m) = S
    BY <2>1 DEF UpTo
  <2>3. R(m) >= i
    BY <1>1, <2>2
  <2> QED BY <2>3
<1>4. PICK k \in Q : \A l \in Q : k <= l
  <2>1. Q \in SUBSET Nat
    BY <1>0
  <2> HIDE DEF Q
  <2> QED BY <1>3, <2>1, LeastExists
<1> DEFINE P == UpTo(S, k) \ {k}
<1>5. k \in UpTo(S, k) /\ R(k) \in Nat /\ R(k) >= i
  BY <1>1, <1>4 DEF UpTo
<1>6. IsFiniteSet(P) /\ Cardinality(P) = R(k) - 1
  BY <1>1, <1>4, <1>5, FS_RemoveElement
<1>7. Cardinality(P) < i
  <2>1. CASE P = {}
    BY <2>1, FS_EmptySet
  <2>2. CASE P # {}
    <3>1. P \in SUBSET (1 .. N)
      BY DEF UpTo
    <3>2. PICK m \in P : \A j \in P : j <= m
      <4> HIDE DEF P
      <4> QED BY <2>2, <3>1, LastExists
    <3>3. m \in S /\ m < k
      BY <1>4, <3>2 DEF UpTo
    <3>4. UpTo(S, m) = P
      <4>1. \A j \in S : j <= m => j <= k /\ j # k
        BY <1>0, <1>4, <3>3
      <4>2. \A j \in S : j \in P => j <= m
        BY <3>2
      <4> HIDE DEF Q
      <4> QED BY <4>1, <4>2 DEF UpTo
    <3>5. m \notin Q
      BY <1>4, <3>3
    <3>6. R(m) < i
      BY <1>1, <3>3, <3>5
    <3> QED BY <3>4, <3>6
  <2> QED BY <2>1, <2>2
<1>8. R(k) = i
  <2> HIDE DEF R, P
  <2> QED BY ONLY <1>5, <1>6, <1>7, i \in 1 .. Cardinality(S), <1>1
<1> QED BY <1>4, <1>8

\* Counting the places of S from the least up runs through them in order.
RanksOrder(S) ==
  \E f \in [1 .. Cardinality(S) -> S] :
    /\ \A i \in 1 .. Cardinality(S) :
         f[i] = CHOOSE k \in S : Cardinality({j \in S : j <= k}) = i
    /\ \A i, j \in 1 .. Cardinality(S) : i < j => f[i] < f[j]

\* The ranks of a finite set of places put them in order.
LEMMA NthPlaces ==
  ASSUME NEW N \in Nat, NEW S \in SUBSET (1 .. N)
  PROVE  RanksOrder(S)
<1> DEFINE R(k) == Cardinality({j \in S : j <= k})
           f == [i \in 1 .. Cardinality(S) |-> CHOOSE k \in S : R(k) = i]
<1>0. \A k \in S : k \in Int
  OBVIOUS
<1>1. \A k \in S : R(k) = Cardinality(UpTo(S, k))
  BY DEF UpTo
<1>2. ASSUME NEW i \in 1 .. Cardinality(S) PROVE f[i] \in S /\ R(f[i]) = i
  <2>1. \E k \in S : R(k) = i
    BY <1>1, RankTaken
  <2> QED BY <2>1
<1>3. ASSUME NEW i \in 1 .. Cardinality(S), NEW j \in 1 .. Cardinality(S), i < j
      PROVE  f[i] < f[j]
  <2>1. f[i] \in S /\ f[j] \in S /\ R(f[i]) = i /\ R(f[j]) = j
    BY <1>2
  <2>2. f[j] < f[i] => R(f[j]) < R(f[i])
    BY <1>1, <2>1, Ranks
  <2> HIDE DEF f, R
  <2>3. i \in Int /\ j \in Int /\ f[i] \in Int /\ f[j] \in Int
    <3>1. Cardinality(S) \in Nat
      BY Ranks
    <3>2. i \in Int /\ j \in Int
      BY ONLY <3>1, i \in 1 .. Cardinality(S), j \in 1 .. Cardinality(S)
    <3> QED BY ONLY <1>0, <2>1, <3>2
  <2>4. f[i] # f[j]
    BY <1>3, <2>1, <2>3
  <2> QED BY ONLY <1>3, <2>1, <2>2, <2>3, <2>4
<1>4. f \in [1 .. Cardinality(S) -> S]
  BY <1>2
<1> QED BY <1>3, <1>4 DEF RanksOrder

----------------------------------------------------------------------------
(* The reactor: what is on its way.                                        *)

Completions == [ud : Nat, n : Nat, dropped : BOOLEAN]

Submissions == [op : {"READ", "SUB", "CANCEL"}, ud : Nat]

\* The events of queue D come before those of queue C, each in order, all of
\* them after what has been heard, H, and none from after I.
InOrder(D, C, H, I) ==
  /\ \A i \in 1 .. Len(D) : D[i].ud \in Streams => D[i].n > H[D[i].ud] /\ D[i].n <= I
  /\ \A i \in 1 .. Len(C) : C[i].ud \in Streams => C[i].n > H[C[i].ud] /\ C[i].n <= I
  /\ \A i, j \in 1 .. Len(D) : i < j /\ D[i].ud \in Streams /\ D[i].ud = D[j].ud => D[i].n < D[j].n
  /\ \A i, j \in 1 .. Len(C) : i < j /\ C[i].ud \in Streams /\ C[i].ud = C[j].ud => C[i].n < C[j].n
  /\ \A i \in 1 .. Len(D), j \in 1 .. Len(C) :
       D[i].ud \in Streams /\ D[i].ud = C[j].ud => D[i].n < C[j].n

\* A child of a future: a stream's has nothing to post.
Kids == [ud : Nat, want : Int, count : Int, posted : BOOLEAN]

\* A read's cookie is none of a stream.
ReadsApart(q) == \A i \in 1 .. Len(q) : q[i].op = "READ" => q[i].ud \notin Streams

ReactorTypes ==
  /\ next_ud \in Nat /\ \A u \in Nat : u >= next_ud => u \notin Streams
  /\ fut.kids \in Seq(Kids)
  /\ \A k \in 1 .. Len(fut.kids) : fut.kids[k].ud \in Streams => fut.kids[k].posted
  /\ sq \in Seq(Submissions) /\ ReadsApart(sq)
  /\ in_flight \in SUBSET (Nat \ Streams) /\ IsFiniteSet(in_flight)
  /\ Cardinality(in_flight) <= PoolLen
  /\ done \in Seq(Completions) /\ Len(done) <= TableLen
  /\ cq \in Seq(Completions)
  /\ skipped \in [Streams -> Nat] /\ heard \in [Streams -> Nat] /\ input \in Nat

\* The inductive invariant.
ReactorInv ==
  /\ ReactorTypes /\ InOrder(done, cq, heard, input) /\ \A s \in Streams : heard[s] <= input

\* It is enough.
LEMMA InOrderEnough == ReactorInv => StreamHeardInOrder
<1> SUFFICES ASSUME ReactorInv PROVE StreamHeardInOrder
  OBVIOUS
<1>1. done \in Seq(Completions) /\ cq \in Seq(Completions) /\ InOrder(done, cq, heard, input)
  BY DEF ReactorInv, ReactorTypes
<1> DEFINE w == done \o cq
           d == Len(done)
           c == Len(cq)
<1>2. d \in Nat /\ c \in Nat
  BY <1>1
<1>3. /\ Len(w) = d + c
      /\ \A i \in 1 .. d + c : w[i] = IF i <= d THEN done[i] ELSE cq[i - d]
  BY <1>1
<1> SUFFICES ASSUME NEW s \in Streams, NEW j \in 1 .. d + c, w[j].ud = s
             PROVE  /\ w[j].n > heard[s]
                    /\ \A i \in 1 .. j - 1 : w[i].ud = s => w[i].n < w[j].n
  BY <1>3 DEF StreamHeardInOrder, OnTheWay
<1> HIDE DEF w, d, c
<1>4. CASE j <= d
  <2>1. j \in 1 .. d /\ w[j] = done[j]
    BY <1>2, <1>3, <1>4
  <2>2. \A i \in 1 .. j - 1 : i \in 1 .. d /\ i < j /\ w[i] = done[i]
    BY <1>2, <1>3, <1>4
  <2> QED BY <1>1, <2>1, <2>2 DEF InOrder, d
<1>5. CASE ~(j <= d)
  <2>1. j - d \in 1 .. c /\ w[j] = cq[j - d]
    BY <1>2, <1>3, <1>5
  <2>2. ASSUME NEW i \in 1 .. j - 1, w[i].ud = s PROVE w[i].n < w[j].n
    <3>1. CASE i <= d
      <4>1. i \in 1 .. d /\ w[i] = done[i]
        BY <1>2, <1>3, <3>1
      <4> QED BY <1>1, <2>1, <2>2, <4>1 DEF InOrder, d, c
    <3>2. CASE ~(i <= d)
      <4>1. i - d \in 1 .. c /\ i - d < j - d /\ w[i] = cq[i - d]
        BY <1>2, <1>3, <3>2
      <4> QED BY <1>1, <2>1, <2>2, <4>1 DEF InOrder, d, c
    <3> QED BY <3>1, <3>2
  <2> QED BY <1>1, <2>1, <2>2 DEF InOrder, c
<1> QED BY <1>4, <1>5

----------------------------------------------------------------------------
(* The reactor: the poll of a future.                                      *)

\* What a poll takes, and what is left of the table.
LEMMA PollTakes ==
  ASSUME ReactorInv
  PROVE  /\ AllTaken \in SUBSET (1 .. Len(done))
         /\ \A i \in AllTaken, j \in 1 .. Len(done) :
              j < i /\ done[j].ud = done[i].ud => j \in AllTaken
         /\ \A k \in 1 .. Len(fut.kids) : Takes(fut.kids[k]) \in Int
<1>1. Len(done) \in Nat /\ fut.kids \in Seq(Kids)
  BY DEF ReactorInv, ReactorTypes
<1>2. ASSUME NEW u
      PROVE  /\ Staged(u) \in SUBSET (1 .. Len(done)) /\ IsFiniteSet(Staged(u))
             /\ Cardinality(Staged(u)) \in Nat
             /\ \A i, j \in Staged(u) : j < i =>
                  /\ Cardinality({l \in Staged(u) : l <= j}) <= Cardinality({l \in Staged(u) : l <= i})
                  /\ Cardinality({l \in Staged(u) : l <= j}) \in Nat
                  /\ Cardinality({l \in Staged(u) : l <= i}) \in Nat
  <2>1. Staged(u) \in SUBSET (1 .. Len(done))
    BY DEF Staged
  <2>2. /\ IsFiniteSet(Staged(u)) /\ Cardinality(Staged(u)) \in Nat
        /\ \A k \in Staged(u) : Cardinality(UpTo(Staged(u), k)) \in Nat
        /\ \A k, l \in Staged(u) : k < l =>
             Cardinality(UpTo(Staged(u), k)) < Cardinality(UpTo(Staged(u), l))
    BY <1>1, <2>1, Ranks
  <2>3. \A k : UpTo(Staged(u), k) = {l \in Staged(u) : l <= k}
    BY DEF UpTo
  <2>4. \A i, j \in Staged(u) : j < i =>
          /\ Cardinality(UpTo(Staged(u), j)) <= Cardinality(UpTo(Staged(u), i))
          /\ Cardinality(UpTo(Staged(u), j)) \in Nat
          /\ Cardinality(UpTo(Staged(u), i)) \in Nat
    BY <2>2
  <2> QED BY <2>1, <2>2, <2>3, <2>4
<1>3. ASSUME NEW k \in 1 .. Len(fut.kids) PROVE Takes(fut.kids[k]) \in Int
  <2>1. fut.kids[k] \in Kids
    BY <1>1
  <2>2. fut.kids[k].want \in Int /\ fut.kids[k].count \in Int
    BY <2>1 DEF Kids
  <2>3. Cardinality(Staged(fut.kids[k].ud)) \in Nat
    BY <1>2
  <2> QED BY <2>2, <2>3 DEF Takes, Lesser
<1>4. ASSUME NEW k \in 1 .. Len(fut.kids)
      PROVE  /\ Taken(k) \in SUBSET Staged(fut.kids[k].ud)
             /\ \A i \in Taken(k), j \in Staged(fut.kids[k].ud) : j < i => j \in Taken(k)
  <2> DEFINE u == fut.kids[k].ud
             T == Takes(fut.kids[k])
             R(i) == Cardinality({l \in Staged(u) : l <= i})
  <2>1. Taken(k) = {i \in Staged(u) : R(i) <= T}
    BY DEF Taken
  <2>2. T \in Int
    BY <1>3
  <2>3. \A i, j \in Staged(u) : j < i => R(j) <= R(i) /\ R(j) \in Nat /\ R(i) \in Nat
    BY <1>2
  <2> HIDE DEF u, T, R
  <2>4. \A i \in Taken(k), j \in Staged(u) : j < i => j \in Taken(k)
    BY <2>1, <2>2, <2>3
  <2> QED BY <2>1, <2>4 DEF u
<1>5. PolledKids \in SUBSET (1 .. Len(fut.kids))
  BY DEF PolledKids
<1>6. AllTaken \in SUBSET (1 .. Len(done))
  BY <1>2, <1>4, <1>5 DEF AllTaken
<1>7. ASSUME NEW i \in AllTaken, NEW j \in 1 .. Len(done), j < i, done[j].ud = done[i].ud
      PROVE  j \in AllTaken
  <2>1. PICK k \in PolledKids : i \in Taken(k)
    BY DEF AllTaken
  <2>2. i \in Staged(fut.kids[k].ud)
    BY <1>4, <1>5, <2>1
  <2>3. j \in Staged(fut.kids[k].ud)
    BY <1>7, <2>2 DEF Staged
  <2>4. j \in Taken(k)
    BY <1>4, <1>5, <1>7, <2>1, <2>3
  <2> QED BY <2>1, <2>4 DEF AllTaken
<1> QED BY <1>3, <1>6, <1>7

\* What is left of the table: its entries in their order.
LEMMA PollLeaves ==
  ASSUME ReactorInv
  PROVE  /\ WithoutTaken \in Seq(Completions) /\ Len(WithoutTaken) <= Len(done)
         /\ \E f \in [1 .. Len(WithoutTaken) -> (1 .. Len(done)) \ AllTaken] :
              /\ \A i \in 1 .. Len(WithoutTaken) : WithoutTaken[i] = done[f[i]]
              /\ \A i, j \in 1 .. Len(WithoutTaken) : i < j => f[i] < f[j]
<1> DEFINE S == (1 .. Len(done)) \ AllTaken
           c == Cardinality(S)
           Nth(i) == CHOOSE k \in S : Cardinality({j \in S : j <= k}) = i
<1>1. done \in Seq(Completions) /\ Len(done) \in Nat /\ S \in SUBSET (1 .. Len(done))
  BY DEF ReactorInv, ReactorTypes
<1>2. c \in Nat /\ c <= Len(done)
  <2> HIDE DEF S
  <2> QED BY <1>1, Ranks
<1>3. PICK f \in [1 .. c -> S] :
        /\ \A i \in 1 .. c : f[i] = Nth(i)
        /\ \A i, j \in 1 .. c : i < j => f[i] < f[j]
  <2> HIDE DEF S
  <2>1. RanksOrder(S)
    BY <1>1, NthPlaces
  <2> QED BY ONLY <2>1 DEF RanksOrder
<1>4. WithoutTaken = [i \in 1 .. c |-> done[Nth(i)]]
  BY DEF WithoutTaken
<1> HIDE DEF c, Nth
<1>5. WithoutTaken = [i \in 1 .. c |-> done[f[i]]]
  <2> HIDE DEF S
  <2> QED BY <1>3, <1>4
<1>6. \A i \in 1 .. c : f[i] \in 1 .. Len(done) /\ done[f[i]] \in Completions
  BY <1>1, <1>3
<1> HIDE DEF S
<1>7. WithoutTaken \in Seq(Completions) /\ Len(WithoutTaken) = c
      /\ \A i \in 1 .. c : WithoutTaken[i] = done[f[i]]
  BY <1>2, <1>5, <1>6
<1>8. f \in [1 .. Len(WithoutTaken) -> S]
  BY <1>3, <1>7
<1> QED BY <1>2, <1>3, <1>7, <1>8 DEF S

\* A poll keeps the order, and what is heard moves on to what was taken last.
LEMMA PollKeepsOrder ==
  ASSUME ReactorInv, NEW H, H = [s \in Streams |-> HeardOf(s)]
  PROVE  /\ H \in [Streams -> Nat] /\ \A s \in Streams : H[s] <= input
         /\ InOrder(WithoutTaken, cq, H, input)
<1>1. /\ done \in Seq(Completions) /\ cq \in Seq(Completions) /\ Len(done) \in Nat
      /\ heard \in [Streams -> Nat] /\ InOrder(done, cq, heard, input) /\ input \in Nat
      /\ \A s \in Streams : heard[s] <= input
  BY DEF ReactorInv, ReactorTypes
<1>2. ASSUME NEW s \in Streams
      PROVE  \/ HeardOf(s) = heard[s] /\ \A i \in AllTaken : done[i].ud # s
             \/ \E m \in AllTaken : /\ done[m].ud = s /\ HeardOf(s) = done[m].n
                                    /\ \A i \in AllTaken : done[i].ud = s => i <= m
  <2> DEFINE T == {i \in AllTaken : done[i].ud = s}
  <2>1. HeardOf(s) = IF T = {} THEN heard[s] ELSE done[CHOOSE i \in T : \A j \in T : j <= i].n
    BY DEF HeardOf
  <2>2. T \in SUBSET (1 .. Len(done))
    BY PollTakes
  <2>3. CASE T = {}
    BY <2>1, <2>3
  <2>4. CASE T # {}
    <3> DEFINE m == CHOOSE i \in T : \A j \in T : j <= i
    <3>1. \E i \in T : \A j \in T : j <= i
      <4> HIDE DEF T
      <4> QED BY <1>1, <2>2, <2>4, LastExists
    <3>2. m \in T /\ \A j \in T : j <= m
      <4> HIDE DEF T
      <4> QED BY <3>1
    <3>3. HeardOf(s) = done[m].n
      BY <2>1, <2>4
    <3> HIDE DEF m
    <3> QED BY <3>2, <3>3
  <2> QED BY <2>3, <2>4
<1>3. AllTaken \in SUBSET (1 .. Len(done))
  BY PollTakes
<1>4. \A i \in 1 .. Len(done) : done[i].n \in Nat /\ done[i].ud \in Nat
  <2>1. \A i \in 1 .. Len(done) : done[i] \in Completions
    BY <1>1
  <2> QED BY <2>1 DEF Completions
<1>5. \A i \in 1 .. Len(cq) : cq[i].n \in Nat /\ cq[i].ud \in Nat
  <2>1. \A i \in 1 .. Len(cq) : cq[i] \in Completions
    BY <1>1
  <2> QED BY <2>1 DEF Completions
<1>6. ASSUME NEW s \in Streams
      PROVE  H[s] \in Nat /\ H[s] <= input
  <2>1. H[s] = HeardOf(s)
    OBVIOUS
  <2>2. CASE HeardOf(s) = heard[s]
    BY <1>1, <2>1, <2>2
  <2>3. ASSUME NEW m \in AllTaken, done[m].ud = s, HeardOf(s) = done[m].n
        PROVE  H[s] \in Nat /\ H[s] <= input
    BY <1>1, <1>3, <1>4, <2>1, <2>3 DEF InOrder
  <2> QED BY <1>2, <2>2, <2>3
<1>7. ASSUME NEW i \in (1 .. Len(done)) \ AllTaken, done[i].ud \in Streams
      PROVE  done[i].n > H[done[i].ud]
  <2> DEFINE s == done[i].ud
  <2>1. H[s] = HeardOf(s)
    BY <1>7
  <2>2. CASE HeardOf(s) = heard[s]
    BY <1>1, <1>7, <2>1, <2>2 DEF InOrder
  <2>3. ASSUME NEW m \in AllTaken, done[m].ud = s, HeardOf(s) = done[m].n
        PROVE  done[i].n > H[s]
    <3>1. ~(i < m)
      BY <1>3, <2>3, PollTakes
    <3>2. i \in Int /\ m \in Int /\ i # m /\ m \in 1 .. Len(done)
      BY <1>3, <2>3
    <3>3. m < i
      BY ONLY <3>1, <3>2
    <3>4. done[m].n < done[i].n
      BY <1>1, <1>7, <2>3, <3>2, <3>3 DEF InOrder
    <3> QED BY <1>4, <2>1, <2>3, <3>2, <3>4
  <2> QED BY <1>2, <1>7, <2>2, <2>3
<1>8. ASSUME NEW j \in 1 .. Len(cq), cq[j].ud \in Streams
      PROVE  cq[j].n > H[cq[j].ud]
  <2> DEFINE s == cq[j].ud
  <2>1. H[s] = HeardOf(s)
    BY <1>8
  <2>2. CASE HeardOf(s) = heard[s]
    BY <1>1, <1>8, <2>1, <2>2 DEF InOrder
  <2>3. ASSUME NEW m \in AllTaken, done[m].ud = s, HeardOf(s) = done[m].n
        PROVE  cq[j].n > H[s]
    <3>1. m \in 1 .. Len(done)
      BY <1>3, <2>3
    <3>2. done[m].n < cq[j].n
      BY <1>1, <1>8, <2>3, <3>1 DEF InOrder
    <3> QED BY <1>4, <1>5, <2>1, <2>3, <3>1, <3>2
  <2> QED BY <1>2, <1>8, <2>2, <2>3
<1> DEFINE W == WithoutTaken
<1>9. PICK f \in [1 .. Len(W) -> (1 .. Len(done)) \ AllTaken] :
        /\ \A i \in 1 .. Len(W) : W[i] = done[f[i]]
        /\ \A i, j \in 1 .. Len(W) : i < j => f[i] < f[j]
  BY PollLeaves
<1> HIDE DEF W
<1>10. \A i \in 1 .. Len(W) : f[i] \in (1 .. Len(done)) \ AllTaken /\ f[i] \in 1 .. Len(done)
  BY <1>9
<1>11. InOrder(W, cq, H, input)
  <2>1. \A i \in 1 .. Len(W) : W[i].ud \in Streams => W[i].n > H[W[i].ud] /\ W[i].n <= input
    BY <1>1, <1>7, <1>9, <1>10 DEF InOrder
  <2>2. \A i, j \in 1 .. Len(W) :
          i < j /\ W[i].ud \in Streams /\ W[i].ud = W[j].ud => W[i].n < W[j].n
    BY <1>1, <1>9, <1>10 DEF InOrder
  <2>3. \A i \in 1 .. Len(W), j \in 1 .. Len(cq) :
          W[i].ud \in Streams /\ W[i].ud = cq[j].ud => W[i].n < cq[j].n
    BY <1>1, <1>9, <1>10 DEF InOrder
  <2> QED BY <1>1, <1>8, <2>1, <2>2, <2>3 DEF InOrder
<1> QED BY <1>6, <1>11 DEF W

----------------------------------------------------------------------------
(* The reactor: the drain.                                                 *)

\* The places of the reads among the first n entries.
ReadsIn(q, n) == {i \in 1 .. n : q[i].op = "READ"}

\* The drain stops where the pool is full.
LEMMA DrainStops ==
  ASSUME NEW q \in Seq(Submissions), IsFiniteSet(in_flight), Cardinality(in_flight) <= PoolLen
  PROVE  /\ DrainLen(q) \in 0 .. Len(q)
         /\ IsFiniteSet(ReadsIn(q, DrainLen(q)))
         /\ Cardinality(ReadsIn(q, DrainLen(q))) + Cardinality(in_flight) <= PoolLen
<1> DEFINE fits(n) == Cardinality(ReadsIn(q, n)) + Cardinality(in_flight) <= PoolLen
           A == {n \in 0 .. Len(q) : n < Len(q) => ~fits(n + 1)}
<1>1. Len(q) \in Nat /\ PoolLen \in Nat /\ Cardinality(in_flight) \in Nat
  BY ReactorAssumption, FS_CardinalityType
<1>2. PICK n \in A : \A m \in A : n <= m
  <2>1. A \in SUBSET Nat
    BY <1>1
  <2>2. Len(q) \in A
    BY <1>1
  <2> HIDE DEF A
  <2> QED BY <2>1, <2>2, LeastExists
<1>3. n \in 0 .. Len(q) /\ n \in Nat /\ (n < Len(q) => ~fits(n + 1))
  BY <1>1, <1>2
<1>4. fits(n)
  <2>1. CASE n = 0
    <3>1. ReadsIn(q, 0) = {}
      BY DEF ReadsIn
    <3>2. Cardinality(ReadsIn(q, n)) = 0
      BY <2>1, <3>1, FS_EmptySet
    <3> QED BY <1>1, <3>2
  <2>2. CASE n # 0
    <3>1. n - 1 \in 0 .. Len(q) /\ n - 1 < Len(q) /\ ~(n <= n - 1) /\ (n - 1) + 1 = n
      BY <1>1, <1>3, <2>2
    <3>2. n - 1 \notin A
      BY <1>2, <3>1
    <3>3. fits((n - 1) + 1)
      BY <3>1, <3>2
    <3> QED BY <3>1, <3>3
  <2> QED BY <2>1, <2>2
<1>5. DrainLen(q) = CHOOSE k \in 0 .. Len(q) : fits(k) /\ (k < Len(q) => ~fits(k + 1))
  BY DEF DrainLen, ReadsIn
<1>6. DrainLen(q) \in 0 .. Len(q) /\ fits(DrainLen(q))
  <2> HIDE DEF fits, A
  <2> QED BY <1>3, <1>4, <1>5
<1>7. IsFiniteSet(ReadsIn(q, DrainLen(q)))
  <2>1. ReadsIn(q, DrainLen(q)) \in SUBSET (1 .. DrainLen(q)) /\ DrainLen(q) \in Int
    BY <1>1, <1>6 DEF ReadsIn
  <2>2. 1 \in Int /\ IsFiniteSet(1 .. DrainLen(q))
    BY <2>1, FS_Interval
  <2> QED BY <2>1, <2>2, FS_Subset
<1> QED BY <1>6, <1>7

\* What a drain does to the kernel's side and to the queue.
LEMMA DrainKeeps ==
  ASSUME ReactorTypes, NEW q \in Seq(Submissions), ReadsApart(q), Drain(q, DrainLen(q))
  PROVE  /\ in_flight' \in SUBSET (Nat \ Streams) /\ IsFiniteSet(in_flight')
         /\ Cardinality(in_flight') <= PoolLen
         /\ skipped' \in [Streams -> Nat]
         /\ sq' \in Seq(Submissions) /\ ReadsApart(sq')
<1> DEFINE n == DrainLen(q)
           taken == SubSeq(q, 1, n)
           R == ReadsIn(q, n)
           N == Named(taken, "READ")
<1>1. /\ in_flight \in SUBSET (Nat \ Streams) /\ IsFiniteSet(in_flight)
      /\ Cardinality(in_flight) <= PoolLen /\ skipped \in [Streams -> Nat]
  BY DEF ReactorTypes
<1>2. /\ n \in 0 .. Len(q) /\ IsFiniteSet(R)
      /\ Cardinality(R) + Cardinality(in_flight) <= PoolLen
  BY <1>1, DrainStops
<1>3. /\ in_flight' = in_flight \cup N
      /\ skipped' = [s \in Streams |-> IF s \in Named(taken, "SUB") THEN 0 ELSE skipped[s]]
      /\ sq' = SubSeq(q, n + 1, Len(q))
  BY DEF Drain
<1>n. Len(q) \in Nat /\ n \in Nat
  BY <1>2
<1> HIDE DEF n, R
<1>4. Len(taken) = n /\ \A i \in 1 .. n : taken[i] = q[i]
  BY <1>2, <1>n
<1>5. N = {q[i].ud : i \in R}
  <2>1. {j \in 1 .. Len(taken) : taken[j].op = "READ"} = R
    <3> HIDE DEF taken
    <3> QED BY <1>4 DEF R, ReadsIn
  <2>2. N = {taken[i].ud : i \in R}
    BY <2>1 DEF Named
  <2>3. \A i \in R : taken[i] = q[i]
    BY <1>4 DEF R, ReadsIn
  <2> HIDE DEF taken
  <2> QED BY <2>2, <2>3
<1> HIDE DEF taken, N
<1>6. \A i \in 1 .. Len(q) : q[i] \in Submissions /\ q[i].ud \in Nat
  <2>1. \A i \in 1 .. Len(q) : q[i] \in Submissions
    OBVIOUS
  <2> QED BY <2>1 DEF Submissions
<1>7. \A i \in R : i \in 1 .. Len(q) /\ q[i].op = "READ"
  BY <1>2, <1>n DEF R, ReadsIn
<1>8. N \in SUBSET (Nat \ Streams)
  BY <1>5, <1>6, <1>7 DEF ReadsApart
<1>9. IsFiniteSet(N) /\ Cardinality(N) <= Cardinality(R)
  <2> DEFINE f == [i \in R |-> q[i].ud]
  <2>1. f \in Surjection(R, N)
    BY <1>5 DEF Surjection
  <2> QED BY <1>2, <2>1, FS_Surjection
<1>10. IsFiniteSet(in_flight') /\ Cardinality(in_flight') <= PoolLen
  <2> DEFINE X == in_flight \cap N
  <2>1. /\ IsFiniteSet(in_flight \cup N)
        /\ Cardinality(in_flight \cup N) = Cardinality(in_flight) + Cardinality(N) - Cardinality(X)
    BY <1>1, <1>9, FS_Union
  <2>2. X \in SUBSET N
    OBVIOUS
  <2>3. IsFiniteSet(X)
    BY <1>9, <2>2, FS_Subset
  <2>4. /\ Cardinality(in_flight) \in Nat /\ Cardinality(N) \in Nat /\ Cardinality(X) \in Nat
        /\ Cardinality(R) \in Nat
    BY <1>1, <1>2, <1>9, <2>3, FS_CardinalityType
  <2>5. PoolLen \in Nat
    BY ReactorAssumption
  <2> HIDE DEF X
  <2>6. Cardinality(in_flight \cup N) <= PoolLen
    BY ONLY <1>2, <1>9, <2>1, <2>4, <2>5
  <2> QED BY <1>3, <2>1, <2>6
<1>11. skipped' \in [Streams -> Nat]
  BY <1>1, <1>3
<1>12. sq' \in Seq(Submissions) /\ \A i \in 1 .. Len(sq') : i + n \in 1 .. Len(q) /\ sq'[i] = q[i + n]
  <2>1. sq' \in Seq(Submissions) /\ Len(sq') = Len(q) - n
    BY <1>2, <1>3, <1>n
  <2>2. \A i \in 1 .. Len(q) - n : sq'[i] = q[i + n]
    BY <1>2, <1>3, <1>n
  <2>3. \A i \in 1 .. Len(q) - n : i + n \in 1 .. Len(q)
    BY ONLY <1>2, <1>n
  <2> QED BY <2>1, <2>2, <2>3
<1>13. ReadsApart(sq')
  BY <1>12 DEF ReadsApart
<1> QED BY <1>1, <1>3, <1>8, <1>10, <1>11, <1>12, <1>13

----------------------------------------------------------------------------
(* The reactor: every step.                                                *)

\* What a step that touches only the kernel's side or the program's place keeps.
LEMMA QueuesAlone ==
  ASSUME ReactorInv, ReactorTypes', UNCHANGED <<done, cq, heard, input>>
  PROVE  ReactorInv'
BY DEF ReactorInv, InOrder

\* A new future.
LEMMA StartKeeps ==
  ASSUME ReactorInv, NEW any, NEW kids \in Seq(Kids), NEW drawn \in Nat,
         \A k \in 1 .. Len(kids) : kids[k].ud \in Streams => kids[k].posted,
         Start(any, kids, drawn)
  PROVE  ReactorInv'
<1>1. /\ fut' = [any |-> any, kids |-> kids] /\ next_ud' = next_ud + drawn
      /\ UNCHANGED <<sq, cq, done, in_flight, skipped, input, heard>>
  BY DEF Start, kernelSide
<1>2. fut'.kids = kids
  BY <1>1
<1>3. next_ud' \in Nat /\ \A u \in Nat : u >= next_ud' => u \notin Streams
  <2>1. next_ud \in Nat /\ \A u \in Nat : u >= next_ud => u \notin Streams
    BY DEF ReactorInv, ReactorTypes
  <2>2. next_ud' = next_ud + drawn
    BY <1>1
  <2>3. next_ud' \in Nat /\ \A u \in Nat : u >= next_ud' => u >= next_ud
    BY ONLY <2>1, <2>2, drawn \in Nat
  <2> QED BY ONLY <2>1, <2>3
<1>4. ReactorTypes'
  BY <1>1, <1>2, <1>3 DEF ReactorInv, ReactorTypes, ReadsApart
<1> QED BY <1>1, <1>4, QueuesAlone

\* What the programs start.
LEMMA ProgramKeeps ==
  ASSUME ReactorInv, ProgramStarts
  PROVE  ReactorInv'
<1>0. /\ next_ud \in Nat /\ \A u \in Nat : u >= next_ud => u \notin Streams
      /\ Streams \in SUBSET Nat /\ PoolLen \in Nat
  BY ReactorAssumption DEF ReactorInv, ReactorTypes
<1>1. ASSUME NEW u \in Nat, u >= next_ud
      PROVE  ReadKid(u) \in Kids /\ ReadKid(u).ud \notin Streams
  BY <1>0, <1>1 DEF ReadKid, Kids
<1>2. ASSUME NEW s \in Streams, NEW n \in 1 .. 2
      PROVE  EventKid(s, n) \in Kids /\ EventKid(s, n).posted
  BY <1>0 DEF EventKid, Kids
<1>3. ASSUME NEW n \in 1 .. PoolLen + 1, BlockOnJoin(n)
      PROVE  ReactorInv'
  <2> DEFINE kids == [i \in 1 .. n |-> ReadKid(next_ud + i - 1)]
  <2>0. n \in Nat
    BY <1>0
  <2>1. Start(FALSE, kids, n)
    BY <1>3 DEF BlockOnJoin
  <2>2. \A i \in 1 .. n : next_ud + i - 1 \in Nat /\ next_ud + i - 1 >= next_ud
    BY <1>0
  <2>3. \A i \in 1 .. n : kids[i] \in Kids /\ kids[i].ud \notin Streams
    BY <1>1, <2>2
  <2>4. kids \in Seq(Kids) /\ Len(kids) = n
    BY <2>0, <2>3
  <2> HIDE DEF kids
  <2>5. \A k \in 1 .. Len(kids) : kids[k].ud \in Streams => kids[k].posted
    BY <2>3, <2>4
  <2> QED BY <2>0, <2>1, <2>4, <2>5, StartKeeps
<1>4. ASSUME NEW s \in Streams, NEW n \in 1 .. 2, BlockOnCollect(s, n)
      PROVE  ReactorInv'
  <2> DEFINE kids == <<EventKid(s, n)>>
  <2>1. Start(FALSE, kids, 0)
    BY <1>4 DEF BlockOnCollect
  <2>2. kids \in Seq(Kids) /\ Len(kids) = 1 /\ kids[1].posted
    BY <1>2
  <2> HIDE DEF kids
  <2>3. \A k \in 1 .. Len(kids) : kids[k].ud \in Streams => kids[k].posted
    BY <2>2
  <2> QED BY <2>1, <2>2, <2>3, StartKeeps
<1>5. ASSUME NEW s \in Streams, NEW n \in 1 .. 2, BlockOnJoin2(s, n)
      PROVE  ReactorInv'
  <2> DEFINE kids == <<ReadKid(next_ud), EventKid(s, n)>>
  <2>1. Start(FALSE, kids, 1)
    BY <1>5 DEF BlockOnJoin2
  <2>2. ReadKid(next_ud) \in Kids /\ ReadKid(next_ud).ud \notin Streams
    BY <1>0, <1>1
  <2>3. kids \in Seq(Kids) /\ Len(kids) = 2 /\ kids[1].ud \notin Streams /\ kids[2].posted
    BY <1>2, <2>2
  <2> HIDE DEF kids
  <2>4. \A k \in 1 .. Len(kids) : kids[k].ud \in Streams => kids[k].posted
    BY <2>3
  <2> QED BY <2>1, <2>3, <2>4, StartKeeps
<1>6. ASSUME NEW a \in Streams, NEW b \in Streams, BlockOnSelect2(a, b)
      PROVE  ReactorInv'
  <2> DEFINE kids == <<EventKid(a, 1), EventKid(b, 1)>>
  <2>1. Start(TRUE, kids, 0)
    BY <1>6 DEF BlockOnSelect2
  <2>2. kids \in Seq(Kids) /\ Len(kids) = 2 /\ kids[1].posted /\ kids[2].posted
    BY <1>2
  <2> HIDE DEF kids
  <2>4. \A k \in 1 .. Len(kids) : kids[k].posted
    BY <2>2
  <2> QED BY <2>1, <2>2, <2>4, StartKeeps
<1>7. ASSUME NEW s \in Streams, CancelStream(s)
      PROVE  ReactorInv'
  <2> DEFINE e == [op |-> "CANCEL", ud |-> s]
             q == Append(sq, e)
  <2>1. Drain(q, DrainLen(q)) /\ UNCHANGED <<next_ud, fut, cq, done, input, heard>>
    BY <1>7 DEF CancelStream
  <2>2. sq \in Seq(Submissions) /\ ReadsApart(sq) /\ e \in Submissions /\ e.op # "READ"
    BY <1>0 DEF ReactorInv, ReactorTypes, Submissions
  <2> HIDE DEF e
  <2>3. q \in Seq(Submissions) /\ ReadsApart(q)
    <3>1. q \in Seq(Submissions) /\ Len(q) = Len(sq) + 1 /\ Len(sq) \in Nat
          /\ \A i \in 1 .. Len(sq) + 1 : q[i] = IF i <= Len(sq) THEN sq[i] ELSE e
      BY <2>2
    <3> HIDE DEF q
    <3>2. \A i \in 1 .. Len(sq) + 1 : i <= Len(sq) => i \in 1 .. Len(sq)
      BY <3>1
    <3> QED BY <2>2, <3>1, <3>2 DEF ReadsApart
  <2> HIDE DEF q
  <2>4. ReactorTypes
    BY DEF ReactorInv
  <2>5. /\ in_flight' \in SUBSET (Nat \ Streams) /\ IsFiniteSet(in_flight')
        /\ Cardinality(in_flight') <= PoolLen
        /\ skipped' \in [Streams -> Nat]
        /\ sq' \in Seq(Submissions) /\ ReadsApart(sq')
    BY <2>1, <2>3, <2>4, DrainKeeps
  <2>6. ReactorTypes'
    BY <2>1, <2>4, <2>5 DEF ReactorTypes, ReadsApart
  <2> QED BY <2>1, <2>6, QueuesAlone
<1> QED BY <1>3, <1>4, <1>5, <1>6, <1>7 DEF ProgramStarts

\* What a poll pushes: the entries of reads name no stream.
LEMMA PushedApart ==
  ASSUME ReactorTypes
  PROVE  Pushed \in Seq(Submissions) /\ ReadsApart(Pushed)
<1>1. ASSUME NEW k \in 1 .. Len(fut.kids)
      PROVE  /\ Push(k) \in Seq(Submissions) /\ ReadsApart(Push(k))
  <2> DEFINE kid == fut.kids[k]
  <2>1. kid \in Kids /\ (kid.ud \in Streams => kid.posted)
    BY DEF ReactorTypes
  <2>2. kid.ud \in Nat
    BY <2>1 DEF Kids
  <2> HIDE DEF kid
  <2>3. \/ Push(k) = <<>>
        \/ Push(k) = <<[op |-> "SUB", ud |-> kid.ud]>>
        \/ Push(k) = <<[op |-> "READ", ud |-> kid.ud]>> /\ ~kid.posted
    BY DEF Push, kid
  <2>4. CASE Push(k) = <<>>
    BY <2>4 DEF ReadsApart
  <2>5. CASE Push(k) = <<[op |-> "SUB", ud |-> kid.ud]>>
    BY <2>2, <2>5 DEF ReadsApart, Submissions
  <2>6. CASE Push(k) = <<[op |-> "READ", ud |-> kid.ud]>> /\ ~kid.posted
    BY <2>1, <2>2, <2>6 DEF ReadsApart, Submissions
  <2> QED BY <2>3, <2>4, <2>5, <2>6
<1> DEFINE p(k) == IF k <= Len(fut.kids) THEN Push(k) ELSE <<>>
<1>2. ASSUME NEW k \in 1 .. 3 PROVE p(k) \in Seq(Submissions) /\ ReadsApart(p(k))
  <2>0. Len(fut.kids) \in Nat
    BY DEF ReactorTypes
  <2>1. CASE k <= Len(fut.kids)
    <3>1. k \in 1 .. Len(fut.kids)
      BY <2>0, <2>1
    <3> QED BY <1>1, <2>1, <3>1
  <2>2. CASE ~(k <= Len(fut.kids))
    BY <2>2 DEF ReadsApart
  <2> QED BY <2>1, <2>2
<1>3. ASSUME NEW a \in Seq(Submissions), NEW b \in Seq(Submissions), ReadsApart(a), ReadsApart(b)
      PROVE  a \o b \in Seq(Submissions) /\ ReadsApart(a \o b)
  <2>1. /\ a \o b \in Seq(Submissions) /\ Len(a \o b) = Len(a) + Len(b)
        /\ Len(a) \in Nat /\ Len(b) \in Nat
        /\ \A i \in 1 .. Len(a) + Len(b) : (a \o b)[i] = IF i <= Len(a) THEN a[i] ELSE b[i - Len(a)]
    OBVIOUS
  <2>2. \A i \in 1 .. Len(a) + Len(b) : IF i <= Len(a) THEN i \in 1 .. Len(a)
                                        ELSE i - Len(a) \in 1 .. Len(b)
    BY <2>1
  <2> QED BY <1>3, <2>1, <2>2 DEF ReadsApart
<1>4. Pushed = (p(1) \o p(2)) \o p(3)
  BY DEF Pushed
<1> HIDE DEF p
<1>5. p(1) \o p(2) \in Seq(Submissions) /\ ReadsApart(p(1) \o p(2))
  BY <1>2, <1>3
<1>6. (p(1) \o p(2)) \o p(3) \in Seq(Submissions) /\ ReadsApart((p(1) \o p(2)) \o p(3))
  <2> DEFINE a == p(1) \o p(2)
  <2>1. a \in Seq(Submissions) /\ ReadsApart(a)
    BY <1>5
  <2>2. p(3) \in Seq(Submissions) /\ ReadsApart(p(3))
    BY <1>2
  <2> HIDE DEF a
  <2>3. a \o p(3) \in Seq(Submissions) /\ ReadsApart(a \o p(3))
    BY ONLY <1>3, <2>1, <2>2
  <2> QED BY <2>3 DEF a
<1> QED BY <1>4, <1>6

\* The poll of a future.
LEMMA PollKeeps ==
  ASSUME ReactorInv, PollFuture
  PROVE  ReactorInv'
<1>1. /\ sq' = sq \o Pushed /\ done' = WithoutTaken
      /\ heard' = [s \in Streams |-> HeardOf(s)]
      /\ fut' = IF FutReady(PolledFut) THEN NoFut ELSE PolledFut
      /\ UNCHANGED <<next_ud, cq, in_flight, skipped, input>>
  BY DEF PollFuture, kernelSide
<1>2. ReactorTypes
  BY DEF ReactorInv
<1>3. sq' \in Seq(Submissions) /\ ReadsApart(sq')
  <2> DEFINE b == Pushed
  <2>1. /\ b \in Seq(Submissions) /\ ReadsApart(b)
        /\ sq \in Seq(Submissions) /\ ReadsApart(sq)
    BY <1>2, PushedApart DEF ReactorTypes
  <2> HIDE DEF b
  <2>2. /\ sq \o b \in Seq(Submissions) /\ Len(sq \o b) = Len(sq) + Len(b)
        /\ Len(sq) \in Nat /\ Len(b) \in Nat
        /\ \A i \in 1 .. Len(sq) + Len(b) :
             (sq \o b)[i] = IF i <= Len(sq) THEN sq[i] ELSE b[i - Len(sq)]
    BY <2>1
  <2>3. \A i \in 1 .. Len(sq) + Len(b) : IF i <= Len(sq) THEN i \in 1 .. Len(sq)
                                         ELSE i - Len(sq) \in 1 .. Len(b)
    BY <2>2
  <2>4. sq' = sq \o b
    BY <1>1 DEF b
  <2> QED BY <2>1, <2>2, <2>3, <2>4 DEF ReadsApart
<1>4. /\ fut'.kids \in Seq(Kids)
      /\ \A k \in 1 .. Len(fut'.kids) : fut'.kids[k].ud \in Streams => fut'.kids[k].posted
  <2>1. CASE fut' = NoFut
    BY <2>1 DEF NoFut
  <2>2. CASE fut' = PolledFut
    <3> DEFINE New(k) == IF Polled(k) THEN [fut.kids[k] EXCEPT !.posted = TRUE,
                                                               !.count = @ + Takes(fut.kids[k])]
                         ELSE fut.kids[k]
               news == [k \in 1 .. Len(fut.kids) |-> New(k)]
    <3>1. fut.kids \in Seq(Kids) /\ Len(fut.kids) \in Nat
          /\ \A k \in 1 .. Len(fut.kids) : fut.kids[k].ud \in Streams => fut.kids[k].posted
      BY <1>2 DEF ReactorTypes
    <3>2. ASSUME NEW k \in 1 .. Len(fut.kids)
          PROVE  New(k) \in Kids /\ (New(k).ud \in Streams => New(k).posted)
      <4> DEFINE kid == fut.kids[k]
      <4>1. kid \in Kids /\ Takes(kid) \in Int /\ (kid.ud \in Streams => kid.posted)
        BY <3>1, PollTakes
      <4>2. kid.count + Takes(kid) \in Int
        BY <4>1 DEF Kids
      <4>3. New(k) = IF Polled(k) THEN [kid EXCEPT !.posted = TRUE, !.count = kid.count + Takes(kid)]
                     ELSE kid
        OBVIOUS
      <4> HIDE DEF kid, New
      <4> QED BY <4>1, <4>2, <4>3 DEF Kids
    <3>3. fut'.kids = news
      <4>1. fut' = [any |-> fut.any, kids |-> news]
        BY <2>2 DEF PolledFut
      <4> HIDE DEF news
      <4> QED BY <4>1
    <3> HIDE DEF New
    <3>4. news \in Seq(Kids) /\ Len(news) = Len(fut.kids)
          /\ \A k \in 1 .. Len(fut.kids) : news[k] = New(k)
      BY <3>1, <3>2
    <3> HIDE DEF news
    <3> QED BY <3>2, <3>3, <3>4
  <2> QED BY <1>1, <2>1, <2>2
<1>5. done' \in Seq(Completions) /\ Len(done') <= TableLen
  <2>1. /\ WithoutTaken \in Seq(Completions) /\ Len(WithoutTaken) <= Len(done)
        /\ Len(done) <= TableLen /\ Len(done) \in Nat /\ TableLen \in Nat
    BY <1>2, PollLeaves, ReactorAssumption DEF ReactorTypes
  <2>2. Len(WithoutTaken) \in Nat
    BY <2>1
  <2> QED BY <1>1, <2>1, <2>2
<1>6. /\ heard' \in [Streams -> Nat] /\ \A s \in Streams : heard'[s] <= input
      /\ InOrder(WithoutTaken, cq, heard', input)
  BY <1>1, PollKeepsOrder
<1>7. ReactorTypes'
  BY <1>1, <1>2, <1>3, <1>4, <1>5, <1>6 DEF ReactorTypes
<1>8. InOrder(done', cq', heard', input')
  BY <1>1, <1>6
<1> QED BY <1>1, <1>6, <1>7, <1>8 DEF ReactorInv

\* The doorbell.
LEMMA SubmitKeeps ==
  ASSUME ReactorInv, Submit
  PROVE  ReactorInv'
<1>1. Drain(sq, DrainLen(sq)) /\ UNCHANGED <<next_ud, fut, cq, done, input, heard>>
  BY DEF Submit
<1>2. ReactorTypes /\ sq \in Seq(Submissions) /\ ReadsApart(sq)
  BY DEF ReactorInv, ReactorTypes
<1>3. /\ in_flight' \in SUBSET (Nat \ Streams) /\ IsFiniteSet(in_flight')
      /\ Cardinality(in_flight') <= PoolLen
      /\ skipped' \in [Streams -> Nat]
      /\ sq' \in Seq(Submissions) /\ ReadsApart(sq')
  BY <1>1, <1>2, DrainKeeps
<1>4. ReactorTypes'
  BY <1>1, <1>2, <1>3 DEF ReactorTypes
<1> QED BY <1>1, <1>4, QueuesAlone

\* A queue without its first entry.
LEMMA QueueTail ==
  ASSUME NEW q \in Seq(Completions), q # <<>>
  PROVE  /\ Tail(q) \in Seq(Completions) /\ Len(Tail(q)) = Len(q) - 1 /\ Len(q) \in Nat \ {0}
         /\ Head(q) = q[1] /\ q[1] \in Completions
         /\ \A i \in 1 .. Len(Tail(q)) : i + 1 \in 1 .. Len(q) /\ Tail(q)[i] = q[i + 1]
OBVIOUS

\* The first of the queue becomes the last of the table.
LEMMA OrderMoved ==
  ASSUME NEW D \in Seq(Completions), NEW C \in Seq(Completions), C # <<>>, NEW H, NEW I,
         InOrder(D, C, H, I)
  PROVE  InOrder(Append(D, Head(C)), Tail(C), H, I)
<1> DEFINE d == Len(D)
           D2 == Append(D, Head(C))
           C2 == Tail(C)
<1>1. /\ d \in Nat /\ Len(D2) = d + 1 /\ D2[d + 1] = Head(C)
      /\ \A i \in 1 .. d : D2[i] = D[i]
  <2>1. Head(C) \in Completions
    BY QueueTail
  <2> QED BY <2>1
<1>2. /\ Len(C) \in Nat \ {0} /\ Head(C) = C[1] /\ Len(C2) = Len(C) - 1 /\ 1 \in 1 .. Len(C)
      /\ \A i \in 1 .. Len(C2) : i + 1 \in 1 .. Len(C) /\ C2[i] = C[i + 1]
  <2>1. Len(C) \in Nat \ {0}
    BY QueueTail
  <2> QED BY <2>1, QueueTail
<1> HIDE DEF D2, C2
<1>3. ASSUME NEW i \in 1 .. d + 1
      PROVE  \/ i \in 1 .. d /\ D2[i] = D[i]
             \/ i = d + 1 /\ D2[i] = C[1]
  <2>1. CASE i = d + 1
    BY <1>1, <1>2, <2>1
  <2>2. CASE i # d + 1
    <3>1. i \in 1 .. d
      BY <1>1, <2>2
    <3> QED BY <1>1, <3>1
  <2> QED BY <2>1, <2>2
<1>4. \A i \in 1 .. Len(D2) : D2[i].ud \in Streams => D2[i].n > H[D2[i].ud] /\ D2[i].n <= I
  BY <1>1, <1>2, <1>3 DEF InOrder
<1>5. \A i \in 1 .. Len(C2) : C2[i].ud \in Streams => C2[i].n > H[C2[i].ud] /\ C2[i].n <= I
  BY <1>2 DEF InOrder
<1>6. ASSUME NEW i \in 1 .. d + 1, NEW j \in 1 .. d + 1, i < j, D2[i].ud \in Streams,
             D2[i].ud = D2[j].ud
      PROVE  D2[i].n < D2[j].n
  <2>1. i \in 1 .. d /\ D2[i] = D[i]
    <3>1. i # d + 1
      BY ONLY <1>1, <1>6
    <3> QED BY <1>3, <3>1
  <2>2. CASE j \in 1 .. d /\ D2[j] = D[j]
    BY <1>6, <2>1, <2>2 DEF InOrder
  <2>3. CASE j = d + 1 /\ D2[j] = C[1]
    BY <1>2, <1>6, <2>1, <2>3 DEF InOrder
  <2> QED BY <1>3, <2>2, <2>3
<1>7. ASSUME NEW i \in 1 .. Len(C2), NEW j \in 1 .. Len(C2), i < j, C2[i].ud \in Streams,
             C2[i].ud = C2[j].ud
      PROVE  C2[i].n < C2[j].n
  <2>1. i + 1 < j + 1
    BY <1>2, <1>7
  <2> QED BY <1>2, <1>7, <2>1 DEF InOrder
<1>8. ASSUME NEW i \in 1 .. d + 1, NEW j \in 1 .. Len(C2), D2[i].ud \in Streams,
             D2[i].ud = C2[j].ud
      PROVE  D2[i].n < C2[j].n
  <2>1. CASE i \in 1 .. d /\ D2[i] = D[i]
    BY <1>2, <1>8, <2>1 DEF InOrder
  <2>2. CASE D2[i] = C[1]
    <3>1. 1 < j + 1
      BY <1>2
    <3> QED BY <1>2, <1>8, <2>2, <3>1 DEF InOrder
  <2> QED BY <1>3, <2>1, <2>2
<1>9. InOrder(D2, C2, H, I)
  BY <1>1, <1>4, <1>5, <1>6, <1>7, <1>8 DEF InOrder
<1> QED BY <1>9 DEF D2, C2

\* One completion reaped: into the table, or into nothing.
LEMMA ReapKeeps ==
  ASSUME ReactorInv, ReapOne
  PROVE  ReactorInv'
<1>1. /\ cq # <<>> /\ cq' = Tail(cq)
      /\ done' = IF Len(done) < TableLen THEN Append(done, Head(cq)) ELSE done
      /\ UNCHANGED <<next_ud, fut, sq, in_flight, skipped, input, heard>>
  BY DEF ReapOne, kernelSide
<1>2. /\ ReactorTypes /\ done \in Seq(Completions) /\ cq \in Seq(Completions)
      /\ Len(done) \in Nat /\ Len(done) <= TableLen /\ TableLen \in Nat
      /\ InOrder(done, cq, heard, input)
  BY ReactorAssumption DEF ReactorInv, ReactorTypes
<1>3. /\ cq' \in Seq(Completions) /\ Head(cq) \in Completions
      /\ Len(cq') = Len(cq) - 1 /\ Len(cq) \in Nat \ {0}
      /\ \A i \in 1 .. Len(cq') : i + 1 \in 1 .. Len(cq) /\ cq'[i] = cq[i + 1]
  BY <1>1, <1>2, QueueTail
<1>4. CASE Len(done) < TableLen
  <2>1. done' = Append(done, Head(cq))
    BY <1>1, <1>4
  <2>2. InOrder(done', cq', heard', input')
    BY <1>1, <1>2, <2>1, OrderMoved
  <2>3. done' \in Seq(Completions) /\ Len(done') = Len(done) + 1
    BY <1>2, <1>3, <2>1
  <2>4. Len(done') <= TableLen
    BY ONLY <1>2, <1>4, <2>3
  <2>5. ReactorTypes'
    BY <1>1, <1>2, <1>3, <2>3, <2>4 DEF ReactorTypes, ReadsApart
  <2> QED BY <1>1, <2>2, <2>5 DEF ReactorInv
<1>5. CASE ~(Len(done) < TableLen)
  <2>1. done' = done
    BY <1>1, <1>5
  <2>2. ASSUME NEW i \in 1 .. Len(cq'), NEW j \in 1 .. Len(cq'), i < j, cq'[i].ud \in Streams,
               cq'[i].ud = cq'[j].ud
        PROVE  cq'[i].n < cq'[j].n
    <3>1. i + 1 < j + 1
      BY <1>3, <2>2
    <3> QED BY <1>2, <1>3, <2>2, <3>1 DEF InOrder
  <2>3. InOrder(done', cq', heard', input')
    BY <1>1, <1>2, <1>3, <2>1, <2>2 DEF InOrder
  <2>4. ReactorTypes'
    BY <1>1, <1>2, <1>3, <2>1 DEF ReactorTypes, ReadsApart
  <2> QED BY <1>1, <2>3, <2>4 DEF ReactorInv
<1> QED BY <1>4, <1>5

\* An event, queued with a number above all before it.
LEMMA EventKeeps ==
  ASSUME ReactorInv, NEW s \in Streams, Event(s)
  PROVE  ReactorInv'
<1>1. /\ input' = input + 1
      /\ UNCHANGED <<next_ud, fut, sq, done, in_flight, heard>>
  BY DEF Event
<1>2. /\ ReactorTypes /\ cq \in Seq(Completions) /\ Len(cq) \in Nat /\ input \in Nat
      /\ InOrder(done, cq, heard, input) /\ skipped \in [Streams -> Nat]
      /\ heard \in [Streams -> Nat] /\ Streams \in SUBSET Nat /\ done \in Seq(Completions)
      /\ \A t \in Streams : heard[t] <= input
  <2>1. Streams \in SUBSET Nat
    BY ReactorAssumption
  <2>2. ReactorTypes /\ InOrder(done, cq, heard, input) /\ \A t \in Streams : heard[t] <= input
    BY DEF ReactorInv
  <2>3. cq \in Seq(Completions) /\ Len(cq) \in Nat
    BY <2>2 DEF ReactorTypes
  <2>4. input \in Nat /\ skipped \in [Streams -> Nat] /\ heard \in [Streams -> Nat]
        /\ done \in Seq(Completions)
    BY <2>2 DEF ReactorTypes
  <2> QED BY <2>1, <2>2, <2>3, <2>4
<1>3. /\ \A i \in 1 .. Len(done) : done[i].n \in Nat
      /\ \A i \in 1 .. Len(cq) : cq[i].n \in Nat
  <2>1. /\ \A i \in 1 .. Len(done) : done[i] \in Completions
        /\ \A i \in 1 .. Len(cq) : cq[i] \in Completions
    BY <1>2
  <2> QED BY <2>1 DEF Completions
<1>4. /\ \A t \in Streams : heard[t] <= input + 1
      /\ \A n \in Nat : n <= input => n <= input + 1 /\ n < input + 1
  BY <1>2
<1>5. InOrder(done, cq, heard, input + 1)
  BY <1>2, <1>3, <1>4 DEF InOrder
<1>6. CASE UNCHANGED cq /\ skipped' \in [Streams -> Nat]
  <2>1. ReactorTypes'
    BY <1>1, <1>2, <1>6 DEF ReactorTypes, ReadsApart
  <2> QED BY <1>1, <1>4, <1>5, <1>6, <2>1 DEF ReactorInv
<1>7. CASE /\ cq' = Append(cq, [ud |-> s, n |-> input + 1, dropped |-> skipped[s] > 0])
           /\ skipped' = [skipped EXCEPT ![s] = 0]
  <2> DEFINE e == [ud |-> s, n |-> input + 1, dropped |-> skipped[s] > 0]
             c == Len(cq)
  <2>1. e \in Completions /\ e.ud = s /\ e.n = input + 1
    BY <1>2 DEF Completions
  <2> HIDE DEF e
  <2>2. /\ cq' \in Seq(Completions) /\ Len(cq') = c + 1
        /\ \A i \in 1 .. c : cq'[i] = cq[i]
        /\ cq'[c + 1] = e
    BY <1>2, <1>7, <2>1 DEF e
  <2>3. \A i \in 1 .. c + 1 : i \in 1 .. c \/ i = c + 1
    BY <1>2
  <2>4. \A i, j \in 1 .. c + 1 : i < j => i \in 1 .. c
    BY <1>2
  <2>5. skipped' \in [Streams -> Nat]
    BY <1>2, <1>7
  <2>6. ReactorTypes'
    BY <1>1, <1>2, <2>2, <2>5 DEF ReactorTypes, ReadsApart
  <2>7. InOrder(done, cq', heard, input + 1)
    <3>1. \A i \in 1 .. c + 1 :
            cq'[i].ud \in Streams => cq'[i].n > heard[cq'[i].ud] /\ cq'[i].n <= input + 1
      <4>1. \A i \in 1 .. c :
              cq'[i].ud \in Streams => cq'[i].n > heard[cq'[i].ud] /\ cq'[i].n <= input + 1
        BY <1>5, <2>2 DEF InOrder
      <4>2. e.n > heard[e.ud] /\ e.n <= input + 1
        <5>1. heard[s] \in Nat /\ heard[s] <= input /\ input \in Nat
          BY <1>2
        <5> QED BY <2>1, <5>1
      <4> QED BY <2>2, <2>3, <4>1, <4>2
    <3>2. \A i, j \in 1 .. c + 1 :
            i < j /\ cq'[i].ud \in Streams /\ cq'[i].ud = cq'[j].ud => cq'[i].n < cq'[j].n
      <4>1. ASSUME NEW i \in 1 .. c + 1, NEW j \in 1 .. c + 1, i < j, cq'[i].ud \in Streams,
                   cq'[i].ud = cq'[j].ud
            PROVE  cq'[i].n < cq'[j].n
        <5>1. i \in 1 .. c /\ cq'[i] = cq[i]
          BY <2>2, <2>4, <4>1
        <5>2. CASE j \in 1 .. c
          BY <1>2, <2>2, <4>1, <5>1, <5>2 DEF InOrder
        <5>3. CASE j = c + 1
          BY <1>2, <1>3, <1>4, <2>1, <2>2, <4>1, <5>1, <5>3 DEF InOrder
        <5> QED BY <2>3, <5>2, <5>3
      <4> QED BY <4>1
    <3>3. \A i \in 1 .. Len(done), j \in 1 .. c + 1 :
            done[i].ud \in Streams /\ done[i].ud = cq'[j].ud => done[i].n < cq'[j].n
      <4>1. ASSUME NEW i \in 1 .. Len(done), NEW j \in 1 .. c + 1, done[i].ud \in Streams,
                   done[i].ud = cq'[j].ud
            PROVE  done[i].n < cq'[j].n
        <5>2. CASE j \in 1 .. c
          BY <1>2, <2>2, <4>1, <5>2 DEF InOrder
        <5>3. CASE j = c + 1
          BY <1>2, <1>3, <1>4, <2>1, <2>2, <4>1, <5>3 DEF InOrder
        <5> QED BY <2>3, <5>2, <5>3
      <4> QED BY <4>1
    <3> QED BY <1>5, <2>2, <3>1, <3>2, <3>3 DEF InOrder
  <2> QED BY <1>1, <1>4, <2>6, <2>7 DEF ReactorInv
<1>8. [skipped EXCEPT ![s] = @ + 1] \in [Streams -> Nat]
  BY <1>2
<1> QED BY <1>2, <1>6, <1>7, <1>8 DEF Event

\* An answer: its entry, and the entry of the cell it laps, name no stream.
LEMMA AnswerKeeps ==
  ASSUME ReactorInv, NEW u \in in_flight, Answer(u)
  PROVE  ReactorInv'
<1> DEFINE e == [ud |-> u, n |-> 0, dropped |-> FALSE]
           c == Len(cq)
           lapped == c - CqLen + 1
           q == IF c >= CqLen THEN [cq EXCEPT ![lapped] = e] ELSE cq
<1>1. /\ in_flight' = in_flight \ {u} /\ cq' = Append(q, e)
      /\ UNCHANGED <<next_ud, fut, sq, done, skipped, input, heard>>
  BY DEF Answer
<1>2. /\ ReactorTypes /\ cq \in Seq(Completions) /\ c \in Nat
      /\ InOrder(done, cq, heard, input) /\ u \in Nat /\ u \notin Streams
      /\ CqLen \in Nat /\ CqLen # 0
  <2>1. CqLen \in Nat /\ CqLen # 0
    BY ReactorAssumption
  <2>2. ReactorTypes /\ InOrder(done, cq, heard, input)
    BY DEF ReactorInv
  <2>3. cq \in Seq(Completions) /\ c \in Nat /\ u \in Nat /\ u \notin Streams
    BY <2>2 DEF ReactorTypes
  <2> QED BY <2>1, <2>2, <2>3
<1>3. e \in Completions /\ e.ud = u
  BY <1>2 DEF Completions
<1> HIDE DEF e
<1>4. q \in Seq(Completions) /\ Len(q) = c /\ \A i \in 1 .. c : q[i] = cq[i] \/ q[i] = e
  BY <1>2, <1>3
<1> HIDE DEF q
<1>5. /\ cq' \in Seq(Completions) /\ Len(cq') = c + 1
      /\ \A i \in 1 .. c + 1 : cq'[i] = e \/ (i \in 1 .. c /\ cq'[i] = cq[i])
  <2>1. /\ cq' \in Seq(Completions) /\ Len(cq') = c + 1
        /\ \A i \in 1 .. c : cq'[i] = q[i]
        /\ cq'[c + 1] = e
    BY <1>1, <1>2, <1>3, <1>4
  <2>2. \A i \in 1 .. c + 1 : i \in 1 .. c \/ i = c + 1
    BY <1>2
  <2> QED BY <1>4, <2>1, <2>2
<1>6. \A i \in 1 .. Len(cq') : cq'[i].ud \in Streams => i \in 1 .. Len(cq) /\ cq'[i] = cq[i]
  BY <1>2, <1>3, <1>5
<1>7. InOrder(done', cq', heard', input')
  <2>1. done' = done /\ heard' = heard /\ input' = input
    BY <1>1
  <2>2. \A i \in 1 .. Len(cq') :
          cq'[i].ud \in Streams => cq'[i].n > heard[cq'[i].ud] /\ cq'[i].n <= input
    BY <1>2, <1>6 DEF InOrder
  <2>3. \A i, j \in 1 .. Len(cq') :
          i < j /\ cq'[i].ud \in Streams /\ cq'[i].ud = cq'[j].ud => cq'[i].n < cq'[j].n
    BY <1>2, <1>6 DEF InOrder
  <2>4. \A i \in 1 .. Len(done), j \in 1 .. Len(cq') :
          done[i].ud \in Streams /\ done[i].ud = cq'[j].ud => done[i].n < cq'[j].n
    BY <1>2, <1>6 DEF InOrder
  <2> QED BY <1>2, <2>1, <2>2, <2>3, <2>4 DEF InOrder
<1>8. in_flight' \in SUBSET (Nat \ Streams) /\ IsFiniteSet(in_flight')
      /\ Cardinality(in_flight') <= PoolLen
  <2>1. /\ in_flight \in SUBSET (Nat \ Streams) /\ IsFiniteSet(in_flight)
        /\ Cardinality(in_flight) <= PoolLen
    BY <1>2 DEF ReactorTypes
  <2>2. in_flight' \in SUBSET in_flight
    BY <1>1
  <2>3. IsFiniteSet(in_flight') /\ Cardinality(in_flight') <= Cardinality(in_flight)
    BY <2>1, <2>2, FS_Subset
  <2>4. Cardinality(in_flight) \in Nat /\ Cardinality(in_flight') \in Nat
    BY <2>1, <2>3, FS_CardinalityType
  <2>5. PoolLen \in Nat
    BY ReactorAssumption
  <2>6. Cardinality(in_flight') <= PoolLen
    BY ONLY <2>1, <2>3, <2>4, <2>5
  <2> QED BY <2>1, <2>2, <2>3, <2>6
<1>9. ReactorTypes'
  BY <1>1, <1>2, <1>5, <1>8 DEF ReactorTypes, ReadsApart
<1> QED BY <1>1, <1>7, <1>9 DEF ReactorInv

\* The reactor starts with nothing on its way.
LEMMA ReactorStarts == ReactorInit => ReactorInv
<1> SUFFICES ASSUME ReactorInit PROVE ReactorInv
  OBVIOUS
<1>1. next_ud \in Nat /\ \A u \in Nat : u >= next_ud => u \notin Streams
  <2> DEFINE c == Cardinality(Streams)
  <2>1. c \in Nat /\ Streams = 1 .. c /\ next_ud = c + 1
    BY ReactorAssumption DEF ReactorInit
  <2> HIDE DEF c
  <2> QED BY ONLY <2>1
<1>2. /\ in_flight \in SUBSET (Nat \ Streams) /\ IsFiniteSet(in_flight)
      /\ Cardinality(in_flight) <= PoolLen
  <2>1. PoolLen \in Nat
    BY ReactorAssumption
  <2> QED BY <2>1, FS_EmptySet DEF ReactorInit
<1>3. TableLen \in Nat
  BY ReactorAssumption
<1>4. /\ sq = <<>> /\ cq = <<>> /\ done = <<>> /\ fut.kids = <<>> /\ input = 0
      /\ skipped = [s \in Streams |-> 0] /\ heard = [s \in Streams |-> 0]
  BY DEF ReactorInit, NoFut
<1>5. ReactorTypes
  BY <1>1, <1>2, <1>3, <1>4 DEF ReactorTypes, ReadsApart
<1>6. InOrder(done, cq, heard, input) /\ \A s \in Streams : heard[s] <= input
  BY <1>4 DEF InOrder
<1> QED BY <1>5, <1>6 DEF ReactorInv

\* Every step of the reactor keeps the order.
LEMMA ReactorSteps == ReactorInv /\ [ReactorNext]_reactorAllVars => ReactorInv'
<1> SUFFICES ASSUME ReactorInv, [ReactorNext]_reactorAllVars PROVE ReactorInv'
  OBVIOUS
<1>1. CASE UNCHANGED <<next_ud, fut, sq, cq, done, in_flight, skipped, input, heard>>
  <2>1. ReactorTypes'
    BY <1>1 DEF ReactorInv, ReactorTypes, ReadsApart
  <2> QED BY <1>1, <2>1, QueuesAlone
<1>2. CASE Wait \/ ReapDone \/ ReportLosses
  BY <1>1, <1>2 DEF Wait, ReapDone, ReportLosses, kernelSide
<1>3. CASE UNCHANGED reactorAllVars
  BY <1>1, <1>3 DEF reactorAllVars
<1> QED BY <1>2, <1>3, ProgramKeeps, PollKeeps, SubmitKeeps, ReapKeeps, EventKeeps, AnswerKeeps
        DEF ReactorNext

\* Whatever a program joins, selects, collects, cancels and arms again, and
\* however full the queue and the table are, it hears the events of a stream in
\* the order they happened and none twice.
THEOREM StreamsHeardInOrder == ReactorSpec => []StreamHeardInOrder
BY ReactorStarts, ReactorSteps, InOrderEnough, PTL DEF ReactorSpec

----------------------------------------------------------------------------
(* A bound device: what is under way.                                      *)

BindTypes ==
  /\ reads \in [Cookies -> BoundReads \cup {NoVal}]
  /\ slot_cookie \in [Slots -> Cookies \cup {0}]
  /\ chain \in [Slots -> [ud : Cookies \cup {0}, frame : {"data", "poison"},
                          status : {OK, SENTINEL}]]
  /\ bound_done \in Seq([ud : Cookies, status : {OK, TIMEOUT}])
  /\ avail \in SUBSET Slots /\ busy \in SUBSET Slots
  /\ used \in Seq(Slots) /\ used_seen \in Nat /\ used_seen <= Len(used)
  /\ cell \in [Slots -> Nat]

\* Where the program and the binding stand: the domain maps the data frame while
\* the device can be served, and only a release takes it away.
Bringup ==
  /\ unit \in [up : BOOLEAN, enabled : BOOLEAN, context : BOOLEAN,
               domain : SUBSET BindFrames, fault : BOOLEAN]
  /\ dev \in {"off", "failed", "ready", "gone"}
  /\ dev \in {"ready", "gone"} \/ pc \in {"boot", "exited"}
  /\ dev = "ready" => "data" \in unit.domain
  /\ unbind \in {"reset", "freed"} => dev = "gone" /\ pc = "release"
  /\ waiter => pc = "parked"

\* The sub-buffer of a served read: its sector, or nothing if it was poisoned.
RightCell(c, s) == cell[s] = IF reads[c].poison THEN 0 ELSE c

\* The reads of the batch have slots of their own, and are posted by the first poll.
BatchReads ==
  /\ pc \in {"boot", "start", "idle", "release", "exited"} => Unfinished = {}
  /\ \A c, d \in Batch : reads[c].slot \in Slots /\ reads[c].slot = reads[d].slot => c = d
  /\ \A c \in Unfinished :
       /\ reads[c].slot \in Slots
       /\ ~reads[c].posted => pc = "poll" /\ slot_cookie[reads[c].slot] = c

\* A slot in use is that of an unfinished read.
SlotReads ==
  \A s \in Slots : slot_cookie[s] # 0 =>
    /\ slot_cookie[s] \in Unfinished /\ reads[slot_cookie[s]].slot = s
    /\ reads[slot_cookie[s]].posted =>
         /\ chain[s].ud = slot_cookie[s]
         /\ chain[s].frame = IF reads[slot_cookie[s]].poison THEN "poison" ELSE "data"
    /\ ~reads[slot_cookie[s]].posted => cell[s] = 0

\* A slot the device knows of is in use and posted.
PostedSlot(s) == slot_cookie[s] # 0 /\ reads[slot_cookie[s]].posted

\* What is published, served or finished.  The three are apart.
OnDevice ==
  /\ dev # "gone" => \A s \in avail : PostedSlot(s) /\ cell[s] = 0 /\ s \notin busy
  /\ \A s \in busy : dev = "ready" /\ PostedSlot(s) /\ cell[s] = 0
  /\ \A n \in used_seen + 1 .. Len(used) :
       /\ dev = "ready" /\ PostedSlot(used[n])
       /\ used[n] \notin avail /\ used[n] \notin busy
       /\ chain[used[n]].status = OK
       /\ RightCell(slot_cookie[used[n]], used[n])
       /\ \A m \in used_seen + 1 .. Len(used) : used[m] = used[n] => m = n

\* What is staged, one status for a read, whose slot is given back.
DoneReads ==
  /\ pc \notin {"poll", "reap"} => bound_done = <<>>
  /\ \A i \in 1 .. Len(bound_done) :
       /\ bound_done[i].ud \in Unfinished /\ reads[bound_done[i].ud].posted
       /\ \A s \in Slots : slot_cookie[s] # bound_done[i].ud
       /\ bound_done[i].status = OK => RightCell(bound_done[i].ud, reads[bound_done[i].ud].slot)
       /\ \A j \in 1 .. Len(bound_done) : bound_done[j].ud = bound_done[i].ud => j = i

BindInv ==
  /\ BindTypes /\ Bringup /\ BatchReads /\ SlotReads /\ OnDevice /\ DoneReads
  /\ OverlapDelivers

\* The variables the invariant reads, but for the bring-up's.
flightVars == <<reads, slot_cookie, chain, bound_done, used_seen, avail, used, busy, cell>>

\* With no unfinished read no slot is taken and nothing is with the device.
LEMMA IdleAtRest ==
  ASSUME BindInv, Unfinished = {}
  PROVE  /\ \A s \in Slots : slot_cookie[s] = 0
         /\ busy = {} /\ used_seen = Len(used) /\ bound_done = <<>>
         /\ dev # "gone" => avail = {}
<1>1. \A s \in Slots : slot_cookie[s] = 0
  BY DEF BindInv, SlotReads
<1>2. \A s \in Slots : ~PostedSlot(s)
  BY <1>1 DEF PostedSlot
<1>3. busy = {} /\ (dev # "gone" => avail = {})
  BY <1>2 DEF BindInv, BindTypes, OnDevice
<1>4. \A n \in used_seen + 1 .. Len(used) : used[n] \in Slots
  BY DEF BindInv, BindTypes
<1>5. used_seen \in Nat /\ Len(used) \in Nat /\ used_seen <= Len(used)
  BY DEF BindInv, BindTypes
<1>6. ~(Len(used) \in used_seen + 1 .. Len(used))
  BY <1>2, <1>4 DEF BindInv, OnDevice
<1>7. used_seen = Len(used)
  BY <1>5, <1>6
<1>8. \A i \in 1 .. Len(bound_done) : FALSE
  BY DEF BindInv, DoneReads
<1>9. bound_done = <<>>
  BY <1>8 DEF BindInv, BindTypes
<1> QED BY <1>1, <1>3, <1>7, <1>9

\* A step that moves only the program, the binding or the unit.
LEMMA QuietKeeps ==
  ASSUME BindInv, UNCHANGED flightVars, Bringup',
         dev' = dev \/ (dev # "gone" /\ Unfinished = {}),
         pc' \in {"boot", "start", "idle", "release", "exited"} => Unfinished = {},
         pc' = "poll" \/ pc # "poll",
         pc' \notin {"poll", "reap"} => bound_done = <<>>
  PROVE  BindInv'
<1>1. /\ Unfinished' = Unfinished /\ Batch' = Batch
      /\ \A s \in Slots : PostedSlot(s)' = PostedSlot(s)
      /\ \A c, s : RightCell(c, s)' = RightCell(c, s)
  BY DEF flightVars, Unfinished, Batch, Created, PostedSlot, RightCell
<1>2. BindTypes'
  BY DEF BindInv, BindTypes, flightVars
<1>3. BatchReads'
  BY <1>1 DEF BindInv, BatchReads, flightVars
<1>4. SlotReads'
  BY <1>1 DEF BindInv, SlotReads, flightVars
<1>5. OnDevice'
  <2>1. CASE dev' = dev
    BY <1>1, <2>1 DEF BindInv, BindTypes, OnDevice, flightVars
  <2>2. CASE dev # "gone" /\ Unfinished = {}
    <3>1. /\ busy' = {} /\ avail' = {} /\ used_seen' = Len(used')
          /\ used_seen' \in Nat
      BY <1>2, <2>2, IdleAtRest DEF flightVars, BindTypes
    <3>2. \A n \in used_seen' + 1 .. Len(used') : FALSE
      BY ONLY <3>1
    <3> QED BY ONLY <3>1, <3>2 DEF OnDevice
  <2> QED BY <2>1, <2>2
<1>6. DoneReads'
  BY <1>1 DEF BindInv, DoneReads, flightVars
<1>7. OverlapDelivers'
  BY <1>1 DEF BindInv, OverlapDelivers, flightVars
<1> QED BY <1>2, <1>3, <1>4, <1>5, <1>6, <1>7 DEF BindInv

\* Before boot the invariant holds.
LEMMA BindStarts == BindInit => BindInv
<1> SUFFICES ASSUME BindInit PROVE BindInv
  OBVIOUS
<1> USE DEF BindInit
<1>1. Created = {} /\ Batch = {} /\ Unfinished = {}
  BY DEF Created, Batch, Unfinished
<1>2. BindTypes
  BY BindingAssumption DEF BindTypes, Slots, Cookies, OK, SENTINEL
<1>3. Bringup
  BY BindingAssumption DEF Bringup
<1>4. BatchReads /\ SlotReads /\ DoneReads /\ OverlapDelivers
  BY <1>1, <1>2 DEF BatchReads, SlotReads, DoneReads, OverlapDelivers
<1>5. OnDevice
  <2>1. used_seen = 0 /\ Len(used) = 0 /\ avail = {} /\ busy = {}
    OBVIOUS
  <2>2. \A n \in used_seen + 1 .. Len(used) : FALSE
    BY ONLY <2>1
  <2> QED BY ONLY <2>1, <2>2 DEF OnDevice
<1> QED BY ONLY <1>2, <1>3, <1>4, <1>5 DEF BindInv

\* Bring-up, the looks at the used ring, the interrupt and the teardown keep it.
LEMMA QuietStepsKeep ==
  ASSUME BindInv,
         \/ \E through \in BOOLEAN : PrepareBlock(through)
         \/ \E access_platform \in BOOLEAN, qsize \in {0, 3 * Chains} :
              InitBound(access_platform, qsize)
         \/ EnableAndSelftest
         \/ Doorbell \/ CheckUsed \/ BindWait \/ BoundIrq \/ UnbindFree \/ BindTeardown
         \/ \E f \in BindFrames : OtherAllocates(f)
         \/ UNCHANGED bindVars
  PROVE  BindInv'
<1>0. /\ Bringup
      /\ pc \in {"boot", "start", "idle", "release", "exited"} => Unfinished = {}
      /\ pc \notin {"poll", "reap"} => bound_done = <<>>
  BY DEF BindInv, BatchReads, DoneReads
<1> USE DEF flightVars, reactorVars, deviceVars, bringUpVars
<1>1. ASSUME NEW through \in BOOLEAN, PrepareBlock(through) PROVE BindInv'
  <2>1. Bringup'
    BY <1>0, <1>1 DEF PrepareBlock, Bringup
  <2> QED BY <1>0, <1>1, <2>1, QuietKeeps DEF PrepareBlock
<1>2. ASSUME NEW a \in BOOLEAN, NEW q \in {0, 3 * Chains}, InitBound(a, q) PROVE BindInv'
  <2>1. Bringup'
    BY <1>0, <1>2 DEF InitBound, Bringup, BindFrames, RingFrames
  <2> QED BY <1>0, <1>2, <2>1, QuietKeeps DEF InitBound
<1>3. CASE EnableAndSelftest
  <2>1. Bringup'
    BY <1>0, <1>3 DEF EnableAndSelftest, Bringup, BindFrames
  <2> QED BY <1>0, <1>3, <2>1, QuietKeeps DEF EnableAndSelftest
<1>4. CASE Doorbell
  <2>1. Bringup'
    BY <1>0, <1>4 DEF Doorbell, Bringup
  <2>2. bound_done = <<>>
    BY <1>0, <1>4 DEF Doorbell
  <2> QED BY <1>0, <1>4, <2>1, <2>2, QuietKeeps DEF Doorbell
<1>5. CASE CheckUsed
  <2>1. Bringup'
    BY <1>0, <1>5 DEF CheckUsed, Bringup
  <2>2. bound_done = <<>>
    BY <1>0, <1>5 DEF CheckUsed
  <2> QED BY <1>0, <1>5, <2>1, <2>2, QuietKeeps DEF CheckUsed
<1>6. CASE BindWait
  <2>1. Bringup'
    BY <1>0, <1>6 DEF BindWait, Bringup
  <2>2. bound_done = <<>>
    BY <1>0, <1>6 DEF BindWait
  <2> QED BY <1>0, <1>6, <2>1, <2>2, QuietKeeps DEF BindWait
<1>7. CASE BoundIrq
  <2>1. Bringup'
    BY <1>0, <1>7 DEF BoundIrq, Bringup
  <2>2. pc' = pc \/ (pc = "parked" /\ pc' = "check")
    BY <1>0, <1>7 DEF BoundIrq, Bringup
  <2> QED BY <1>0, <1>7, <2>1, <2>2, QuietKeeps DEF BoundIrq
<1>8. CASE UnbindFree
  <2>1. Bringup'
    BY <1>0, <1>8 DEF UnbindFree, Bringup
  <2> QED BY <1>0, <1>8, <2>1, QuietKeeps DEF UnbindFree
<1>9. CASE BindTeardown
  <2>1. Bringup'
    BY <1>0, <1>9, BindingAssumption DEF BindTeardown, Bringup
  <2>2. pc = "release"
    BY <1>0, <1>9 DEF BindTeardown, Bringup
  <2> QED BY <1>0, <1>9, <2>1, <2>2, QuietKeeps DEF BindTeardown
<1>10. ASSUME NEW f \in BindFrames, OtherAllocates(f) PROVE BindInv'
  <2>1. Bringup'
    BY <1>0, <1>10 DEF OtherAllocates, Bringup
  <2> QED BY <1>0, <1>10, <2>1, QuietKeeps DEF OtherAllocates
<1>11. CASE UNCHANGED bindVars
  <2>1. Bringup'
    BY <1>0, <1>11 DEF bindVars, Bringup
  <2> QED BY <1>0, <1>11, <2>1, QuietKeeps DEF bindVars
<1> QED BY <1>1, <1>2, <1>3, <1>4, <1>5, <1>6, <1>7, <1>8, <1>9, <1>10, <1>11

\* The window opens, or the device is reset, with nothing under way.
LEMMA IdleStepsKeep ==
  ASSUME BindInv, BindDevice \/ UnbindReset
  PROVE  BindInv'
<1>1. Unfinished = {}
  BY DEF BindInv, BatchReads, BindDevice, UnbindReset
<1>2. /\ \A s \in Slots : slot_cookie[s] = 0
      /\ busy = {} /\ used_seen = Len(used) /\ bound_done = <<>>
      /\ dev # "gone" => avail = {}
  BY <1>1, IdleAtRest
<1>3. UNCHANGED <<reads, slot_cookie, chain, bound_done, avail, used, cell, waiter>>
  BY DEF BindDevice, UnbindReset, reactorVars, deviceVars
<1>4. busy' = {} /\ used_seen' = Len(used) /\ used_seen' = used_seen
  BY <1>2 DEF BindDevice, UnbindReset, reactorVars, deviceVars
<1>5. /\ Unfinished' = {} /\ Batch' = Batch
      /\ \A c, s : RightCell(c, s)' = RightCell(c, s)
  BY <1>1, <1>3 DEF Unfinished, Batch, Created, RightCell
<1>6. BindTypes'
  BY <1>3, <1>4 DEF BindInv, BindTypes
<1>7. Bringup'
  BY <1>3, BindingAssumption DEF BindInv, Bringup, BindDevice, UnbindReset, bringUpVars
<1>8. BatchReads' /\ SlotReads' /\ DoneReads' /\ OverlapDelivers'
  <2>1. BatchReads'
    BY <1>3, <1>5 DEF BindInv, BatchReads
  <2>2. SlotReads'
    BY <1>2, <1>3 DEF SlotReads
  <2>3. DoneReads'
    BY <1>2, <1>3 DEF DoneReads
  <2>4. OverlapDelivers'
    BY <1>3, <1>5 DEF BindInv, OverlapDelivers
  <2> QED BY <2>1, <2>2, <2>3, <2>4
<1>9. OnDevice'
  <2>1. \A n \in used_seen' + 1 .. Len(used') : FALSE
    <3>1. used_seen' = Len(used') /\ used_seen' \in Nat
      BY <1>3, <1>4, <1>6 DEF BindTypes
    <3> QED BY ONLY <3>1
  <2>2. dev' # "gone" => avail' = {}
    BY <1>2, <1>3 DEF BindDevice, UnbindReset, bringUpVars
  <2> QED BY ONLY <1>4, <2>1, <2>2 DEF OnDevice
<1> QED BY ONLY <1>6, <1>7, <1>8, <1>9 DEF BindInv

\* The device takes a published chain.
LEMMA FetchKeeps ==
  ASSUME BindInv, NEW s \in Slots, DeviceFetch(s)
  PROVE  BindInv'
<1>1. /\ s \in avail /\ dev = "ready" /\ avail' = avail \ {s} /\ busy' = busy \cup {s}
      /\ UNCHANGED <<unit, dev, unbind, pc, reads, slot_cookie, bound_done, chain, used_seen,
                     used, cell, waiter>>
  BY DEF DeviceFetch, bringUpVars, reactorVars
<1>2. /\ Unfinished' = Unfinished /\ Batch' = Batch
      /\ \A t \in Slots : PostedSlot(t)' = PostedSlot(t)
      /\ \A c, t : RightCell(c, t)' = RightCell(c, t)
  BY <1>1 DEF Unfinished, Batch, Created, PostedSlot, RightCell
<1>3. BindTypes'
  BY <1>1 DEF BindInv, BindTypes
<1>4. Bringup'
  BY <1>1 DEF BindInv, Bringup
<1>5. BatchReads' /\ SlotReads' /\ DoneReads' /\ OverlapDelivers'
  BY <1>1, <1>2 DEF BindInv, BatchReads, SlotReads, DoneReads, OverlapDelivers
<1>6. OnDevice'
  <2>0. BindTypes /\ OnDevice
    BY DEF BindInv
  <2>1. \A n \in used_seen + 1 .. Len(used) : used[n] \in Slots
    BY <2>0 DEF BindTypes
  <2>2. PostedSlot(s) /\ cell[s] = 0 /\ s \notin busy
    BY <2>0, <1>1 DEF OnDevice
  <2> QED BY ONLY <1>1, <1>2, <2>0, <2>1, <2>2 DEF OnDevice, BindTypes
<1> QED BY ONLY <1>3, <1>4, <1>5, <1>6 DEF BindInv

\* The device finishes a chain: the sub-buffer of its slot, and no other, changes.
LEMMA FinishKeeps ==
  ASSUME BindInv, NEW s \in Slots, DeviceFinish(s)
  PROVE  BindInv'
<1> DEFINE c == slot_cookie[s]
<1>0. BindTypes /\ Bringup /\ BatchReads /\ SlotReads /\ OnDevice /\ DoneReads /\ OverlapDelivers
  BY DEF BindInv
<1>1. /\ s \in busy /\ busy' = busy \ {s} /\ used' = Append(used, s)
      /\ UNCHANGED <<dev, unbind, pc, reads, slot_cookie, bound_done, used_seen, avail, waiter>>
  BY DEF DeviceFinish
<1>2. dev = "ready" /\ PostedSlot(s) /\ cell[s] = 0
  BY <1>0, <1>1 DEF OnDevice
<1>3. /\ c \in Unfinished /\ c \in Cookies /\ reads[c].slot = s /\ reads[c] \in BoundReads
      /\ chain[s].ud = c /\ chain[s].frame = IF reads[c].poison THEN "poison" ELSE "data"
  <2>1. c # 0 /\ reads[c].posted
    BY <1>2 DEF PostedSlot
  <2>2. c \in Cookies /\ c \in Unfinished
    BY <1>0, <2>1 DEF BindTypes, SlotReads
  <2>3. reads[c] \in BoundReads
    BY <1>0, <2>2 DEF BindTypes, Unfinished, Batch, Created
  <2> QED BY <1>0, <2>1, <2>2, <2>3 DEF SlotReads
<1>4. /\ cell' \in [Slots -> Nat]
      /\ \A t \in Slots : t # s => cell'[t] = cell[t]
      /\ cell'[s] = IF reads[c].poison THEN 0 ELSE c
  <2>1. CASE reads[c].poison
    <3>1. chain[s].frame = "poison" /\ chain[s].frame \notin unit.domain
      BY <1>0, <1>3, <2>1 DEF Bringup, BindFrames, RingFrames, Scratch
    <3>2. cell' = cell
      BY <3>1 DEF DeviceFinish
    <3> QED BY ONLY <1>0, <1>2, <2>1, <3>2 DEF BindTypes
  <2>2. CASE ~reads[c].poison
    <3>1. chain[s].frame = "data" /\ chain[s].frame \in unit.domain
      BY <1>0, <1>2, <1>3, <2>2 DEF Bringup
    <3>2. cell' = [cell EXCEPT ![s] = c]
      BY <1>3, <3>1 DEF DeviceFinish
    <3>3. c \in Nat
      BY ONLY <1>3, BindingAssumption DEF Cookies
    <3> QED BY ONLY <1>0, <2>2, <3>2, <3>3, s \in Slots DEF BindTypes
  <2> QED BY ONLY <2>1, <2>2
<1>5. /\ chain' \in [Slots -> [ud : Cookies \cup {0}, frame : {"data", "poison"},
                               status : {OK, SENTINEL}]]
      /\ \A t \in Slots : chain'[t].ud = chain[t].ud /\ chain'[t].frame = chain[t].frame
      /\ chain'[s].status = OK
      /\ \A t \in Slots : t # s => chain'[t] = chain[t]
  <2>1. chain' = [chain EXCEPT ![s].status = OK]
    BY DEF DeviceFinish
  <2> QED BY ONLY <1>0, <2>1, s \in Slots DEF BindTypes
<1>6. /\ Unfinished' = Unfinished /\ Batch' = Batch
      /\ \A t \in Slots : PostedSlot(t)' = PostedSlot(t)
      /\ \A d, t : t \in Slots /\ t # s => RightCell(d, t)' = RightCell(d, t)
      /\ RightCell(c, s)'
  BY <1>1, <1>4 DEF Unfinished, Batch, Created, PostedSlot, RightCell
<1>7. BindTypes'
  <2>1. used' \in Seq(Slots) /\ Len(used') = Len(used) + 1
    BY ONLY <1>0, <1>1, s \in Slots DEF BindTypes
  <2> QED BY ONLY <1>0, <1>1, <1>4, <1>5, <2>1 DEF BindTypes
<1>8. Bringup'
  <2>1. unit' \in [up : BOOLEAN, enabled : BOOLEAN, context : BOOLEAN,
                   domain : SUBSET BindFrames, fault : BOOLEAN] /\ unit'.domain = unit.domain
    BY <1>0 DEF DeviceFinish, Bringup
  <2> QED BY ONLY <1>0, <1>1, <2>1 DEF Bringup
<1>9. BatchReads'
  BY ONLY <1>0, <1>1, <1>6 DEF BatchReads
<1>10. SlotReads'
  BY ONLY <1>0, <1>1, <1>2, <1>4, <1>5, <1>6 DEF SlotReads, PostedSlot
\* The slot of any other read of the batch is another one.
<1>11. \A d \in Batch : reads[d].slot \in Slots /\ d # c => reads[d].slot # s
  BY ONLY <1>0, <1>3 DEF BatchReads, Unfinished
<1>12. DoneReads'
  <2>1. \A i \in 1 .. Len(bound_done) :
          /\ bound_done[i].ud \in Batch /\ bound_done[i].ud # c
          /\ reads[bound_done[i].ud].slot \in Slots
    BY ONLY <1>0 DEF DoneReads, BatchReads, Unfinished
  <2>2. \A i \in 1 .. Len(bound_done) :
          bound_done[i].status = OK => RightCell(bound_done[i].ud, reads[bound_done[i].ud].slot)'
    BY ONLY <1>0, <1>1, <1>6, <1>11, <2>1 DEF DoneReads
  <2> QED BY ONLY <1>0, <1>1, <1>6, <2>2 DEF DoneReads
<1>13. OverlapDelivers'
  <2>1. \A d \in Batch : reads[d].slot # NoVal /\ reads[d].result \notin {NoVal, TIMEOUT} =>
          reads[d].slot \in Slots /\ d # c
    BY ONLY <1>0, <1>3 DEF Batch, Created, Unfinished, BindTypes, BoundReads
  <2>2. \A d \in Batch : reads[d].slot # NoVal /\ reads[d].result \notin {NoVal, TIMEOUT} =>
          cell'[reads[d].slot] = cell[reads[d].slot]
    BY ONLY <1>4, <1>11, <2>1
  <2> QED BY ONLY <1>0, <1>1, <1>6, <2>2 DEF OverlapDelivers
<1>14. OnDevice'
  <2>0. /\ used_seen \in Nat /\ Len(used) \in Nat /\ used_seen <= Len(used)
        /\ Len(used') = Len(used) + 1 /\ used'[Len(used) + 1] = s
        /\ \A n \in 1 .. Len(used) : used'[n] = used[n] /\ used[n] \in Slots
    BY ONLY <1>0, <1>1, s \in Slots DEF BindTypes
  <2>1. \A n \in used_seen' + 1 .. Len(used') :
          \/ n = Len(used) + 1 /\ used'[n] = s
          \/ n \in used_seen + 1 .. Len(used) /\ used'[n] = used[n] /\ used[n] \in Slots
    BY ONLY <1>1, <2>0
  <2>2. \A n \in used_seen + 1 .. Len(used) :
          /\ dev = "ready" /\ slot_cookie[used[n]] # 0 /\ reads[slot_cookie[used[n]]].posted
          /\ used[n] \notin avail /\ used[n] \notin busy
          /\ chain[used[n]].status = OK
          /\ cell[used[n]] = IF reads[slot_cookie[used[n]]].poison THEN 0
                             ELSE slot_cookie[used[n]]
          /\ \A m \in used_seen + 1 .. Len(used) : used[m] = used[n] => m = n
    BY ONLY <1>0 DEF OnDevice, PostedSlot, RightCell
  <2>3. \A n \in used_seen + 1 .. Len(used) : used[n] # s
    BY ONLY <1>1, <2>2
  <2>4. s \notin avail
    BY ONLY <1>0, <1>1, <1>2 DEF OnDevice
  <2>5. ASSUME NEW n \in used_seen' + 1 .. Len(used')
        PROVE  /\ dev' = "ready" /\ slot_cookie[used'[n]] # 0 /\ reads[slot_cookie[used'[n]]].posted
               /\ used'[n] \notin avail' /\ used'[n] \notin busy'
               /\ chain'[used'[n]].status = OK
               /\ cell'[used'[n]] = IF reads[slot_cookie[used'[n]]].poison THEN 0
                                     ELSE slot_cookie[used'[n]]
               /\ \A m \in used_seen' + 1 .. Len(used') : used'[m] = used'[n] => m = n
    <3>1. CASE n = Len(used) + 1 /\ used'[n] = s
      BY ONLY <1>1, <1>2, <1>4, <1>5, <2>1, <2>3, <2>4, <3>1, s \in Slots DEF PostedSlot
    <3>2. CASE n \in used_seen + 1 .. Len(used) /\ used'[n] = used[n] /\ used[n] \in Slots
      <4>1. used'[n] = used[n] /\ used[n] \in Slots /\ used[n] # s
        BY ONLY <2>3, <3>2
      <4>2. cell'[used[n]] = cell[used[n]] /\ chain'[used[n]] = chain[used[n]]
        BY ONLY <1>4, <1>5, <4>1
      <4>3. \A m \in used_seen' + 1 .. Len(used') : used'[m] = used'[n] => m = n
        BY ONLY <2>1, <2>2, <3>2, <4>1
      <4>4. /\ dev = "ready" /\ slot_cookie[used[n]] # 0 /\ reads[slot_cookie[used[n]]].posted
            /\ used[n] \notin avail /\ used[n] \notin busy
            /\ chain[used[n]].status = OK
            /\ cell[used[n]] = IF reads[slot_cookie[used[n]]].poison THEN 0
                              ELSE slot_cookie[used[n]]
        BY ONLY <2>2, <3>2
      <4>5. /\ dev' = dev /\ slot_cookie' = slot_cookie /\ reads' = reads /\ avail' = avail
            /\ busy' \subseteq busy
        BY ONLY <1>1
      <4>6. used'[n] = used[n]
        BY ONLY <4>1
      <4> QED BY ONLY <4>2, <4>3, <4>4, <4>5, <4>6
    <3> QED BY ONLY <2>1, <2>5, <3>1, <3>2
  <2>6. dev' # "gone" => \A t \in avail' : PostedSlot(t)' /\ cell'[t] = 0 /\ t \notin busy'
    BY ONLY <1>0, <1>1, <1>4, <1>6, <2>4 DEF OnDevice, BindTypes
  <2>7. \A t \in busy' : dev' = "ready" /\ PostedSlot(t)' /\ cell'[t] = 0
    BY ONLY <1>0, <1>1, <1>4, <1>6 DEF OnDevice, BindTypes
  <2> QED BY ONLY <1>1, <2>5, <2>6, <2>7 DEF OnDevice, PostedSlot, RightCell
<1> QED BY ONLY <1>7, <1>8, <1>9, <1>10, <1>12, <1>13, <1>14 DEF BindInv

\* A poll hands every staged status to its read and empties the table.
LEMMA BoundPollKeeps ==
  ASSUME BindInv, Poll
  PROVE  BindInv'
<1>0. BindTypes /\ Bringup /\ BatchReads /\ SlotReads /\ OnDevice /\ DoneReads /\ OverlapDelivers
  BY DEF BindInv
<1>1. /\ pc = "poll" /\ avail' = avail \cup {reads[c].slot : c \in ToPost}
      /\ UNCHANGED <<unit, dev, unbind, slot_cookie, used, used_seen, cell, busy, waiter>>
  BY DEF Poll, bringUpVars
<1>a. \A i \in 1 .. Len(bound_done) : bound_done[i].status \in {OK, TIMEOUT}
  <2> DEFINE D == [ud : Cookies, status : {OK, TIMEOUT}]
  <2>1. bound_done \in Seq(D)
    BY ONLY <1>0 DEF BindTypes
  <2>2. \A i \in 1 .. Len(bound_done) : bound_done[i] \in D
    <3> HIDE DEF D
    <3> QED BY ONLY <2>1
  <2> QED BY ONLY <2>2
<1>2. \A i \in 1 .. Len(bound_done) : StagedFor(bound_done[i].ud) = {i}
  <2>1. ASSUME NEW i \in 1 .. Len(bound_done) PROVE StagedFor(bound_done[i].ud) = {i}
    <3>1. \A j \in 1 .. Len(bound_done) : bound_done[j].ud = bound_done[i].ud => j = i
      BY ONLY <1>0, <2>1 DEF DoneReads
    <3>2. Len(bound_done) \in Nat
      BY ONLY <1>0 DEF BindTypes
    <3>3. \A j \in 1 .. i - 1 : j \in 1 .. Len(bound_done) /\ j # i
      BY ONLY <2>1, <3>2
    <3> QED BY ONLY <2>1, <3>1, <3>3 DEF StagedFor
  <2> QED BY <2>1
<1>3. bound_done' = <<>>
  <2>1. (1 .. Len(bound_done)) \ UNION {StagedFor(c) : c \in Unfinished} = {}
    BY ONLY <1>0, <1>2 DEF DoneReads
  <2>2. bound_done' = AtPlaces(bound_done, {})
    BY ONLY Poll, <2>1 DEF Poll
  <2>3. Cardinality({}) = 0
    BY ONLY FS_EmptySet
  <2> QED BY ONLY <2>2, <2>3 DEF AtPlaces
\* What a read becomes.
<1>4. \A c \in Cookies : c \notin Unfinished => reads'[c] = reads[c]
  BY ONLY Poll DEF Poll
<1>5. ASSUME NEW c \in Unfinished
      PROVE  /\ reads[c] \in BoundReads /\ reads'[c] \in BoundReads /\ reads'[c].joined
             /\ reads'[c].slot = reads[c].slot /\ reads'[c].poison = reads[c].poison
             /\ reads'[c].posted
             /\ \/ reads'[c].result = NoVal
                \/ \E i \in 1 .. Len(bound_done) :
                     bound_done[i].ud = c /\ reads'[c].result = bound_done[i].status
             /\ (\E i \in 1 .. Len(bound_done) : bound_done[i].ud = c) => reads'[c].result # NoVal
  <2> DEFINE r == IF StagedFor(c) = {} THEN NoVal
                  ELSE bound_done[CHOOSE i \in StagedFor(c) : TRUE].status
  <2>1. c \in Cookies /\ reads[c] \in BoundReads
    BY ONLY <1>0, <1>5 DEF BindTypes, Unfinished, Batch, Created
  <2>2. reads'[c] = [slot |-> reads[c].slot, posted |-> TRUE, poison |-> reads[c].poison,
                     result |-> r, joined |-> TRUE]
    BY ONLY Poll, <1>5, <2>1 DEF Poll
  <2>3. \A i \in StagedFor(c) : i \in 1 .. Len(bound_done) /\ bound_done[i].ud = c
    BY ONLY TRUE DEF StagedFor
  <2>5. \/ r = NoVal
        \/ \E i \in 1 .. Len(bound_done) : bound_done[i].ud = c /\ r = bound_done[i].status
    BY ONLY <2>3
  <2>6. (\E i \in 1 .. Len(bound_done) : bound_done[i].ud = c) => r \in {OK, TIMEOUT}
    BY ONLY <1>a, <1>2, <2>3
  <2>7. OK # NoVal /\ TIMEOUT # NoVal
    BY ONLY BindingAssumption DEF OK, TIMEOUT
  <2>8. r \in {NoVal, OK, TIMEOUT}
    BY ONLY <1>a, <2>5
  <2> HIDE DEF r
  <2> QED BY ONLY <2>1, <2>2, <2>5, <2>6, <2>7, <2>8 DEF BoundReads
<1>6. reads' \in [Cookies -> BoundReads \cup {NoVal}]
  <2>1. reads' = [c \in Cookies |-> reads'[c]]
    BY ONLY Poll DEF Poll
  <2> QED BY ONLY <1>0, <1>4, <1>5, <2>1 DEF BindTypes
<1>7. Batch' = Batch /\ Unfinished \subseteq Batch /\ Batch \subseteq Cookies
  <2>1. \A c \in Cookies : (reads'[c] # NoVal /\ reads'[c].joined) <=> (reads[c] # NoVal /\ reads[c].joined)
    BY ONLY <1>4, <1>5, BindingAssumption DEF Unfinished, Batch, Created
  <2> QED BY ONLY <2>1 DEF Unfinished, Batch, Created
<1>8. \A c \in Cookies : c \in Unfinished' <=>
        c \in Unfinished /\ \A i \in 1 .. Len(bound_done) : bound_done[i].ud # c
  <2>1. ASSUME NEW c \in Cookies, c \in Unfinished'
        PROVE  c \in Unfinished /\ \A i \in 1 .. Len(bound_done) : bound_done[i].ud # c
    BY ONLY <1>4, <1>5, <1>7, <2>1 DEF Unfinished
  <2>2. ASSUME NEW c \in Unfinished, \A i \in 1 .. Len(bound_done) : bound_done[i].ud # c
        PROVE  c \in Unfinished'
    BY ONLY <1>5, <1>7, <2>2 DEF Unfinished
  <2> QED BY ONLY <2>1, <2>2
<1>9. \A s \in Slots : slot_cookie[s] # 0 =>
        /\ slot_cookie[s] \in Cookies /\ slot_cookie[s] \in Unfinished
        /\ slot_cookie[s] \in Unfinished' /\ reads[slot_cookie[s]].slot = s
  BY ONLY <1>0, <1>8 DEF BindTypes, SlotReads, DoneReads
<1>10. \A c \in ToPost : /\ c \in Unfinished /\ ~reads[c].posted /\ reads[c].slot \in Slots
                         /\ slot_cookie[reads[c].slot] = c /\ c # 0 /\ c \in Cookies
  BY ONLY <1>0, <1>7, BindingAssumption DEF ToPost, BatchReads, Cookies
<1>11. /\ chain' \in [Slots -> [ud : Cookies \cup {0}, frame : {"data", "poison"},
                                status : {OK, SENTINEL}]]
       /\ \A s \in Slots : slot_cookie[s] \notin ToPost => chain'[s] = chain[s]
       /\ \A s \in Slots : slot_cookie[s] \in ToPost =>
            /\ chain'[s].ud = slot_cookie[s]
            /\ chain'[s].frame = IF reads[slot_cookie[s]].poison THEN "poison" ELSE "data"
  <2>1. chain' = [s \in Slots |->
          IF slot_cookie[s] \in ToPost
          THEN [ud |-> slot_cookie[s], frame |-> IF reads[slot_cookie[s]].poison
                                                 THEN "poison" ELSE "data", status |-> SENTINEL]
          ELSE chain[s]]
    BY ONLY Poll DEF Poll
  <2> QED BY ONLY <1>0, <2>1 DEF BindTypes
<1>12. BindTypes'
  <2>1. avail' \in SUBSET Slots
    BY ONLY <1>0, <1>1, <1>10 DEF BindTypes
  <2>2. bound_done' \in Seq([ud : Cookies, status : {OK, TIMEOUT}])
    BY ONLY <1>3
  <2> QED BY ONLY <1>0, <1>1, <1>6, <1>11, <2>1, <2>2 DEF BindTypes
<1>13. pc' \in {"idle", "ring"} /\ (pc' = "idle" => Unfinished' = {})
  <2>1. pc' = IF \A c \in Batch : reads'[c].result # NoVal THEN "idle" ELSE "ring"
    BY ONLY Poll DEF Poll
  <2> QED BY ONLY <1>7, <2>1 DEF Unfinished
<1>14. Bringup'
  BY ONLY <1>0, <1>1, <1>13 DEF Bringup
<1>15. \A c \in Batch : reads'[c].slot = reads[c].slot /\ reads'[c].poison = reads[c].poison
  BY ONLY <1>4, <1>5, <1>7
<1>16. BatchReads'
  <2>1. \A c \in Unfinished' : c \in Unfinished /\ c \in Batch
    BY ONLY <1>7, <1>8 DEF Unfinished
  <2>2. \A c, d \in Batch : reads'[c].slot \in Slots /\ reads'[c].slot = reads'[d].slot => c = d
    BY ONLY <1>0, <1>15 DEF BatchReads
  <2>3. \A c \in Unfinished' : reads'[c].slot \in Slots /\ reads'[c].posted
    BY ONLY <1>0, <1>5, <2>1 DEF BatchReads
  <2> QED BY ONLY <1>7, <1>13, <2>2, <2>3 DEF BatchReads
<1>17. SlotReads'
  <2>1. ASSUME NEW s \in Slots, slot_cookie[s] # 0
        PROVE  /\ slot_cookie[s] \in Unfinished' /\ reads'[slot_cookie[s]].slot = s
               /\ reads'[slot_cookie[s]].posted
               /\ chain'[s].ud = slot_cookie[s]
               /\ chain'[s].frame = IF reads'[slot_cookie[s]].poison THEN "poison" ELSE "data"
    <3>1. /\ slot_cookie[s] \in Unfinished' /\ reads'[slot_cookie[s]].slot = s
          /\ reads'[slot_cookie[s]].posted
          /\ reads'[slot_cookie[s]].poison = reads[slot_cookie[s]].poison
      BY ONLY <1>5, <1>9, <2>1
    <3>2. CASE slot_cookie[s] \in ToPost
      BY ONLY <1>11, <2>1, <3>1, <3>2
    <3>3. CASE slot_cookie[s] \notin ToPost
      <4>1. reads[slot_cookie[s]].posted
        BY ONLY <1>9, <2>1, <3>3 DEF ToPost
      <4> QED BY ONLY <1>0, <1>11, <2>1, <3>1, <3>3, <4>1 DEF SlotReads
    <3> QED BY ONLY <3>2, <3>3
  <2> QED BY ONLY <1>1, <2>1 DEF SlotReads
<1>18. \A s \in Slots : slot_cookie[s] # 0 =>
         /\ reads'[slot_cookie[s]].posted
         /\ reads'[slot_cookie[s]].poison = reads[slot_cookie[s]].poison
  BY ONLY <1>5, <1>9
\* A slot posted by this poll was neither published, served nor finished.
<1>19. \A c \in ToPost : ~PostedSlot(reads[c].slot) /\ cell[reads[c].slot] = 0
  BY ONLY <1>0, <1>10 DEF PostedSlot, SlotReads
<1>20. OnDevice'
  <2>1. \A n \in used_seen + 1 .. Len(used) : used[n] \in Slots
    BY ONLY <1>0 DEF BindTypes
  <2>2. ASSUME dev # "gone", NEW s \in avail'
        PROVE  slot_cookie[s] # 0 /\ reads'[slot_cookie[s]].posted /\ cell[s] = 0 /\ s \notin busy
    <3>1. CASE s \in avail
      BY ONLY <1>0, <1>18, <2>2, <3>1 DEF OnDevice, PostedSlot, BindTypes
    <3>2. CASE \E c \in ToPost : s = reads[c].slot
      BY ONLY <1>0, <1>10, <1>18, <1>19, <3>2 DEF OnDevice
    <3> QED BY ONLY <1>1, <2>2, <3>1, <3>2
  <2>3. \A s \in busy : slot_cookie[s] # 0 /\ reads'[slot_cookie[s]].posted /\ cell[s] = 0
    BY ONLY <1>0, <1>18 DEF OnDevice, PostedSlot, BindTypes
  <2>4. ASSUME NEW n \in used_seen + 1 .. Len(used)
        PROVE  /\ slot_cookie[used[n]] # 0 /\ reads'[slot_cookie[used[n]]].posted
               /\ used[n] \notin avail' /\ chain'[used[n]].status = OK
               /\ cell[used[n]] = IF reads'[slot_cookie[used[n]]].poison THEN 0
                                  ELSE slot_cookie[used[n]]
    <3>1. /\ PostedSlot(used[n]) /\ used[n] \notin avail /\ chain[used[n]].status = OK
          /\ RightCell(slot_cookie[used[n]], used[n]) /\ used[n] \in Slots
      BY ONLY <1>0, <2>1, <2>4 DEF OnDevice
    <3>2. used[n] \notin avail'
      BY ONLY <1>1, <1>19, <3>1
    <3>3. slot_cookie[used[n]] \notin ToPost
      BY ONLY <3>1 DEF PostedSlot, ToPost
    <3> QED BY ONLY <1>11, <1>18, <3>1, <3>2, <3>3 DEF PostedSlot, RightCell
  <2> QED BY ONLY <1>0, <1>1, <2>2, <2>3, <2>4 DEF OnDevice, PostedSlot, RightCell
<1>21. DoneReads'
  BY ONLY <1>3 DEF DoneReads
<1>22. OverlapDelivers'
  <2>1. ASSUME NEW c \in Batch, reads'[c].slot # NoVal, reads'[c].result \notin {NoVal, TIMEOUT}
        PROVE  /\ reads'[c].result = OK
               /\ cell[reads'[c].slot] = IF reads'[c].poison THEN 0 ELSE c
    <3>1. CASE c \in Unfinished
      <4>1. PICK i \in 1 .. Len(bound_done) :
              bound_done[i].ud = c /\ reads'[c].result = bound_done[i].status
        BY ONLY <1>5, <2>1, <3>1
      <4>2. bound_done[i].status = OK
        BY ONLY <1>a, <2>1, <4>1
      <4>3. RightCell(c, reads[c].slot)
        BY ONLY <1>0, <4>1, <4>2 DEF DoneReads
      <4> QED BY ONLY <1>15, <2>1, <4>1, <4>2, <4>3 DEF RightCell
    <3>2. CASE c \notin Unfinished
      <4>1. reads'[c] = reads[c]
        BY ONLY <1>4, <1>7, <2>1, <3>2
      <4> QED BY ONLY <1>0, <2>1, <4>1 DEF OverlapDelivers
    <3> QED BY ONLY <3>1, <3>2
  <2> QED BY ONLY <1>1, <1>7, <2>1 DEF OverlapDelivers
<1> QED BY ONLY <1>12, <1>14, <1>16, <1>17, <1>20, <1>21, <1>22 DEF BindInv

\* The entries at some places are those at the places' ranks.
LEMMA PickedAt ==
  ASSUME NEW N \in Nat, NEW S \in SUBSET (1 .. N), NEW q
  PROVE  /\ Cardinality(S) \in Nat
         /\ \E f \in [1 .. Cardinality(S) -> S] :
              /\ AtPlaces(q, S) = [i \in 1 .. Cardinality(S) |-> q[f[i]]]
              /\ \A i, j \in 1 .. Cardinality(S) : i < j => f[i] < f[j]
<1> DEFINE Nth(i) == CHOOSE k \in S : Cardinality({j \in S : j <= k}) = i
<1>1. Cardinality(S) \in Nat
  BY Ranks
<1>2. PICK f \in [1 .. Cardinality(S) -> S] :
        /\ \A i \in 1 .. Cardinality(S) : f[i] = Nth(i)
        /\ \A i, j \in 1 .. Cardinality(S) : i < j => f[i] < f[j]
  <2>1. RanksOrder(S)
    BY NthPlaces
  <2> QED BY ONLY <2>1 DEF RanksOrder
<1>3. AtPlaces(q, S) = [i \in 1 .. Cardinality(S) |-> q[Nth(i)]]
  BY DEF AtPlaces
<1> HIDE DEF Nth
<1>4. AtPlaces(q, S) = [i \in 1 .. Cardinality(S) |-> q[f[i]]]
  BY ONLY <1>2, <1>3
<1> QED BY ONLY <1>1, <1>2, <1>4

\* bound_fail_all: every read in flight is staged as timed out, and its slot freed.
LEMMA WaitFailsKeeps ==
  ASSUME BindInv, BindWaitFails
  PROVE  BindInv'
<1> DEFINE P == {s \in Slots : slot_cookie[s] # 0}
           D == [ud : Cookies, status : {OK, TIMEOUT}]
<1>0. BindTypes /\ Bringup /\ BatchReads /\ SlotReads /\ OnDevice /\ DoneReads /\ OverlapDelivers
  BY DEF BindInv
<1>1. /\ pc = "wait" /\ dev # "ready" /\ pc' = "reap"
      /\ slot_cookie' = [s \in Slots |-> 0]
      /\ bound_done' = bound_done \o [i \in 1 .. Len(Outstanding) |->
                                        [ud |-> Outstanding[i], status |-> TIMEOUT]]
      /\ UNCHANGED <<unit, dev, unbind, reads, chain, used_seen, avail, used, busy, cell, waiter>>
  BY DEF BindWaitFails, bringUpVars, deviceVars
<1>2. dev = "gone" /\ bound_done = <<>> /\ busy = {}
  BY ONLY <1>0, <1>1 DEF Bringup, DoneReads, OnDevice
<1>3. \A n \in used_seen + 1 .. Len(used) : FALSE
  BY ONLY <1>0, <1>1 DEF OnDevice
<1>4. Chains \in Nat /\ P \in SUBSET (1 .. Chains)
  BY ONLY BindingAssumption DEF Slots
<1> HIDE DEF P
<1>5. Cardinality(P) \in Nat
  BY ONLY <1>4, PickedAt
<1>6. PICK f \in [1 .. Cardinality(P) -> P] :
        /\ AtPlaces(slot_cookie, P) = [i \in 1 .. Cardinality(P) |-> slot_cookie[f[i]]]
        /\ \A i, j \in 1 .. Cardinality(P) : i < j => f[i] < f[j]
  BY ONLY <1>4, PickedAt
<1>7. Outstanding = [i \in 1 .. Cardinality(P) |-> slot_cookie[f[i]]]
  <2>1. Outstanding = AtPlaces(slot_cookie, P)
    BY ONLY TRUE DEF Outstanding, P
  <2> QED BY ONLY <1>6, <2>1
<1>8. \A i \in 1 .. Cardinality(P) :
        /\ f[i] \in Slots /\ slot_cookie[f[i]] # 0 /\ slot_cookie[f[i]] \in Cookies
        /\ slot_cookie[f[i]] \in Unfinished /\ reads[slot_cookie[f[i]]].slot = f[i]
        /\ reads[slot_cookie[f[i]]].posted
  <2>1. \A i \in 1 .. Cardinality(P) : f[i] \in Slots /\ slot_cookie[f[i]] # 0
    <3>1. \A i \in 1 .. Cardinality(P) : f[i] \in P
      BY ONLY f \in [1 .. Cardinality(P) -> P]
    <3> QED BY ONLY <3>1 DEF P
  <2>2. \A i \in 1 .. Cardinality(P) :
          /\ slot_cookie[f[i]] \in Cookies /\ slot_cookie[f[i]] \in Unfinished
          /\ reads[slot_cookie[f[i]]].slot = f[i]
    BY ONLY <1>0, <2>1 DEF BindTypes, SlotReads
  <2> QED BY ONLY <1>0, <1>1, <2>1, <2>2 DEF BatchReads
<1> DEFINE g == [i \in 1 .. Cardinality(P) |-> [ud |-> slot_cookie[f[i]], status |-> TIMEOUT]]
<1>9. g \in Seq(D) /\ Len(g) = Cardinality(P)
      /\ \A i \in 1 .. Cardinality(P) : g[i].ud = slot_cookie[f[i]] /\ g[i].status = TIMEOUT
  <2>1. g \in [1 .. Cardinality(P) -> D]
    BY ONLY <1>8
  <2>2. \A i \in 1 .. Cardinality(P) : g[i].ud = slot_cookie[f[i]] /\ g[i].status = TIMEOUT
    OBVIOUS
  <2> HIDE DEF g, D
  <2>3. g \in Seq(D) /\ Len(g) = Cardinality(P)
    BY ONLY <1>5, <2>1
  <2> QED BY ONLY <2>2, <2>3
<1>10. bound_done' = g
  <2>1. Len(Outstanding) = Cardinality(P)
    BY ONLY <1>5, <1>7
  <2>2. [i \in 1 .. Len(Outstanding) |-> [ud |-> Outstanding[i], status |-> TIMEOUT]] = g
    BY ONLY <1>7, <2>1
  <2>3. bound_done' = <<>> \o g
    BY ONLY <1>1, <1>2, <2>2
  <2> HIDE DEF g
  <2> QED BY ONLY <1>9, <2>3
<1> HIDE DEF g
<1>11. Unfinished' = Unfinished /\ Batch' = Batch
  BY ONLY <1>1 DEF Unfinished, Batch, Created
<1>12. BindTypes'
  BY ONLY <1>0, <1>1, <1>9, <1>10 DEF BindTypes
<1>13. Bringup'
  BY ONLY <1>0, <1>1 DEF Bringup
<1>14. BatchReads'
  BY ONLY <1>0, <1>1, <1>11 DEF BatchReads
<1>15. SlotReads'
  BY ONLY <1>1 DEF SlotReads
<1>16. OnDevice'
  BY ONLY <1>1, <1>2, <1>3 DEF OnDevice
<1>17. DoneReads'
  <2>1. \A i, j \in 1 .. Cardinality(P) : slot_cookie[f[i]] = slot_cookie[f[j]] => i = j
    <3>1. \A i, j \in 1 .. Cardinality(P) : f[i] = f[j] => i = j
      <4>1. \A i \in 1 .. Cardinality(P) : f[i] \in Int /\ i \in Int
        BY ONLY <1>4, <1>5, <1>8 DEF Slots
      <4> QED BY ONLY <1>6, <4>1
    <3> QED BY ONLY <1>8, <3>1
  <2>2. OK # TIMEOUT /\ 0 \notin Cookies
    BY ONLY BindingAssumption DEF OK, TIMEOUT, Cookies
  <2>3. \A i \in 1 .. Len(g) :
          /\ g[i].ud \in Unfinished /\ reads[g[i].ud].posted
          /\ \A s \in Slots : slot_cookie'[s] # g[i].ud
          /\ g[i].status # OK
          /\ \A j \in 1 .. Len(g) : g[j].ud = g[i].ud => j = i
    <3>1. \A s \in Slots : slot_cookie'[s] = 0
      BY ONLY <1>1
    <3> QED BY ONLY <1>8, <1>9, <2>1, <2>2, <3>1
  <2>4. reads' = reads /\ pc' = "reap"
    BY ONLY <1>1
  <2> QED BY ONLY <1>10, <1>11, <2>3, <2>4 DEF DoneReads
<1>18. OverlapDelivers'
  BY ONLY <1>0, <1>1, <1>11 DEF OverlapDelivers
<1> QED BY ONLY <1>12, <1>13, <1>14, <1>15, <1>16, <1>17, <1>18 DEF BindInv

\* bound_reap: every finished chain is staged under the cookie of its slot.
LEMMA ReapBoundKeeps ==
  ASSUME BindInv, BoundReap
  PROVE  BindInv'
<1> DEFINE D == [ud : Cookies, status : {OK, TIMEOUT}]
           e == Len(used) - used_seen
           w(i) == used[used_seen + i]
           g == [i \in 1 .. e |-> [ud |-> slot_cookie[w(i)], status |-> chain[w(i)].status]]
<1>0. BindTypes /\ Bringup /\ BatchReads /\ SlotReads /\ OnDevice /\ DoneReads /\ OverlapDelivers
  BY DEF BindInv
<1>1. /\ pc = "reap" /\ pc' = "poll"
      /\ bound_done' = bound_done \o g
      /\ slot_cookie' = [s \in Slots |-> IF \E n \in used_seen + 1 .. Len(used) : used[n] = s
                                         THEN 0 ELSE slot_cookie[s]]
      /\ used_seen' = Len(used)
      /\ UNCHANGED <<unit, dev, unbind, reads, chain, avail, used, busy, cell, waiter>>
  BY DEF BoundReap, bringUpVars, deviceVars, SlotOfHead
<1>2. /\ e \in Nat /\ used_seen \in Nat /\ Len(used) \in Nat /\ Len(bound_done) \in Nat
      /\ \A n \in used_seen + 1 .. Len(used) : used[n] \in Slots
  BY ONLY <1>0 DEF BindTypes
<1>3. \A i \in 1 .. e : used_seen + i \in used_seen + 1 .. Len(used)
  BY ONLY <1>2
<1>4. \A i, j \in 1 .. e : w(i) = w(j) => i = j
  <2>1. \A i, j \in 1 .. e : w(i) = w(j) => used_seen + i = used_seen + j
    BY ONLY <1>0, <1>3 DEF OnDevice
  <2>2. \A i, j \in 1 .. e : used_seen + i = used_seen + j => i = j
    BY ONLY <1>2
  <2> QED BY ONLY <2>1, <2>2
<1>5. ASSUME NEW i \in 1 .. e
      PROVE  /\ w(i) \in Slots /\ dev = "ready" /\ chain[w(i)].status = OK
             /\ slot_cookie[w(i)] # 0 /\ slot_cookie[w(i)] \in Cookies
             /\ slot_cookie[w(i)] \in Unfinished /\ reads[slot_cookie[w(i)]].posted
             /\ reads[slot_cookie[w(i)]].slot = w(i)
             /\ RightCell(slot_cookie[w(i)], w(i))
             /\ slot_cookie'[w(i)] = 0
  <2>1. /\ w(i) \in Slots /\ dev = "ready" /\ chain[w(i)].status = OK /\ PostedSlot(w(i))
        /\ RightCell(slot_cookie[w(i)], w(i))
    BY ONLY <1>0, <1>2, <1>3, <1>5 DEF OnDevice
  <2>2. slot_cookie'[w(i)] = 0
    BY ONLY <1>1, <1>3, <1>5, <2>1
  <2> HIDE DEF w
  <2> QED BY ONLY <1>0, <2>1, <2>2 DEF PostedSlot, BindTypes, SlotReads
<1> HIDE DEF w
<1>6. g \in Seq(D) /\ Len(g) = e
      /\ \A i \in 1 .. e : g[i].ud = slot_cookie[w(i)] /\ g[i].status = OK
  <2>1. g \in [1 .. e -> D]
    BY ONLY <1>5
  <2> HIDE DEF e
  <2> QED BY ONLY <1>2, <1>5, <2>1
<1> HIDE DEF g, e
<1>7. /\ bound_done' \in Seq(D) /\ Len(bound_done') = Len(bound_done) + e
      /\ \A k \in 1 .. Len(bound_done) : bound_done'[k] = bound_done[k]
      /\ \A k \in Len(bound_done) + 1 .. Len(bound_done) + e :
           bound_done'[k] = g[k - Len(bound_done)]
  <2>1. bound_done \in Seq(D)
    BY ONLY <1>0 DEF BindTypes
  <2>2. g \in Seq(D) /\ Len(g) = e /\ bound_done' = bound_done \o g
    BY ONLY <1>1, <1>6
  <2> HIDE DEF D
  <2>3. bound_done' \in Seq(D) /\ Len(bound_done') = Len(bound_done) + e
    BY ONLY <2>1, <2>2
  <2>4. \A k \in 1 .. Len(bound_done) : bound_done'[k] = bound_done[k]
    BY ONLY <2>1, <2>2
  <2>5. \A k \in Len(bound_done) + 1 .. Len(bound_done) + e :
           bound_done'[k] = g[k - Len(bound_done)]
    <3>1. \A k \in 1 .. Len(bound_done) + Len(g) :
            (bound_done \o g)[k] = IF k <= Len(bound_done) THEN bound_done[k]
                                   ELSE g[k - Len(bound_done)]
      BY ONLY <2>1, <2>2
    <3>2. \A k \in Len(bound_done) + 1 .. Len(bound_done) + e :
            k \in 1 .. Len(bound_done) + e /\ ~(k <= Len(bound_done))
      BY ONLY <1>2
    <3> QED BY ONLY <2>2, <3>1, <3>2
  <2> QED BY ONLY <2>3, <2>4, <2>5
<1>8. \A k \in 1 .. Len(bound_done') :
        \/ k \in 1 .. Len(bound_done)
        \/ \E i \in 1 .. e : k = Len(bound_done) + i
  <2>1. ASSUME NEW k \in 1 .. Len(bound_done'), ~(k \in 1 .. Len(bound_done))
        PROVE  k - Len(bound_done) \in 1 .. e /\ k = Len(bound_done) + (k - Len(bound_done))
    BY ONLY <1>2, <1>7, <2>1
  <2> QED BY <2>1
<1>9. \A i \in 1 .. e : bound_done'[Len(bound_done) + i] = g[i]
  <2>1. ASSUME NEW i \in 1 .. e
        PROVE  /\ Len(bound_done) + i \in Len(bound_done) + 1 .. Len(bound_done) + e
               /\ (Len(bound_done) + i) - Len(bound_done) = i
    BY ONLY <1>2, <2>1
  <2> QED BY ONLY <1>7, <2>1
<1>10. Unfinished' = Unfinished /\ Batch' = Batch
  BY ONLY <1>1 DEF Unfinished, Batch, Created
<1>11. \A s \in Slots : slot_cookie'[s] # 0 =>
         slot_cookie'[s] = slot_cookie[s] /\ \A i \in 1 .. e : w(i) # s
  BY ONLY <1>1, <1>5
<1>12. BindTypes'
  <2>1. slot_cookie' \in [Slots -> Cookies \cup {0}]
    BY ONLY <1>0, <1>1 DEF BindTypes
  <2>2. used_seen' \in Nat /\ used_seen' <= Len(used')
    BY ONLY <1>1, <1>2
  <2> QED BY ONLY <1>0, <1>1, <1>7, <2>1, <2>2 DEF BindTypes
<1>13. Bringup'
  BY ONLY <1>0, <1>1 DEF Bringup
<1>14. BatchReads'
  BY ONLY <1>0, <1>1, <1>10 DEF BatchReads
<1>15. SlotReads'
  BY ONLY <1>0, <1>1, <1>10, <1>11 DEF SlotReads
<1>16. OnDevice'
  <2>1. \A n \in used_seen' + 1 .. Len(used') : FALSE
    BY ONLY <1>1, <1>2
  <2>2. \A s \in Slots : (\A n \in used_seen + 1 .. Len(used) : used[n] # s) =>
          slot_cookie'[s] = slot_cookie[s]
    BY ONLY <1>1
  <2>3. dev # "gone" => \A s \in avail : slot_cookie'[s] = slot_cookie[s]
    BY ONLY <1>0, <2>2 DEF OnDevice, BindTypes
  <2>4. \A s \in busy : slot_cookie'[s] = slot_cookie[s]
    BY ONLY <1>0, <2>2 DEF OnDevice, BindTypes
  <2> QED BY ONLY <1>0, <1>1, <2>1, <2>3, <2>4 DEF OnDevice, PostedSlot
<1>17. DoneReads'
  <2>1. \A k \in 1 .. Len(bound_done) :
          /\ bound_done[k].ud \in Unfinished /\ reads[bound_done[k].ud].posted
          /\ \A s \in Slots : slot_cookie[s] # bound_done[k].ud
          /\ bound_done[k].status = OK =>
               cell[reads[bound_done[k].ud].slot] =
                 IF reads[bound_done[k].ud].poison THEN 0 ELSE bound_done[k].ud
          /\ \A j \in 1 .. Len(bound_done) : bound_done[j].ud = bound_done[k].ud => j = k
    BY ONLY <1>0 DEF DoneReads, RightCell
  <2>2. \A c \in Unfinished : c # 0
    BY ONLY BindingAssumption DEF Unfinished, Batch, Created, Cookies
  <2>3. ASSUME NEW k \in 1 .. Len(bound_done')
        PROVE  /\ bound_done'[k].ud \in Unfinished /\ reads[bound_done'[k].ud].posted
               /\ \A s \in Slots : slot_cookie'[s] # bound_done'[k].ud
               /\ bound_done'[k].status = OK =>
                    cell[reads[bound_done'[k].ud].slot] =
                      IF reads[bound_done'[k].ud].poison THEN 0 ELSE bound_done'[k].ud
    <3>1. CASE k \in 1 .. Len(bound_done)
      <4>1. bound_done'[k] = bound_done[k]
        BY ONLY <1>7, <3>1
      <4> QED BY ONLY <1>11, <2>1, <2>2, <3>1, <4>1
    <3>2. ASSUME NEW i \in 1 .. e, k = Len(bound_done) + i
          PROVE  /\ bound_done'[k].ud \in Unfinished /\ reads[bound_done'[k].ud].posted
                 /\ \A s \in Slots : slot_cookie'[s] # bound_done'[k].ud
                 /\ cell[reads[bound_done'[k].ud].slot] =
                      IF reads[bound_done'[k].ud].poison THEN 0 ELSE bound_done'[k].ud
      <4>1. bound_done'[k].ud = slot_cookie[w(i)]
        BY ONLY <1>6, <1>9, <3>2
      <4>2. \A s \in Slots : slot_cookie'[s] # slot_cookie[w(i)]
        BY ONLY <1>0, <1>5, <1>11, <3>2 DEF SlotReads
      <4> QED BY ONLY <1>5, <3>2, <4>1, <4>2 DEF RightCell
    <3> QED BY <1>8, <3>1, <3>2
  <2>4. ASSUME NEW k \in 1 .. Len(bound_done'), NEW j \in 1 .. Len(bound_done'),
               bound_done'[j].ud = bound_done'[k].ud
        PROVE  j = k
    <3>1. CASE k \in 1 .. Len(bound_done) /\ j \in 1 .. Len(bound_done)
      BY ONLY <1>7, <2>1, <2>4, <3>1
    <3>2. \A l \in 1 .. Len(bound_done), i \in 1 .. e :
            bound_done'[l].ud # bound_done'[Len(bound_done) + i].ud
      <4>1. ASSUME NEW l \in 1 .. Len(bound_done), NEW i \in 1 .. e
            PROVE  bound_done'[l].ud # bound_done'[Len(bound_done) + i].ud
        <5>1. bound_done'[l].ud = bound_done[l].ud
          BY ONLY <1>7, <4>1
        <5>2. bound_done'[Len(bound_done) + i].ud = slot_cookie[w(i)] /\ w(i) \in Slots
          BY ONLY <1>5, <1>6, <1>9, <4>1
        <5> QED BY ONLY <2>1, <4>1, <5>1, <5>2
      <4> QED BY ONLY <4>1
    <3>3. ASSUME NEW i \in 1 .. e, NEW l \in 1 .. e, k = Len(bound_done) + i, j = Len(bound_done) + l
          PROVE  j = k
      <4>1. slot_cookie[w(i)] = slot_cookie[w(l)]
        BY ONLY <1>6, <1>9, <2>4, <3>3
      <4>2. w(i) = w(l)
        BY ONLY <1>5, <3>3, <4>1
      <4> QED BY ONLY <1>4, <3>3, <4>2
    <3> QED BY <1>8, <2>4, <3>1, <3>2, <3>3
  <2> QED BY ONLY <1>1, <1>10, <2>3, <2>4 DEF DoneReads, RightCell
<1>18. OverlapDelivers'
  BY ONLY <1>0, <1>1, <1>10 DEF OverlapDelivers
<1> QED BY ONLY <1>12, <1>13, <1>14, <1>15, <1>16, <1>17, <1>18 DEF BindInv

\* The i-th free slot, when all of them are.
LEMMA FreeSlots ==
  ASSUME \A s \in Slots : slot_cookie[s] = 0
  PROVE  /\ \A i \in Nat \ {0} : i <= Chains => NthFree(i) \in Slots
         /\ \A i \in Nat \ {0} : i > Chains => NthFree(i) = NoVal
         /\ \A i, j \in Nat \ {0} :
              i <= Chains /\ j <= Chains /\ NthFree(i) = NthFree(j) => i = j
<1> DEFINE Nth(i) == CHOOSE k \in Slots : Cardinality({j \in Slots : j <= k}) = i
<1>1. Chains \in Nat /\ Slots \in SUBSET (1 .. Chains) /\ Slots = 1 .. Chains
  BY BindingAssumption DEF Slots
<1>2. Cardinality(Slots) = Chains
  BY <1>1, FS_Interval
<1>3. IdleSlots = Slots
  BY DEF IdleSlots
<1>4. \A i : NthFree(i) = IF i > Chains THEN NoVal ELSE Nth(i)
  BY ONLY <1>2, <1>3 DEF NthFree
<1>5. PICK f \in [1 .. Cardinality(Slots) -> Slots] :
        /\ \A i \in 1 .. Cardinality(Slots) : f[i] = Nth(i)
        /\ \A i, j \in 1 .. Cardinality(Slots) : i < j => f[i] < f[j]
  <2>1. RanksOrder(Slots)
    BY ONLY <1>1, NthPlaces
  <2> QED BY ONLY <2>1 DEF RanksOrder
<1> HIDE DEF Nth
<1>6. ASSUME NEW i \in Nat \ {0}, i <= Chains
      PROVE  i \in 1 .. Chains /\ NthFree(i) = f[i] /\ f[i] \in Slots /\ f[i] \in Int
  <2>1. i \in 1 .. Chains /\ ~(i > Chains)
    BY ONLY <1>1, <1>6
  <2>2. f[i] = Nth(i) /\ f[i] \in Slots
    BY ONLY <1>2, <1>5, <2>1
  <2> QED BY ONLY <1>1, <1>4, <2>1, <2>2
<1>7. ASSUME NEW i \in Nat \ {0}, NEW j \in Nat \ {0}, i <= Chains, j <= Chains,
             NthFree(i) = NthFree(j)
      PROVE  i = j
  <2>1. f[i] = f[j] /\ f[i] \in Int /\ f[j] \in Int /\ i \in 1 .. Chains /\ j \in 1 .. Chains
    BY ONLY <1>6, <1>7
  <2>2. (i < j => f[i] < f[j]) /\ (j < i => f[j] < f[i])
    BY ONLY <1>2, <1>5, <2>1
  <2> QED BY ONLY <1>7, <2>1, <2>2
<1> QED BY ONLY <1>1, <1>4, <1>6, <1>7

\* A batch begins with every slot free, and gives its reads slots of their own.
LEMMA JoinKeeps ==
  ASSUME BindInv, NEW n \in 1 .. MaxBatch, NEW poison \in BOOLEAN, JoinReads(n, poison)
  PROVE  BindInv'
<1> DEFINE first == Cardinality(Created)
           claimed(s) == \E i \in 1 .. n : NthFree(i) = s
           index(s) == CHOOSE i \in 1 .. n : NthFree(i) = s
<1>0. BindTypes /\ Bringup /\ OverlapDelivers
  BY DEF BindInv
<1>1. /\ pc = "idle" /\ pc' = "poll" /\ first + n <= MaxReads
      /\ reads' = [c \in Cookies |->
          IF c - first \in 1 .. n
          THEN [slot |-> NthFree(c - first), posted |-> FALSE, poison |-> poison,
                result |-> IF NthFree(c - first) = NoVal THEN TIMEOUT ELSE NoVal,
                joined |-> TRUE]
          ELSE IF c \in Created THEN [reads[c] EXCEPT !.joined = FALSE] ELSE NoVal]
      /\ slot_cookie' = [s \in Slots |-> IF claimed(s) THEN first + index(s) ELSE slot_cookie[s]]
      /\ cell' = [s \in Slots |-> IF claimed(s) THEN 0 ELSE cell[s]]
      /\ UNCHANGED <<unit, dev, unbind, bound_done, chain, avail, used, used_seen, busy, waiter>>
  BY DEF JoinReads, bringUpVars
<1>2. Unfinished = {}
  BY ONLY BindInv, <1>1 DEF BindInv, BatchReads
<1>3. /\ \A s \in Slots : slot_cookie[s] = 0
      /\ busy = {} /\ used_seen = Len(used) /\ bound_done = <<>>
      /\ dev # "gone" => avail = {}
  BY ONLY BindInv, <1>2, IdleAtRest
<1>4. first \in Nat
  <2>1. IsFiniteSet(Cookies)
    BY ONLY BindingAssumption, FS_Interval DEF Cookies
  <2>2. IsFiniteSet(Created)
    BY ONLY <2>1, FS_Subset DEF Created
  <2> QED BY ONLY <2>2, FS_CardinalityType
<1>5. n \in Nat /\ \A i \in 1 .. n : i \in Nat \ {0}
  BY ONLY n \in 1 .. MaxBatch, BindingAssumption
<1>6. /\ \A i \in 1 .. n : NthFree(i) \in Slots \cup {NoVal}
      /\ \A i, j \in 1 .. n : NthFree(i) \in Slots /\ NthFree(i) = NthFree(j) => i = j
  <2>1. NoVal \notin Slots /\ Chains \in Nat
    BY ONLY BindingAssumption DEF Slots
  <2>2. /\ \A i \in Nat \ {0} : i <= Chains => NthFree(i) \in Slots
        /\ \A i \in Nat \ {0} : i > Chains => NthFree(i) = NoVal
        /\ \A i, j \in Nat \ {0} :
              i <= Chains /\ j <= Chains /\ NthFree(i) = NthFree(j) => i = j
    BY ONLY <1>3, FreeSlots
  <2>3. \A i \in Nat \ {0} : i <= Chains \/ i > Chains
    BY ONLY <2>1
  <2> QED BY ONLY <1>5, <2>1, <2>2, <2>3
<1> HIDE DEF first
\* The new reads.
<1>7. ASSUME NEW c \in Cookies, c - first \in 1 .. n
      PROVE  /\ reads'[c] \in BoundReads /\ reads'[c] # NoVal /\ reads'[c].joined
             /\ reads'[c].slot = NthFree(c - first) /\ ~reads'[c].posted
             /\ reads'[c].result = IF NthFree(c - first) = NoVal THEN TIMEOUT ELSE NoVal
  <2>1. reads'[c] = [slot |-> NthFree(c - first), posted |-> FALSE, poison |-> poison,
                     result |-> IF NthFree(c - first) = NoVal THEN TIMEOUT ELSE NoVal,
                     joined |-> TRUE]
    BY ONLY <1>1, <1>7
  <2>2. reads'[c] \in BoundReads
    BY ONLY <1>6, <1>7, <2>1, poison \in BOOLEAN DEF BoundReads
  <2>3. reads'[c] # NoVal
    BY ONLY <2>2, BindingAssumption
  <2>4. /\ reads'[c].joined /\ reads'[c].slot = NthFree(c - first) /\ ~reads'[c].posted
        /\ reads'[c].result = IF NthFree(c - first) = NoVal THEN TIMEOUT ELSE NoVal
    BY ONLY <2>1
  <2> QED BY ONLY <2>2, <2>3, <2>4
<1>8. ASSUME NEW c \in Cookies, ~(c - first \in 1 .. n)
      PROVE  reads'[c] \in BoundReads \cup {NoVal} /\ (reads'[c] # NoVal => ~reads'[c].joined)
  <2>1. reads'[c] = IF c \in Created THEN [reads[c] EXCEPT !.joined = FALSE] ELSE NoVal
    BY ONLY <1>1, <1>8
  <2>2. c \in Created => reads[c] \in BoundReads
    BY ONLY <1>0 DEF BindTypes, Created
  <2> QED BY ONLY <2>1, <2>2 DEF BoundReads
<1>9. Batch' = {c \in Cookies : c - first \in 1 .. n}
  BY ONLY <1>7, <1>8 DEF Batch, Created
<1>10. \A c \in Unfinished' :
         /\ c \in Cookies /\ c - first \in 1 .. n /\ NthFree(c - first) \in Slots
         /\ reads'[c].slot = NthFree(c - first)
  <2>1. TIMEOUT # NoVal
    BY ONLY BindingAssumption DEF TIMEOUT
  <2> QED BY ONLY <1>6, <1>7, <1>9, <2>1 DEF Unfinished
\* The slots.
<1>11. ASSUME NEW s \in Slots, claimed(s)
       PROVE  /\ index(s) \in 1 .. n /\ NthFree(index(s)) = s
              /\ slot_cookie'[s] = first + index(s)
              /\ first + index(s) \in Cookies /\ (first + index(s)) - first = index(s)
              /\ cell'[s] = 0
  <2>1. index(s) \in 1 .. n /\ NthFree(index(s)) = s
    BY ONLY <1>11
  <2>2. slot_cookie'[s] = first + index(s) /\ cell'[s] = 0
    BY ONLY <1>1, <1>11
  <2> HIDE DEF index
  <2>3. first + index(s) \in Cookies /\ (first + index(s)) - first = index(s)
    BY ONLY <1>1, <1>4, <1>5, <2>1, BindingAssumption DEF Cookies
  <2> QED BY ONLY <2>1, <2>2, <2>3
<1>12. \A s \in Slots : ~claimed(s) => slot_cookie'[s] = 0 /\ cell'[s] = cell[s]
  BY ONLY <1>1, <1>3
<1> HIDE DEF claimed, index
<1>13. BindTypes'
  <2>1. reads' \in [Cookies -> BoundReads \cup {NoVal}]
    <3>1. reads' = [c \in Cookies |-> reads'[c]]
      BY ONLY <1>1
    <3> QED BY ONLY <1>7, <1>8, <3>1
  <2>2. slot_cookie' \in [Slots -> Cookies \cup {0}]
    <3>1. slot_cookie' = [s \in Slots |-> slot_cookie'[s]]
      BY ONLY <1>1
    <3> QED BY ONLY <1>11, <1>12, <3>1
  <2>3. cell' \in [Slots -> Nat]
    <3>1. cell' = [s \in Slots |-> cell'[s]]
      BY ONLY <1>1
    <3>2. \A s \in Slots : cell[s] \in Nat
      BY ONLY <1>0 DEF BindTypes
    <3>3. \A s \in Slots : cell'[s] \in Nat
      BY ONLY <1>11, <1>12, <3>2
    <3> QED BY ONLY <3>1, <3>3
  <2> QED BY ONLY <1>0, <1>1, <2>1, <2>2, <2>3 DEF BindTypes
<1>14. Bringup'
  BY ONLY <1>0, <1>1 DEF Bringup
<1>15. BatchReads'
  <2>1. \A c, d \in Batch' : reads'[c].slot \in Slots /\ reads'[c].slot = reads'[d].slot => c = d
    <3>1. ASSUME NEW c \in Batch', NEW d \in Batch', reads'[c].slot \in Slots,
                 reads'[c].slot = reads'[d].slot
          PROVE  c = d
      <4>1. c \in Nat /\ d \in Nat /\ c - first = d - first
        BY ONLY <1>6, <1>7, <1>9, <3>1, BindingAssumption DEF Cookies
      <4> QED BY ONLY <1>4, <4>1
    <3> QED BY ONLY <3>1
  <2>2. ASSUME NEW c \in Unfinished'
        PROVE  reads'[c].slot \in Slots /\ slot_cookie'[reads'[c].slot] = c
    <3> DEFINE s == NthFree(c - first)
    <3>1. c \in Cookies /\ c - first \in 1 .. n /\ s \in Slots /\ reads'[c].slot = s
      BY ONLY <1>10, <2>2
    <3>2. claimed(s)
      BY ONLY <3>1 DEF claimed
    <3>3. index(s) = c - first /\ slot_cookie'[s] = first + index(s)
      BY ONLY <1>6, <1>11, <3>1, <3>2
    <3>4. first + (c - first) = c
      BY ONLY <1>4, <3>1, BindingAssumption DEF Cookies
    <3> QED BY ONLY <3>1, <3>3, <3>4
  <2> QED BY ONLY <1>1, <2>1, <2>2 DEF BatchReads
<1>16. SlotReads'
  <2>1. ASSUME NEW s \in Slots, slot_cookie'[s] # 0
        PROVE  /\ slot_cookie'[s] \in Unfinished' /\ reads'[slot_cookie'[s]].slot = s
               /\ ~reads'[slot_cookie'[s]].posted /\ cell'[s] = 0
    <3>1. claimed(s)
      BY ONLY <1>12, <2>1
    <3> DEFINE c == slot_cookie'[s]
    <3>2. /\ c \in Cookies /\ c - first \in 1 .. n /\ NthFree(c - first) = s /\ cell'[s] = 0
      BY ONLY <1>11, <2>1, <3>1
    <3>3. s # NoVal
      BY ONLY BindingAssumption, s \in Slots DEF Slots
    <3> QED BY ONLY <1>7, <1>9, <3>2, <3>3 DEF Unfinished
  <2> QED BY ONLY <2>1 DEF SlotReads
<1>17. OnDevice'
  <2>1. \A k \in used_seen' + 1 .. Len(used') : FALSE
    <3>1. used_seen' = Len(used') /\ used_seen' \in Nat
      BY ONLY <1>0, <1>1, <1>3 DEF BindTypes
    <3> QED BY ONLY <3>1
  <2>2. busy' = {} /\ (dev' # "gone" => avail' = {})
    BY ONLY <1>1, <1>3
  <2> QED BY ONLY <2>1, <2>2 DEF OnDevice
<1>18. DoneReads'
  BY ONLY <1>1, <1>3 DEF DoneReads
<1>19. OverlapDelivers'
  <2>1. \A c \in Batch' : reads'[c].result \in {NoVal, TIMEOUT}
    BY ONLY <1>7, <1>9
  <2> QED BY ONLY <2>1 DEF OverlapDelivers
<1> QED BY ONLY <1>13, <1>14, <1>15, <1>16, <1>17, <1>18, <1>19 DEF BindInv

\* Every step keeps the invariant.
LEMMA BindSteps == BindInv /\ [BindNext]_bindVars => BindInv'
BY QuietStepsKeep, IdleStepsKeep, FetchKeeps, FinishKeeps, BoundPollKeeps, WaitFailsKeeps,
   ReapBoundKeeps, JoinKeeps
   DEF BindNext, Executor, BoundDeviceStep

\* However many reads overlap, in whatever order the device finishes them and
\* however the completions fall into wakes, each is reported with its own status
\* and its own sector, and a device that is told a foreign address delivers
\* nothing; also across a release of the device.
THEOREM OverlapsDeliver == BindSpec => []OverlapDelivers
<1>1. BindInv => OverlapDelivers
  BY DEF BindInv
<1> QED BY <1>1, BindStarts, BindSteps, PTL DEF BindSpec

============================================================================
