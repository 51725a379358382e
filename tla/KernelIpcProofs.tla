-------------------------- MODULE KernelIpcProofs --------------------------
(***************************************************************************)
(* Theorems about KernelIpc, for every number of processes, capability     *)
(* slots, endpoints and frames and every boot scenario.                    *)
(***************************************************************************)
EXTENDS KernelIpc, WellFoundedInduction, FiniteSetTheorems, TLAPS

----------------------------------------------------------------------------
(* What the table operations of Capability promise, for every table size:  *)
(* where a capability lands, and that every operation keeps a good table   *)
(* good.                                                                   *)

\* A table whose reserved slots are empty ("A reserved slot is empty but not
\* allocatable", ABI.md).
GoodTables == {t \in Tables : \A s \in t.reserved : t.slots[s] = None}

\* The empty slots of a table, reserved or not.
EmptySlots(t) == {s \in Slots : t.slots[s] = None}

\* A non-empty set of numbers has a least element.
LEMMA LeastExists ==
  ASSUME NEW S \in SUBSET Nat, S # {}
  PROVE  \E s \in S : \A r \in S : s <= r
<1> DEFINE Less == {ss \in Nat \X Nat : ss[1] < ss[2]}
<1>1. IsWellFoundedOn(Less, Nat)
  BY NatLessThanWellFounded, Zenon DEF OpToRel
<1>2. \A x, y \in S : ~(<<y, x>> \in Less) => x <= y
  <2>1. ASSUME NEW x \in S, NEW y \in S, ~(x <= y)
        PROVE  <<y, x>> \in Less
    BY <2>1
  <2> QED BY <2>1
<1> HIDE DEF Less
<1>3. \E x \in S : \A y \in S : ~(<<y, x>> \in Less)
  BY <1>1, WFMin
<1> QED BY <1>2, <1>3

\* install lands in a free slot, and finds one whenever there is one.
LEMMA InstallSlotFree ==
  ASSUME NEW t \in Tables
  PROVE  /\ FreeSlots(t) # {} => InstallSlot(t) \in FreeSlots(t)
         /\ FreeSlots(t) = {} => InstallSlot(t) = None
<1>1. FreeSlots(t) \in SUBSET Nat
  BY DEF FreeSlots, Slots
<1>2. CASE FreeSlots(t) # {}
  BY <1>1, <1>2, LeastExists DEF InstallSlot
<1>3. CASE FreeSlots(t) = {}
  BY <1>3 DEF InstallSlot
<1> QED BY <1>2, <1>3

\* Every landing rule names an empty slot, or no slot at all.
LEMMA LandsInEmptySlot ==
  ASSUME NEW t \in Tables, NEW home, NEW prior, NEW dest
  PROVE  /\ InstallSlot(t) \in EmptySlots(t) \cup {None}
         /\ ReclaimSlot(t, home) \in EmptySlots(t) \cup {None}
         /\ InstallHomeSlot(t, prior, dest) \in EmptySlots(t) \cup {None}
<1>1. InstallSlot(t) \in EmptySlots(t) \cup {None}
  BY InstallSlotFree DEF FreeSlots, EmptySlots
<1>2. ASSUME NEW h PROVE ReclaimSlot(t, h) \in EmptySlots(t) \cup {None}
  BY <1>1 DEF ReclaimSlot, CanReclaimTo, EmptySlots, Tables
<1> QED BY <1>1, <1>2 DEF InstallHomeSlot

\* Placing a capability where a landing rule says.
LEMMA PutGood ==
  ASSUME NEW t \in GoodTables, NEW s \in EmptySlots(t) \cup {None},
         NEW cap \in Caps
  PROVE  Put(t, s, cap) \in GoodTables
<1>1. CASE s = None
  BY <1>1 DEF Put
<1>2. CASE s # None
  BY <1>2 DEF Put, GoodTables, Tables, EmptySlots
<1> QED BY <1>1, <1>2

\* Taking a capability out, for good or as a loan that reserves its slot.
LEMMA TakeGood ==
  ASSUME NEW t \in GoodTables, NEW s \in Slots
  PROVE  Revoke(t, s) \in GoodTables /\ RevokeForLend(t, s) \in GoodTables
<1>1. Revoke(t, s) \in GoodTables
  BY DEF GoodTables, Tables, Revoke
<1>2. RevokeForLend(t, s) \in GoodTables
  BY DEF GoodTables, Tables, RevokeForLend
<1> QED BY <1>1, <1>2

\* The sweep at a lender's exit.
LEMMA ClearOriginGood ==
  ASSUME NEW t \in GoodTables, NEW lender \in Procs
  PROVE  ClearOrigin(t, lender) \in GoodTables
  BY DEF GoodTables, Tables, ClearOrigin, Caps, CapRecords, Ids

\* The table of a slot that holds no process.
LEMMA EmptyTableGood == EmptyTable \in GoodTables
  BY DEF GoodTables, EmptyTable, Tables

\* The homecoming rule yields a capability.
LEMMA LentToType ==
  ASSUME NEW cap \in Caps, NEW source \in Origins, NEW dest
  PROVE  LentTo(cap, source, dest) \in Caps
  BY DEF LentTo, Caps, CapRecords, Origins

\* Minting yields a capability.
LEMMA CapType ==
  ASSUME NEW kind \in Kinds, NEW id \in Nat \cap Ids(kind),
         NEW rights \in SUBSET Rights
  PROVE  Cap(kind, id, rights) \in Caps
  BY DEF Cap, Caps, CapRecords

----------------------------------------------------------------------------
(* What an operation leaves alone.                                         *)

\* Outside S, what t holds u holds too, and it is of the same kind.
Keeps(t, u, S) == \A s \in Slots \ S :
  t.slots[s] # None => u.slots[s] # None /\ u.slots[s].kind = t.slots[s].kind

\* A table that has not changed is kept.
LEMMA SameKeeps == ASSUME NEW t, NEW S PROVE Keeps(t, t, S)
  BY DEF Keeps

\* What is kept twice is kept.
LEMMA KeepsTrans ==
  ASSUME NEW t, NEW u, NEW v, NEW S, Keeps(t, u, S), Keeps(u, v, {})
  PROVE  Keeps(t, v, S)
  BY DEF Keeps

\* A landing displaces nothing.
LEMMA PutKeeps ==
  ASSUME NEW t \in Tables, NEW s \in EmptySlots(t) \cup {None}, NEW cap
  PROVE  Keeps(t, Put(t, s, cap), {})
  BY DEF Keeps, Put, EmptySlots, Tables

\* Taking one capability takes that one only.
LEMMA TakeKeeps ==
  ASSUME NEW t \in Tables, NEW s \in Slots
  PROVE  Keeps(t, Revoke(t, s), {s}) /\ Keeps(t, RevokeForLend(t, s), {s})
  BY DEF Keeps, Revoke, RevokeForLend, Tables

\* The sweep changes no kind.
LEMMA ClearOriginKeeps ==
  ASSUME NEW t \in GoodTables, NEW lender \in Procs
  PROVE  Keeps(t, ClearOrigin(t, lender), {})
<1> SUFFICES ASSUME NEW s \in Slots, t.slots[s] # None
             PROVE  /\ ClearOrigin(t, lender).slots[s] # None
                    /\ ClearOrigin(t, lender).slots[s].kind = t.slots[s].kind
  BY DEF Keeps
<1>1. t.slots[s] \in Caps
  BY DEF GoodTables, Tables
<1>2. [t.slots[s] EXCEPT !.origin = None] \in CapRecords
  BY <1>1 DEF Caps, CapRecords
<1>3. ClearOrigin(t, lender).slots[s] \in {t.slots[s], [t.slots[s] EXCEPT !.origin = None]}
  BY DEF ClearOrigin, GoodTables, Tables
<1>4. [t.slots[s] EXCEPT !.origin = None].kind = t.slots[s].kind
  BY <1>1 DEF Caps, CapRecords
<1> QED BY <1>2, <1>3, <1>4, NoneAssumption

----------------------------------------------------------------------------
(* The types, and the reserved slots.                                      *)

\* The first inductive invariant: the types, and every table good.
Inv1 == TypeOK /\ ReservedEmpty

\* What Inv1 says of the tables.
LEMMA TablesGood ==
  Inv1 <=> TypeOK /\ caps \in [Procs -> GoodTables]
<1>1. ASSUME Inv1 PROVE caps \in [Procs -> GoodTables]
  BY <1>1 DEF Inv1, TypeOK, ReservedEmpty, CapAt, GoodTables
<1>2. ASSUME caps \in [Procs -> GoodTables] PROVE ReservedEmpty
  BY <1>2 DEF ReservedEmpty, CapAt, GoodTables
<1> QED BY <1>1, <1>2 DEF Inv1

\* The same in the next state, variable by variable.
LEMMA Inv1Next ==
  ASSUME state' \in [Procs -> {"Empty", "Ready", "Blocked"}],
         caps' \in [Procs -> GoodTables],
         maps' \in [Procs -> SUBSET MapRecords],
         eps' \in [Endpoints -> EndpointRecords],
         pending' \in [Procs -> PendingRecords],
         landing' \in [Procs -> Slots \cup {None}],
         free' \in SUBSET Frames,
         exiting' \in Procs \cup {None}
  PROVE  Inv1'
<1>1. caps' \in [Procs -> Tables]
  BY DEF GoodTables
<1>2. TypeOK'
  BY <1>1 DEF TypeOK
<1>3. ReservedEmpty'
  BY DEF ReservedEmpty, CapAt, GoodTables
<1> QED BY <1>2, <1>3 DEF Inv1

\* None is not a slot, a process or an endpoint count.
LEMMA NoneApart == None \notin Slots /\ None \notin Procs
  BY NoneAssumption, SizeAssumption DEF Slots, Procs

\* The number of capabilities that reach an endpoint is a number.
LEMMA ReachingCount ==
  ASSUME NEW t, NEW e, NEW right
  PROVE  Cardinality(Reaching(t, e, right)) \in Nat
<1>1. IsFiniteSet(Slots)
  BY FS_Interval, SizeAssumption DEF Slots
<1>2. Reaching(t, e, right) \in SUBSET Slots
  BY DEF Reaching
<1> QED BY <1>1, <1>2, FS_Subset, FS_CardinalityType

\* The wait queue: its head is a process, and both operations keep its type.
LEMMA QueueTypes ==
  ASSUME TypeOK, NEW e \in Endpoints, NEW p \in Procs, NEW side \in BOOLEAN
  PROVE  /\ eps[e].queue # <<>> => /\ Head(eps[e].queue) \in Procs
                                   /\ Dequeue(e) \in [Endpoints -> EndpointRecords]
         /\ Enqueue(e, p, side) \in [Endpoints -> EndpointRecords]
<1>1. eps[e] \in EndpointRecords /\ eps[e].queue \in Seq(Procs)
  BY DEF TypeOK, EndpointRecords
<1>2. ASSUME eps[e].queue # <<>>
      PROVE  Head(eps[e].queue) \in Procs /\ Tail(eps[e].queue) \in Seq(Procs)
  BY <1>1, <1>2
<1>3. Append(eps[e].queue, p) \in Seq(Procs)
  BY <1>1
<1>4. ASSUME NEW q \in Seq(Procs)
      PROVE  [eps[e] EXCEPT !.queue = q] \in EndpointRecords
  BY <1>1 DEF EndpointRecords
<1>5. [eps[e] EXCEPT !.queue = Append(@, p), !.are_senders = side] \in EndpointRecords
  BY <1>1, <1>3 DEF EndpointRecords
<1>6. ASSUME NEW r \in EndpointRecords
      PROVE  [eps EXCEPT ![e] = r] \in [Endpoints -> EndpointRecords]
  BY DEF TypeOK
<1>7. Enqueue(e, p, side) \in [Endpoints -> EndpointRecords]
  BY <1>5, <1>6 DEF Enqueue
<1>8. ASSUME eps[e].queue # <<>>
      PROVE  Dequeue(e) \in [Endpoints -> EndpointRecords]
  BY <1>2, <1>4, <1>6, <1>8 DEF Dequeue
<1> QED BY <1>2, <1>7, <1>8

\* An endpoint that has just been created.
LEMMA FreshEndpointType ==
  ASSUME NEW live \in BOOLEAN, NEW n \in Nat, NEW m \in Nat
  PROVE  [EmptyEndpoint EXCEPT !.in_use = live, !.senders = n, !.receivers = m]
           \in EndpointRecords
<1>1. EmptyEndpoint \in EndpointRecords
  BY DEF EmptyEndpoint, EndpointRecords
<1> QED BY <1>1 DEF EndpointRecords

\* Dropping references from an endpoint leaves an endpoint.
LEMMA DroppedType ==
  ASSUME NEW ep \in EndpointRecords, NEW n \in Nat, NEW m \in Nat
  PROVE  Dropped(ep, n, m) \in EndpointRecords
<1>1. EmptyEndpoint \in EndpointRecords
  BY DEF EmptyEndpoint, EndpointRecords
<1>2. SaturatingSub(ep.senders, n) \in Nat /\ SaturatingSub(ep.receivers, m) \in Nat
  BY DEF SaturatingSub, EndpointRecords
<1>3. [ep EXCEPT !.senders = SaturatingSub(@, n),
                 !.receivers = SaturatingSub(@, m)] \in EndpointRecords
  BY <1>2 DEF EndpointRecords
<1> QED BY <1>1, <1>3 DEF Dropped

----------------------------------------------------------------------------
(* The pieces of a state change keep every table good.                     *)

\* A capability is written at an empty slot of one table.
LEMMA PutInTable ==
  ASSUME caps \in [Procs -> GoodTables], NEW p \in Procs,
         NEW s \in EmptySlots(caps[p]) \cup {None}, NEW cap \in Caps
  PROVE  [caps EXCEPT ![p] = Put(@, s, cap)] \in [Procs -> GoodTables]
<1>1. Put(caps[p], s, cap) \in GoodTables
  BY PutGood
<1> QED BY <1>1

\* A capability in a table is a capability.
LEMMA CapAtType ==
  ASSUME caps \in [Procs -> GoodTables], NEW p \in Procs, NEW s \in Slots,
         CapAt(p, s) # None
  PROVE  CapAt(p, s) \in Caps
  BY DEF CapAt, GoodTables, Tables

\* A capability goes from one table to another.
LEMMA MovedGood ==
  ASSUME caps \in [Procs -> GoodTables], NEW from \in Procs, NEW to \in Procs,
         NEW left \in GoodTables, NEW cap \in Caps,
         NEW s \in EmptySlots([caps EXCEPT ![from] = left][to]) \cup {None}
  PROVE  Moved(from, left, to, s, cap) \in [Procs -> GoodTables]
<1> DEFINE taken == [caps EXCEPT ![from] = left]
<1>1. taken \in [Procs -> GoodTables]
  OBVIOUS
<1>2. taken[to] \in GoodTables
  BY <1>1
<1>3. Put(taken[to], s, cap) \in GoodTables
  BY <1>2, PutGood
<1>4. Moved(from, left, to, s, cap) = [taken EXCEPT ![to] = Put(taken[to], s, cap)]
  BY DEF Moved
<1> HIDE DEF taken
<1> QED BY <1>1, <1>3, <1>4

\* What it leaves alone: the slot it left in `from`, and nothing in `to`.
LEMMA MovedKeeps ==
  ASSUME caps \in [Procs -> GoodTables], NEW from \in Procs, NEW to \in Procs,
         NEW left \in GoodTables, NEW cap, NEW S,
         NEW s \in EmptySlots([caps EXCEPT ![from] = left][to]) \cup {None},
         Keeps(caps[from], left, S), NEW q \in Procs
  PROVE  Keeps(caps[q], Moved(from, left, to, s, cap)[q],
               IF q = from THEN S ELSE {})
<1> DEFINE taken == [caps EXCEPT ![from] = left]
           new   == [taken EXCEPT ![to] = Put(taken[to], s, cap)]
<1>1. taken \in [Procs -> GoodTables]
  OBVIOUS
<1>2. Keeps(caps[q], taken[q], IF q = from THEN S ELSE {})
  BY SameKeeps
<1>3. taken[to] \in Tables
  BY <1>1 DEF GoodTables
<1>4. Keeps(taken[to], Put(taken[to], s, cap), {})
  BY <1>3, PutKeeps
<1>5. Keeps(taken[q], new[q], {})
  <2> HIDE DEF taken
  <2>1. CASE q = to
    BY <1>1, <1>4, <2>1
  <2>2. CASE q # to
    BY <1>1, <2>2, SameKeeps
  <2> QED BY <2>1, <2>2
<1>6. Moved(from, left, to, s, cap) = new
  BY DEF Moved
<1> HIDE DEF taken, new
<1> QED BY <1>2, <1>5, <1>6, KeepsTrans

\* The transfer of a rendezvous, whether it lands or bounces.
LEMMA TransferGood ==
  ASSUME caps \in [Procs -> GoodTables], maps \in [Procs -> SUBSET MapRecords],
         NEW from \in Procs, NEW to \in Procs, NEW c \in Slots,
         CapAt(from, c) # None, Transfer(from, c, to)
  PROVE  /\ caps' \in [Procs -> GoodTables]
         /\ maps' \in [Procs -> SUBSET MapRecords]
<1> DEFINE cap  == CapAt(from, c)
           left == RevokeForLend(caps[from], c)
           land == InstallHomeSlot(caps[to], cap.origin, to)
           lent == LentTo(cap, [lender |-> from, home |-> c], to)
<1>1. cap \in Caps /\ lent \in Caps
  BY CapAtType, LentToType DEF Origins
<1>2. left \in GoodTables /\ caps[from] \in Tables /\ caps[to] \in Tables
  BY TakeGood DEF GoodTables
<1>3. land \in EmptySlots(caps[to]) \cup {None}
  BY <1>2, LandsInEmptySlot
<1>4. InstallSlot(left) \in EmptySlots(left) \cup {None}
  BY <1>2, LandsInEmptySlot DEF GoodTables
<1>5. EmptySlots(caps[from]) \subseteq EmptySlots(left)
  BY <1>2 DEF EmptySlots, RevokeForLend, Tables
<1>6. maps' \in [Procs -> SUBSET MapRecords]
  <2>1. Unmapped(maps[from], cap.kind, c) \in SUBSET MapRecords
    BY DEF Unmapped
  <2>2. maps' = [maps EXCEPT ![from] = Unmapped(@, cap.kind, c)]
    BY DEF Transfer
  <2> HIDE DEF cap
  <2> QED BY <2>1, <2>2
<1>7. CASE land # None
  <2>1. caps' = Moved(from, left, to, land, lent)
    BY <1>7 DEF Transfer
  <2>2. EmptySlots(caps[to]) \subseteq EmptySlots([caps EXCEPT ![from] = left][to])
    BY <1>5
  <2>3. land \in EmptySlots([caps EXCEPT ![from] = left][to]) \cup {None}
    BY <1>3, <2>2
  <2>4. caps' \in [Procs -> GoodTables]
    BY <1>1, <1>2, <2>1, <2>3, MovedGood
  <2> QED BY <2>4, <1>6
<1>8. CASE land = None
  <2>1. caps' = [caps EXCEPT ![from] = Put(left, InstallSlot(left), cap)]
    BY <1>8 DEF Transfer
  <2>2. Put(left, InstallSlot(left), cap) \in GoodTables
    BY <1>1, <1>2, <1>4, PutGood
  <2> HIDE DEF cap, left, land, lent
  <2> QED BY <2>1, <2>2, <1>6
<1> QED BY <1>6, <1>7, <1>8

\* A send without a capability leaves both alone.
LEMMA DeliverGood ==
  ASSUME caps \in [Procs -> GoodTables], maps \in [Procs -> SUBSET MapRecords],
         NEW from \in Procs, NEW to \in Procs, NEW c \in Slots \cup {None},
         Deliver(from, c, to)
  PROVE  /\ caps' \in [Procs -> GoodTables]
         /\ maps' \in [Procs -> SUBSET MapRecords]
<1>1. CASE Moves(from, c)
  BY <1>1, TransferGood DEF Deliver, Moves
<1>2. CASE ~Moves(from, c)
  BY <1>2 DEF Deliver
<1> QED BY <1>1, <1>2

\* A minted reply capability.
LEMMA MintReplyGood ==
  ASSUME caps \in [Procs -> GoodTables], NEW server \in Procs,
         NEW caller \in Procs, MintReply(server, caller)
  PROVE  caps' \in [Procs -> GoodTables]
<1>1. Cap("Reply", caller, {}) \in Caps
  BY CapType, SizeAssumption DEF Kinds, Rights, Procs, Ids
<1>2. InstallSlot(caps[server]) \in EmptySlots(caps[server]) \cup {None}
  BY LandsInEmptySlot DEF GoodTables
<1> QED BY <1>1, <1>2, PutInTable DEF MintReply

\* A borrowed capability leaves its holder and comes home.
LEMMA SendHomeGood ==
  ASSUME caps \in [Procs -> GoodTables], NEW p \in Procs, NEW s \in Slots,
         CapAt(p, s) # None, CapAt(p, s).origin # None, SendHome(p, s)
  PROVE  caps' \in [Procs -> GoodTables]
<1> DEFINE cap  == CapAt(p, s)
           o    == cap.origin
           home == LentTo(cap, [lender |-> p, home |-> o.home], o.lender)
           left == Revoke(caps[p], s)
<1>1. cap \in Caps
  BY CapAtType
<1>2. o \in Origins /\ o.lender \in Procs /\ o.home \in Slots
  BY <1>1 DEF Caps, CapRecords, Origins
<1>3. home \in Caps
  BY <1>1, <1>2, LentToType DEF Origins
<1>4. left \in GoodTables
  BY TakeGood
<1>5. HomeLanding(o) \in EmptySlots(caps[o.lender]) \cup {None}
  BY <1>2, LandsInEmptySlot DEF HomeLanding, GoodTables
<1>6. EmptySlots(caps[p]) \subseteq EmptySlots(left)
  BY <1>4 DEF EmptySlots, Revoke, GoodTables, Tables
<1>7. HomeLanding(o) \in EmptySlots([caps EXCEPT ![p] = left][o.lender]) \cup {None}
  BY <1>2, <1>5, <1>6
<1>8. caps' = Moved(p, left, o.lender, HomeLanding(o), home)
  BY DEF SendHome
<1> HIDE DEF cap, o, home, left
<1> QED BY <1>2, <1>3, <1>4, <1>7, <1>8, MovedGood

----------------------------------------------------------------------------
(* Every action keeps the types and the tables.                            *)

\* The IPC gate.
LEMMA GateInv1 ==
  ASSUME Inv1, NEW p \in Procs, Send(p) \/ Recv(p) \/ Call(p) \/ Reply(p)
  PROVE  Inv1'
<1>1. TypeOK /\ caps \in [Procs -> GoodTables]
  BY TablesGood
<1>2. NoPending \in PendingRecords
  BY DEF NoPending, PendingRecords
<1>3. ASSUME NEW s \in Slots, NEW c \in Slots \cup {None}, SendRendezvous(p, s, c)
      PROVE  Inv1'
  <2>1. PICK e \in Endpoints :
          /\ eps[e].queue # <<>>
          /\ Deliver(p, c, Head(eps[e].queue))
          /\ state' = [state EXCEPT ![Head(eps[e].queue)] = "Ready"]
          /\ eps' = Dequeue(e)
          /\ UNCHANGED <<pending, landing, free, exiting>>
    BY <1>3 DEF SendRendezvous, Waiting
  <2>2. Head(eps[e].queue) \in Procs /\ eps' \in [Endpoints -> EndpointRecords]
    BY <1>1, <2>1, QueueTypes
  <2>3. caps' \in [Procs -> GoodTables] /\ maps' \in [Procs -> SUBSET MapRecords]
    BY <1>1, <2>1, <2>2, DeliverGood DEF TypeOK
  <2> QED BY <1>1, <2>1, <2>2, <2>3, Inv1Next DEF TypeOK
<1>4. ASSUME NEW s \in Slots, NEW c \in Slots \cup {None}, SendBlocks(p, s, c)
      PROVE  Inv1'
  <2>1. PICK e \in Endpoints :
          /\ pending' = [pending EXCEPT ![p] = [cap |-> c, call |-> FALSE]]
          /\ eps' = Enqueue(e, p, TRUE)
          /\ state' = [state EXCEPT ![p] = "Blocked"]
          /\ UNCHANGED <<caps, maps, landing, free, exiting>>
    BY <1>4 DEF SendBlocks
  <2>2. eps' \in [Endpoints -> EndpointRecords]
    BY <1>1, <2>1, QueueTypes
  <2>3. [cap |-> c, call |-> FALSE] \in PendingRecords
    BY DEF PendingRecords
  <2> QED BY <1>1, <2>1, <2>2, <2>3, Inv1Next DEF TypeOK
<1>5. ASSUME NEW e \in Endpoints, RecvCall(p, e)
      PROVE  Inv1'
  <2>1. /\ eps[e].queue # <<>>
        /\ MintReply(p, Head(eps[e].queue))
        /\ eps' = Dequeue(e)
        /\ pending' = [pending EXCEPT ![Head(eps[e].queue)] = NoPending]
        /\ UNCHANGED <<state, maps, landing, free, exiting>>
    BY <1>5 DEF RecvCall, Waiting
  <2>2. Head(eps[e].queue) \in Procs /\ eps' \in [Endpoints -> EndpointRecords]
    BY <1>1, <2>1, QueueTypes
  <2>3. caps' \in [Procs -> GoodTables]
    BY <1>1, <2>1, <2>2, MintReplyGood
  <2> QED BY <1>1, <1>2, <2>1, <2>2, <2>3, Inv1Next DEF TypeOK
<1>6. ASSUME NEW e \in Endpoints, RecvSend(p, e)
      PROVE  Inv1'
  <2>1. /\ eps[e].queue # <<>>
        /\ Deliver(Head(eps[e].queue), pending[Head(eps[e].queue)].cap, p)
        /\ eps' = Dequeue(e)
        /\ pending' = [pending EXCEPT ![Head(eps[e].queue)] = NoPending]
        /\ state' = [state EXCEPT ![Head(eps[e].queue)] = "Ready"]
        /\ UNCHANGED <<landing, free, exiting>>
    BY <1>6 DEF RecvSend, Waiting
  <2>2. Head(eps[e].queue) \in Procs /\ eps' \in [Endpoints -> EndpointRecords]
    BY <1>1, <2>1, QueueTypes
  <2>3. pending[Head(eps[e].queue)].cap \in Slots \cup {None}
    BY <1>1, <2>2 DEF TypeOK, PendingRecords
  <2>4. caps' \in [Procs -> GoodTables] /\ maps' \in [Procs -> SUBSET MapRecords]
    BY <1>1, <2>1, <2>2, <2>3, DeliverGood DEF TypeOK
  <2> QED BY <1>1, <1>2, <2>1, <2>2, <2>4, Inv1Next DEF TypeOK
<1>7. ASSUME NEW e \in Endpoints, RecvPeerDied(p, e)
      PROVE  Inv1'
  BY <1>1, <1>7, Inv1Next DEF RecvPeerDied, TypeOK
<1>8. ASSUME NEW e \in Endpoints, RecvBlocks(p, e)
      PROVE  Inv1'
  <2>1. eps' \in [Endpoints -> EndpointRecords]
    BY <1>1, <1>8, QueueTypes DEF RecvBlocks
  <2> QED BY <1>1, <1>8, <2>1, Inv1Next DEF RecvBlocks, TypeOK
<1>9. ASSUME NEW e \in Endpoints, CallRendezvous(p, e)
      PROVE  Inv1'
  <2>1. /\ eps[e].queue # <<>>
        /\ MintReply(Head(eps[e].queue), p)
        /\ eps' = Dequeue(e)
        /\ state' = [state EXCEPT ![Head(eps[e].queue)] = "Ready", ![p] = "Blocked"]
        /\ UNCHANGED <<maps, pending, landing, free, exiting>>
    BY <1>9 DEF CallRendezvous, Waiting
  <2>2. Head(eps[e].queue) \in Procs /\ eps' \in [Endpoints -> EndpointRecords]
    BY <1>1, <2>1, QueueTypes
  <2>3. caps' \in [Procs -> GoodTables]
    BY <1>1, <2>1, <2>2, MintReplyGood
  <2> QED BY <1>1, <2>1, <2>2, <2>3, Inv1Next DEF TypeOK
<1>10. ASSUME NEW e \in Endpoints, CallBlocks(p, e)
       PROVE  Inv1'
  <2>1. eps' \in [Endpoints -> EndpointRecords]
    BY <1>1, <1>10, QueueTypes DEF CallBlocks
  <2>2. [cap |-> None, call |-> TRUE] \in PendingRecords
    BY DEF PendingRecords
  <2> QED BY <1>1, <1>10, <2>1, <2>2, Inv1Next DEF CallBlocks, TypeOK
<1>11. ASSUME Reply(p)
       PROVE  Inv1'
  <2>1. PICK s \in Slots :
          /\ CapAt(p, s) # None
          /\ state' = [state EXCEPT ![CapAt(p, s).id] = "Ready"]
          /\ caps' = [caps EXCEPT ![p] = Revoke(@, s)]
          /\ UNCHANGED <<maps, eps, pending, landing, free, exiting>>
    BY <1>11 DEF Reply, Holds
  <2>2. state' \in [Procs -> {"Empty", "Ready", "Blocked"}]
    BY <1>1, <2>1 DEF TypeOK
  <2>3. Revoke(caps[p], s) \in GoodTables
    BY <1>1, TakeGood
  <2>4. caps' \in [Procs -> GoodTables]
    BY <1>1, <2>1, <2>3
  <2> QED BY <1>1, <2>1, <2>2, <2>4, Inv1Next DEF TypeOK
<1>12. ASSUME Send(p) PROVE Inv1'
  BY <1>3, <1>4, <1>12 DEF Send
<1>13. ASSUME Recv(p) PROVE Inv1'
  BY <1>5, <1>6, <1>7, <1>8, <1>13 DEF Recv
<1>14. ASSUME Call(p) PROVE Inv1'
  BY <1>9, <1>10, <1>14 DEF Call
<1> QED BY <1>11, <1>12, <1>13, <1>14

\* Memory, the CPU budget and voluntary release.
LEMMA SyscallInv1 ==
  ASSUME Inv1, NEW p \in Procs,
         FrameAlloc(p) \/ FrameMap(p) \/ FbMap(p) \/ CpuCharge(p) \/ CapRelease(p)
  PROVE  Inv1'
<1>1. TypeOK /\ caps \in [Procs -> GoodTables]
  BY TablesGood
<1>2. ASSUME FrameAlloc(p) PROVE Inv1'
  <2>1. PICK f \in free :
          /\ caps' = [caps EXCEPT ![p] =
               Put(@, InstallSlot(@), Cap("Frame", f, {"READ", "WRITE", "MAP"}))]
          /\ free' = free \ {f}
          /\ UNCHANGED <<state, maps, eps, pending, landing, exiting>>
    BY <1>2 DEF FrameAlloc
  <2>2. f \in Nat
    BY <1>1 DEF TypeOK, Frames
  <2>3. Cap("Frame", f, {"READ", "WRITE", "MAP"}) \in Caps
    BY <1>1, <2>2, CapType DEF Kinds, Rights, Ids, TypeOK
  <2>4. InstallSlot(caps[p]) \in EmptySlots(caps[p]) \cup {None}
    BY <1>1, LandsInEmptySlot DEF GoodTables
  <2>5. caps' \in [Procs -> GoodTables]
    BY <1>1, <2>1, <2>3, <2>4, PutInTable
  <2>6. free' \in SUBSET Frames
    BY <1>1, <2>1 DEF TypeOK
  <2> QED BY <1>1, <2>1, <2>5, <2>6, Inv1Next DEF TypeOK
<1>3. ASSUME NEW kind \in {"Frame", "Framebuffer"}, NEW limit, Map(p, kind, limit)
      PROVE  Inv1'
  <2>1. PICK s \in Slots, va \in VAs :
          maps' = [maps EXCEPT ![p] = @ \cup {[kind |-> kind, va |-> va, slot |-> s]}]
    BY <1>3 DEF Map
  <2>2. [kind |-> kind, va |-> va, slot |-> s] \in MapRecords
    BY DEF MapRecords
  <2>3. maps' \in [Procs -> SUBSET MapRecords]
    BY <1>1, <2>1, <2>2 DEF TypeOK
  <2>4. UNCHANGED <<state, caps, eps, pending, landing, free, exiting>>
    BY <1>3 DEF Map
  <2> QED BY <1>1, <2>3, <2>4, Inv1Next DEF TypeOK
<1>4. ASSUME CpuCharge(p) PROVE Inv1'
  <2>1. PICK s \in Slots, amount \in 1 .. CpuBudget :
          /\ CapAt(p, s) # None /\ CapAt(p, s).kind = "CpuTime"
          /\ amount <= CapAt(p, s).id
          /\ caps' = [caps EXCEPT ![p].slots[s].id = @ - amount]
    BY <1>4 DEF CpuCharge, Holds
  <2>2. UNCHANGED <<state, maps, eps, pending, landing, free, exiting>>
    BY <1>4 DEF CpuCharge
  <2> DEFINE cap == [CapAt(p, s) EXCEPT !.id = @ - amount]
             t   == [caps[p] EXCEPT !.slots[s] = cap]
  <2>3. CapAt(p, s) \in Caps
    BY <1>1, <2>1, CapAtType
  <2>4. CapAt(p, s).id - amount \in Nat
    BY <2>1, <2>3, KernelAssumption DEF Caps, CapRecords
  <2>5. cap \in Caps
    BY <2>1, <2>3, <2>4 DEF Caps, CapRecords, Ids
  <2>6. caps[p] \in GoodTables /\ s \notin caps[p].reserved
    BY <1>1, <2>1 DEF GoodTables, CapAt
  <2>7. t \in GoodTables
    <3> HIDE DEF cap
    <3> QED BY <2>5, <2>6 DEF GoodTables, Tables
  <2>8. caps' = [caps EXCEPT ![p] = t]
    BY <2>1 DEF CapAt
  <2>9. caps' \in [Procs -> GoodTables]
    <3> HIDE DEF t
    <3> QED BY <1>1, <2>7, <2>8
  <2> QED BY <1>1, <2>2, <2>9, Inv1Next DEF TypeOK
<1>5. ASSUME CapRelease(p) PROVE Inv1'
  <2>1. PICK s \in Slots : CapAt(p, s) # None /\ (ReleaseHome(p, s) \/ ReleaseOwn(p, s))
    BY <1>5 DEF CapRelease
  <2>2. UNCHANGED <<state, pending, landing, exiting>>
    BY <1>5 DEF CapRelease
  <2>3. CapAt(p, s) \in Caps
    BY <1>1, <2>1, CapAtType
  <2>4. ASSUME NEW kind PROVE [maps EXCEPT ![p] = Unmapped(@, kind, s)]
                                \in [Procs -> SUBSET MapRecords]
    BY <1>1 DEF TypeOK, Unmapped
  <2>5. CASE ReleaseHome(p, s)
    <3>1. CapAt(p, s).origin # None
      BY <2>5 DEF ReleaseHome, ReleaseAction
    <3>2. caps' \in [Procs -> GoodTables]
      BY <1>1, <2>1, <2>5, <3>1, SendHomeGood DEF ReleaseHome
    <3>3. maps' \in [Procs -> SUBSET MapRecords]
      BY <2>4, <2>5 DEF ReleaseHome
    <3> QED BY <1>1, <2>2, <2>5, <3>2, <3>3, Inv1Next DEF ReleaseHome, TypeOK
  <2>6. CASE ReleaseOwn(p, s)
    <3>1. Revoke(caps[p], s) \in GoodTables
      BY <1>1, TakeGood
    <3>2. caps' \in [Procs -> GoodTables]
      BY <1>1, <2>6, <3>1 DEF ReleaseOwn
    <3>3. maps' \in [Procs -> SUBSET MapRecords]
      BY <2>4, <2>6 DEF ReleaseOwn
    <3>4. eps' \in [Endpoints -> EndpointRecords]
      <4> DEFINE cap == CapAt(p, s)
                 ep  == Dropped(eps[cap.id], Has(cap, "SEND"), Has(cap, "RECV"))
      <4>1. CASE eps' = eps
        BY <1>1, <4>1 DEF TypeOK
      <4>2. CASE eps' = [eps EXCEPT ![cap.id] = ep]
        <5>1. CASE cap.id \in Endpoints
          <6>1. eps[cap.id] \in EndpointRecords
            BY <1>1, <5>1 DEF TypeOK
          <6>2. ep \in EndpointRecords
            BY <6>1, DroppedType DEF Has
          <6> HIDE DEF cap, ep
          <6> QED BY <1>1, <4>2, <6>2 DEF TypeOK
        <5>2. CASE cap.id \notin Endpoints
          <6> HIDE DEF cap, ep
          <6> QED BY <1>1, <4>2, <5>2 DEF TypeOK
        <5> QED BY <5>1, <5>2
      <4> QED BY <2>6, <4>1, <4>2 DEF ReleaseOwn
    <3>5. free' \in SUBSET Frames
      <4>1. ASSUME ReleaseAction(CapAt(p, s)) = "FreeFrame"
            PROVE  CapAt(p, s).id \in Frames
        <5>1. CapAt(p, s).kind = "Frame"
          BY <2>3, <4>1 DEF ReleaseAction, Caps, CapRecords, Kinds
        <5> QED BY <2>3, <5>1 DEF Caps, Ids
      <4> QED BY <1>1, <2>6, <4>1 DEF ReleaseOwn, TypeOK
    <3> QED BY <1>1, <2>2, <2>6, <3>2, <3>3, <3>4, <3>5, Inv1Next DEF TypeOK
  <2> QED BY <2>1, <2>5, <2>6
<1> QED BY <1>2, <1>3, <1>4, <1>5 DEF FrameMap, FbMap

\* Spawning, whether the child starts or not.
LEMMA SpawnInv1 ==
  ASSUME Inv1, NEW p \in Procs, Spawn(p)
  PROVE  Inv1'
<1>1. TypeOK /\ caps \in [Procs -> GoodTables]
  BY TablesGood
<1>2. ASSUME NEW c \in Slots \cup {None}, SpawnChild(p, c) PROVE Inv1'
  <2> DEFINE cap    == IF Moves(p, c) THEN CapAt(p, c) ELSE None
             left   == IF cap = None THEN caps[p] ELSE RevokeForLend(caps[p], c)
             grant  == IF cap = None \/ cap.origin # None THEN cap
                       ELSE [cap EXCEPT !.origin = [lender |-> p, home |-> c]]
             handle == InstallSlot(left)
  <2>1. PICK e \in Endpoints, q \in Procs :
          /\ caps' = [caps EXCEPT
               ![p] = Put(left, handle, Cap("Endpoint", e, {"RECV"})),
               ![q] = ChildTable(e, grant)]
          /\ eps' = [eps EXCEPT ![e] =
               [EmptyEndpoint EXCEPT !.in_use = TRUE, !.senders = 1,
                  !.receivers = IF handle = None THEN 0 ELSE 1]]
          /\ maps' = [maps EXCEPT ![p] =
               IF cap = None THEN @ ELSE Unmapped(@, cap.kind, c)]
          /\ state' = [state EXCEPT ![q] = "Ready"]
          /\ UNCHANGED <<pending, landing, free, exiting>>
    BY <1>2 DEF SpawnChild
  <2>2. cap \in Caps \cup {None} /\ (cap # None => c \in Slots)
    BY <1>1, CapAtType DEF Moves
  <2>3. left \in GoodTables
    BY <1>1, <2>2, TakeGood
  <2>4. handle \in EmptySlots(left) \cup {None}
    BY <2>3, LandsInEmptySlot DEF GoodTables
  <2>5. e \in Nat
    BY DEF Endpoints
  <2>6. Cap("Endpoint", e, {"RECV"}) \in Caps /\ Cap("Endpoint", e, {"SEND"}) \in Caps
    BY <2>5, CapType DEF Kinds, Rights, Ids
  <2>7. Put(left, handle, Cap("Endpoint", e, {"RECV"})) \in GoodTables
    BY <2>3, <2>4, <2>6, PutGood
  <2>8. grant \in Caps \cup {None}
    <3>1. CASE cap = None \/ cap.origin # None
      BY <2>2, <3>1
    <3>2. CASE cap # None /\ cap.origin = None
      <4>1. [lender |-> p, home |-> c] \in Origins
        BY <2>2, <3>2 DEF Origins
      <4>2. cap \in Caps
        BY <2>2, <3>2
      <4> HIDE DEF cap
      <4>3. [cap EXCEPT !.origin = [lender |-> p, home |-> c]] \in Caps
        BY <4>1, <4>2 DEF Caps, CapRecords
      <4> QED BY <3>2, <4>3
    <3> QED BY <3>1, <3>2
  <2>9. ChildTable(e, grant) \in GoodTables
    <3>1. Cap("CpuTime", CpuBudget, {"CONSUME"}) \in Caps
      BY CapType, KernelAssumption DEF Kinds, Rights, Ids
    <3>2. EmptyTable \in GoodTables
      BY EmptyTableGood
    <3> HIDE DEF grant
    <3> QED BY <2>6, <2>8, <3>1, <3>2
        DEF ChildTable, EmptyTable, GoodTables, Tables
  <2>10. maps' \in [Procs -> SUBSET MapRecords]
    <3> HIDE DEF cap
    <3> QED BY <1>1, <2>1 DEF TypeOK, Unmapped
  <2>11. [EmptyEndpoint EXCEPT !.in_use = TRUE, !.senders = 1,
            !.receivers = IF handle = None THEN 0 ELSE 1] \in EndpointRecords
    <3>1. (IF handle = None THEN 0 ELSE 1) \in Nat
      OBVIOUS
    <3> QED BY <3>1, FreshEndpointType
  <2> HIDE DEF cap, left, grant, handle
  <2>12. caps' \in [Procs -> GoodTables]
    BY <1>1, <2>1, <2>7, <2>9
  <2>13. eps' \in [Endpoints -> EndpointRecords]
    BY <1>1, <2>1, <2>11 DEF TypeOK
  <2> QED BY <1>1, <2>1, <2>10, <2>12, <2>13, Inv1Next DEF TypeOK
<1>3. ASSUME NEW c \in Slots \cup {None}, SpawnFails(p, c) PROVE Inv1'
  <2> DEFINE cap  == CapAt(p, c)
             left == RevokeForLend(caps[p], c)
  <2>1. /\ Moves(p, c)
        /\ caps' = [caps EXCEPT ![p] = Put(left, ReclaimSlot(left, c), cap)]
        /\ maps' = [maps EXCEPT ![p] = Unmapped(@, cap.kind, c)]
        /\ UNCHANGED <<state, eps, pending, landing, free, exiting>>
    BY <1>3 DEF SpawnFails
  <2>2. c \in Slots /\ cap \in Caps
    BY <1>1, <2>1, CapAtType DEF Moves
  <2>3. left \in GoodTables
    BY <1>1, <2>2, TakeGood
  <2>4. ReclaimSlot(left, c) \in EmptySlots(left) \cup {None}
    BY <2>3, LandsInEmptySlot DEF GoodTables
  <2>5. Put(left, ReclaimSlot(left, c), cap) \in GoodTables
    BY <2>2, <2>3, <2>4, PutGood
  <2> HIDE DEF cap, left
  <2>6. maps' \in [Procs -> SUBSET MapRecords]
    BY <1>1, <2>1 DEF TypeOK, Unmapped
  <2>7. caps' \in [Procs -> GoodTables]
    BY <1>1, <2>1, <2>5
  <2> QED BY <1>1, <2>1, <2>6, <2>7, Inv1Next DEF TypeOK
<1> QED BY <1>2, <1>3 DEF Spawn

\* Death, step by step.
LEMMA DeathInv1 ==
  ASSUME Inv1, NEW p \in Procs, Exit(p) \/ ReclaimLentCap(p) \/ FinishExit(p)
  PROVE  Inv1'
<1>1. TypeOK /\ caps \in [Procs -> GoodTables]
  BY TablesGood
<1>2. ASSUME Exit(p) PROVE Inv1'
  BY <1>1, <1>2, Inv1Next DEF Exit, TypeOK
<1>3. ASSUME ReclaimLentCap(p) PROVE Inv1'
  <2>1. PICK s \in BorrowedSlots(caps[p]) :
          /\ SendHome(p, s)
          /\ landing' = [landing EXCEPT ![CapAt(p, s).origin.lender] =
               IF @ = None THEN HomeLanding(CapAt(p, s).origin) ELSE @]
    BY <1>3 DEF ReclaimLentCap
  <2>2. UNCHANGED <<state, maps, eps, pending, free, exiting>>
    BY <1>3 DEF ReclaimLentCap
  <2>3. s \in Slots /\ CapAt(p, s) # None /\ CapAt(p, s).origin # None
    BY DEF BorrowedSlots, ReleaseAction, CapAt
  <2>4. caps' \in [Procs -> GoodTables]
    BY <1>1, <2>1, <2>3, SendHomeGood
  <2>5. CapAt(p, s).origin.lender \in Procs
    BY <1>1, <2>3, CapAtType DEF Caps, CapRecords, Origins
  <2>6. HomeLanding(CapAt(p, s).origin) \in Slots \cup {None}
    BY <1>1, <2>5, LandsInEmptySlot DEF HomeLanding, GoodTables, EmptySlots
  <2>7. landing' \in [Procs -> Slots \cup {None}]
    BY <1>1, <2>1, <2>5, <2>6 DEF TypeOK
  <2> QED BY <1>1, <2>2, <2>4, <2>7, Inv1Next DEF TypeOK
<1>4. ASSUME FinishExit(p) PROVE Inv1'
  <2>1. state' \in [Procs -> {"Empty", "Ready", "Blocked"}]
    BY <1>1, <1>4 DEF FinishExit, TypeOK
  <2>2. caps' \in [Procs -> GoodTables]
    <3>1. \A q \in Procs : ClearOrigin(caps[q], p) \in GoodTables
      BY <1>1, ClearOriginGood
    <3> QED BY <1>4, <3>1, EmptyTableGood DEF FinishExit
  <2>3. maps' \in [Procs -> SUBSET MapRecords]
    BY <1>1, <1>4 DEF FinishExit, TypeOK
  <2>4. eps' \in [Endpoints -> EndpointRecords]
    <3>1. ASSUME NEW e \in Endpoints PROVE EndpointAfter(p, e) \in EndpointRecords
      <4> DEFINE ep == IF DeathStrandsPeers(p, e)
                       THEN [eps[e] EXCEPT !.queue = <<>>] ELSE eps[e]
      <4>1. ep \in EndpointRecords
        <5>1. eps[e] \in EndpointRecords
          BY <1>1 DEF TypeOK
        <5>2. \A q \in Seq(Procs) : [eps[e] EXCEPT !.queue = q] \in EndpointRecords
          BY <5>1 DEF EndpointRecords
        <5>3. <<>> \in Seq(Procs)
          OBVIOUS
        <5> QED BY <5>1, <5>2, <5>3
      <4>2. /\ Cardinality(Reaching(caps[p], e, "SEND")) \in Nat
            /\ Cardinality(Reaching(caps[p], e, "RECV")) \in Nat
        BY ReachingCount
      <4> QED BY <4>1, <4>2, DroppedType DEF EndpointAfter
    <3> QED BY <1>4, <3>1 DEF FinishExit
  <2>5. pending' \in [Procs -> PendingRecords]
    BY <1>1, <1>4 DEF FinishExit, TypeOK, PendingRecords, NoPending
  <2>6. landing' \in [Procs -> Slots \cup {None}]
    BY <1>1, <1>4 DEF FinishExit, TypeOK
  <2>7. free' \in SUBSET Frames
    <3>1. ASSUME NEW s \in Slots, Holds(p, s, "Frame") PROVE CapAt(p, s).id \in Frames
      BY <1>1, <3>1, CapAtType DEF Holds, Caps, Ids
    <3> QED BY <1>1, <1>4, <3>1 DEF FinishExit, TypeOK
  <2>8. exiting' \in Procs \cup {None}
    BY <1>4 DEF FinishExit
  <2> QED BY <2>1, <2>2, <2>3, <2>4, <2>5, <2>6, <2>7, <2>8, Inv1Next
<1> QED BY <1>2, <1>3, <1>4

\* The boot state.
LEMMA InitInv1 == Init => Inv1
<1> SUFFICES ASSUME Init PROVE Inv1
  OBVIOUS
<1>1. ASSUME NEW p \in Procs PROVE BootTable(p) \in GoodTables
  <2>1. CASE p \notin DOMAIN BootGrants
    BY <2>1, EmptyTableGood DEF BootTable
  <2>2. CASE p \in DOMAIN BootGrants
    <3> DEFINE f == [s \in Slots |->
          IF s = 0 THEN Cap("CpuTime", CpuBudget, {"CONSUME"})
          ELSE IF s <= Len(BootGrants[p]) THEN BootGrants[p][s]
          ELSE None]
    <3>1. Cap("CpuTime", CpuBudget, {"CONSUME"}) \in Caps
      BY CapType, KernelAssumption DEF Kinds, Rights, Ids
    <3>2. BootGrants[p] \in Seq(Caps)
      BY <2>2, BootAssumption
    <3>3. f \in [Slots -> Caps \cup {None}]
      BY <3>1, <3>2, SizeAssumption DEF Slots
    <3>4. BootTable(p) = [EmptyTable EXCEPT !.slots = f]
      BY <2>2 DEF BootTable
    <3> HIDE DEF f
    <3> QED BY <3>3, <3>4 DEF EmptyTable, GoodTables, Tables
  <2> QED BY <2>1, <2>2
<1>2. caps \in [Procs -> GoodTables]
  BY <1>1 DEF Init
<1>3. eps \in [Endpoints -> EndpointRecords]
  <2>1. ASSUME NEW e, NEW right
        PROVE  Cardinality(Referents([p \in Procs |-> BootTable(p)], e, right)) \in Nat
    <3>1. IsFiniteSet(Procs) /\ IsFiniteSet(Slots)
      BY FS_Interval, SizeAssumption DEF Procs, Slots
    <3>2. IsFiniteSet(Procs \X Slots)
      BY <3>1, FS_Product
    <3>3. Referents([p \in Procs |-> BootTable(p)], e, right) \in SUBSET (Procs \X Slots)
      BY DEF Referents
    <3> QED BY <3>2, <3>3, FS_Subset, FS_CardinalityType
  <2>2. ASSUME NEW e \in Endpoints PROVE BootEndpoint(e) \in EndpointRecords
    <3>1. \A n, m \in Nat : (n + m > 0) \in BOOLEAN
      OBVIOUS
    <3> QED BY <2>1, <3>1, FreshEndpointType DEF BootEndpoint
  <2> QED BY <2>2 DEF Init
<1>4. TypeOK
  BY <1>2, <1>3 DEF Init, TypeOK, GoodTables, PendingRecords, NoPending
<1> QED BY <1>2, <1>4, TablesGood

\* The kernel's state keeps its types: in particular no capability ever names
\* an object outside its kind's table and no CPU budget goes below zero; and
\* a slot reserved for a homecoming is always empty (capability.rs, reserve).
THEOREM TypesAndReservations == Spec => [](TypeOK /\ ReservedEmpty)
<1>1. Inv1 /\ [Next]_vars => Inv1'
  <2> SUFFICES ASSUME Inv1, [Next]_vars PROVE Inv1'
    OBVIOUS
  <2>1. CASE UNCHANGED vars
    BY <2>1 DEF Inv1, TypeOK, ReservedEmpty, CapAt, vars
  <2>2. CASE Next
    BY <2>2, GateInv1, SyscallInv1, SpawnInv1, DeathInv1 DEF Next
  <2> QED BY <2>1, <2>2
<1>2. Inv1 => TypeOK /\ ReservedEmpty
  BY DEF Inv1
<1> QED BY InitInv1, <1>1, <1>2, PTL DEF Spec

----------------------------------------------------------------------------
(* Mappings follow authority.                                              *)

\* q reaches no page but through a capability it holds.
Authorized(q) == \A m \in maps[q] : Holds(q, m.slot, m.kind)

\* A slot without a process has no mappings for its next tenant.
EmptyUnmapped == \A q \in Procs : state[q] = "Empty" => maps[q] = {}

\* The second inductive invariant.
Inv2 == Inv1 /\ MapAuthority /\ EmptyUnmapped

\* No new mapping, and every slot a mapping was made through is kept.
LEMMA KeptAuthorized ==
  ASSUME TypeOK, NEW q \in Procs, Authorized(q), NEW S,
         maps'[q] \subseteq maps[q],
         Keeps(caps[q], caps'[q], S),
         \A m \in maps'[q] : m.slot \notin S
  PROVE  Authorized(q)'
  BY DEF Authorized, Holds, CapAt, Keeps, TypeOK, MapRecords

\* A capability leaves slot c of q, and the mappings made through it go too.
LEMMA TakenAuthorized ==
  ASSUME TypeOK, NEW q \in Procs, Authorized(q), NEW c \in Slots,
         maps'[q] = Unmapped(maps[q], CapAt(q, c).kind, c),
         Keeps(caps[q], caps'[q], {c})
  PROVE  Authorized(q)'
<1>1. maps'[q] \subseteq maps[q]
  BY DEF Unmapped
<1>2. \A m \in maps'[q] : m.slot \notin {c}
  BY DEF Unmapped, Authorized, Holds
<1> QED BY <1>1, <1>2, KeptAuthorized

\* The transfer of a rendezvous keeps every process authorized.
LEMMA TransferAuthorized ==
  ASSUME TypeOK, caps \in [Procs -> GoodTables],
         NEW from \in Procs, NEW to \in Procs, NEW c \in Slots,
         CapAt(from, c) # None, Transfer(from, c, to),
         NEW q \in Procs, Authorized(q)
  PROVE  Authorized(q)' /\ maps'[q] \subseteq maps[q]
<1> DEFINE cap  == CapAt(from, c)
           left == RevokeForLend(caps[from], c)
           land == InstallHomeSlot(caps[to], cap.origin, to)
           lent == LentTo(cap, [lender |-> from, home |-> c], to)
<1>1. left \in GoodTables /\ left \in Tables /\ caps[from] \in Tables /\ caps[to] \in Tables
  BY TakeGood DEF GoodTables
<1>2. /\ land \in EmptySlots(caps[to]) \cup {None}
      /\ InstallSlot(left) \in EmptySlots(left) \cup {None}
  BY <1>1, LandsInEmptySlot
<1>3. Keeps(caps[from], left, {c})
  BY <1>1, TakeKeeps
<1>4. EmptySlots(caps[from]) \subseteq EmptySlots(left)
  BY <1>1 DEF EmptySlots, RevokeForLend, Tables
<1>5. land \in EmptySlots([caps EXCEPT ![from] = left][to]) \cup {None}
  BY <1>2, <1>4
<1>6. Keeps(caps[from], Put(left, InstallSlot(left), cap), {c})
  BY <1>1, <1>2, <1>3, PutKeeps, KeepsTrans
<1>7. maps' = [maps EXCEPT ![from] = Unmapped(@, cap.kind, c)]
  BY DEF Transfer
<1>8. caps' = IF land # None THEN Moved(from, left, to, land, lent)
              ELSE [caps EXCEPT ![from] = Put(left, InstallSlot(left), cap)]
  BY DEF Transfer
<1>9. maps'[q] \subseteq maps[q]
  BY <1>7 DEF Unmapped, TypeOK
<1>10. Keeps(caps[q], caps'[q], IF q = from THEN {c} ELSE {})
  <2> HIDE DEF cap, left, land, lent
  <2>1. CASE land # None
    BY <1>1, <1>3, <1>5, <1>8, <2>1, MovedKeeps
  <2>2. CASE land = None
    BY <1>6, <1>8, <2>2, SameKeeps
  <2> QED BY <2>1, <2>2
<1>11. CASE q = from
  <2>1. maps'[q] = Unmapped(maps[q], CapAt(q, c).kind, c)
    BY <1>7, <1>11 DEF TypeOK
  <2> QED BY <1>9, <1>10, <1>11, <2>1, TakenAuthorized
<1>12. CASE q # from
  BY <1>9, <1>10, <1>12, KeptAuthorized
<1> QED BY <1>11, <1>12

\* A minted reply capability displaces nothing.
LEMMA MintReplyAuthorized ==
  ASSUME TypeOK, caps \in [Procs -> GoodTables], NEW server \in Procs,
         NEW caller \in Procs, MintReply(server, caller), maps' = maps,
         NEW q \in Procs, Authorized(q)
  PROVE  Authorized(q)'
<1> DEFINE cap == Cap("Reply", caller, {})
<1>1. caps[server] \in Tables
  BY DEF GoodTables
<1>2. Keeps(caps[server], Put(caps[server], InstallSlot(caps[server]), cap), {})
  BY <1>1, LandsInEmptySlot, PutKeeps
<1>3. caps' = [caps EXCEPT ![server] = Put(@, InstallSlot(@), cap)]
  BY DEF MintReply
<1> HIDE DEF cap
<1>4. Keeps(caps[q], caps'[q], {})
  <2>1. CASE q = server
    BY <1>2, <1>3, <2>1
  <2>2. CASE q # server
    BY <1>3, <2>2, SameKeeps
  <2> QED BY <2>1, <2>2
<1> QED BY <1>4, KeptAuthorized

\* A homecoming: the lender's table gains one capability and loses none.
LEMMA SendHomeKeeps ==
  ASSUME caps \in [Procs -> GoodTables], NEW p \in Procs, NEW s \in Slots,
         CapAt(p, s) # None, CapAt(p, s).origin # None, SendHome(p, s),
         NEW q \in Procs
  PROVE  Keeps(caps[q], caps'[q], IF q = p THEN {s} ELSE {})
<1> DEFINE cap  == CapAt(p, s)
           o    == cap.origin
           home == LentTo(cap, [lender |-> p, home |-> o.home], o.lender)
           left == Revoke(caps[p], s)
           land == HomeLanding(o)
<1>1. cap \in Caps
  BY CapAtType
<1>2. o.lender \in Procs
  BY <1>1 DEF Caps, CapRecords, Origins
<1>3. /\ left \in GoodTables /\ left \in Tables
      /\ caps[p] \in Tables /\ caps[o.lender] \in Tables
  BY <1>2, TakeGood DEF GoodTables
<1>4. land \in EmptySlots(caps[o.lender]) \cup {None}
  BY <1>2, <1>3, LandsInEmptySlot DEF HomeLanding
<1>5. EmptySlots(caps[p]) \subseteq EmptySlots(left)
  BY <1>3 DEF EmptySlots, Revoke, Tables
<1>6. Keeps(caps[p], left, {s})
  BY <1>3, TakeKeeps
<1>7. land \in EmptySlots([caps EXCEPT ![p] = left][o.lender]) \cup {None}
  BY <1>2, <1>4, <1>5
<1>8. caps' = Moved(p, left, o.lender, land, home)
  BY DEF SendHome
<1> HIDE DEF cap, o, home, left, land
<1> QED BY <1>2, <1>3, <1>6, <1>7, <1>8, MovedKeeps

\* What is left to show of a step that maps nothing and ends nobody.
LEMMA StepAuthorized ==
  ASSUME EmptyUnmapped, state' \in [Procs -> {"Empty", "Ready", "Blocked"}],
         \A q \in Procs : /\ maps'[q] \subseteq maps[q]
                          /\ state'[q] = "Empty" => state[q] = "Empty",
         \A q \in Procs \ {exiting'} : Authorized(q)'
  PROVE  (MapAuthority /\ EmptyUnmapped)'
<1>1. EmptyUnmapped'
  BY DEF EmptyUnmapped
<1>2. MapAuthority'
  BY DEF MapAuthority, Authorized
<1> QED BY <1>1, <1>2

\* The IPC gate.
LEMMA GateAuthorized ==
  ASSUME Inv2, NEW p \in Procs, Send(p) \/ Recv(p) \/ Call(p) \/ Reply(p)
  PROVE  (MapAuthority /\ EmptyUnmapped)'
<1>1. TypeOK /\ caps \in [Procs -> GoodTables] /\ EmptyUnmapped
  BY TablesGood DEF Inv2
<1>2. exiting = None /\ \A q \in Procs : Authorized(q)
  <2>1. exiting = None
    BY DEF Send, Recv, Call, Reply, CanCall
  <2> QED BY <2>1, NoneApart DEF Inv2, MapAuthority, Authorized
<1>3. state' \in [Procs -> {"Empty", "Ready", "Blocked"}]
  BY GateInv1 DEF Inv2, Inv1, TypeOK
<1>4. ASSUME NEW from \in Procs, NEW c \in Slots \cup {None}, NEW to \in Procs,
             Deliver(from, c, to), NEW q \in Procs
      PROVE  Authorized(q)' /\ maps'[q] \subseteq maps[q]
  <2>1. CASE Moves(from, c)
    <3>1. c \in Slots /\ CapAt(from, c) # None /\ Transfer(from, c, to)
      BY <1>4, <2>1 DEF Moves, Deliver
    <3> QED BY <1>1, <1>2, <3>1, TransferAuthorized
  <2>2. CASE ~Moves(from, c)
    BY <1>2, <1>4, <2>2 DEF Deliver, Authorized, Holds, CapAt
  <2> QED BY <2>1, <2>2
<1>5. ASSUME NEW s \in Slots, NEW c \in Slots \cup {None}, SendRendezvous(p, s, c)
      PROVE  (MapAuthority /\ EmptyUnmapped)'
  <2>1. PICK e \in Endpoints :
          /\ eps[e].queue # <<>>
          /\ Deliver(p, c, Head(eps[e].queue))
          /\ state' = [state EXCEPT ![Head(eps[e].queue)] = "Ready"]
    BY <1>5 DEF SendRendezvous, Waiting
  <2>2. Head(eps[e].queue) \in Procs
    BY <1>1, <2>1, QueueTypes
  <2>3. \A q \in Procs : Authorized(q)' /\ maps'[q] \subseteq maps[q]
    BY <1>4, <2>1, <2>2
  <2>4. \A q \in Procs : state'[q] = "Empty" => state[q] = "Empty"
    BY <1>1, <2>1 DEF TypeOK
  <2> QED BY <1>1, <1>3, <2>3, <2>4, StepAuthorized
<1>6. ASSUME NEW e \in Endpoints, RecvSend(p, e)
      PROVE  (MapAuthority /\ EmptyUnmapped)'
  <2>1. /\ eps[e].queue # <<>>
        /\ Deliver(Head(eps[e].queue), pending[Head(eps[e].queue)].cap, p)
        /\ state' = [state EXCEPT ![Head(eps[e].queue)] = "Ready"]
    BY <1>6 DEF RecvSend, Waiting
  <2>2. Head(eps[e].queue) \in Procs
    BY <1>1, <2>1, QueueTypes
  <2>3. pending[Head(eps[e].queue)].cap \in Slots \cup {None}
    BY <1>1, <2>2 DEF TypeOK, PendingRecords
  <2>4. \A q \in Procs : Authorized(q)' /\ maps'[q] \subseteq maps[q]
    BY <1>4, <2>1, <2>2, <2>3
  <2>5. \A q \in Procs : state'[q] = "Empty" => state[q] = "Empty"
    BY <1>1, <2>1 DEF TypeOK
  <2> QED BY <1>1, <1>3, <2>4, <2>5, StepAuthorized
<1>7. ASSUME NEW server \in Procs, NEW caller \in Procs,
             MintReply(server, caller), maps' = maps,
             \A q \in Procs : state'[q] = "Empty" => state[q] = "Empty"
      PROVE  (MapAuthority /\ EmptyUnmapped)'
  <2>1. \A q \in Procs : Authorized(q)'
    BY <1>1, <1>2, <1>7, MintReplyAuthorized
  <2> QED BY <1>1, <1>3, <1>7, <2>1, StepAuthorized
<1>8. ASSUME NEW e \in Endpoints, RecvCall(p, e)
      PROVE  (MapAuthority /\ EmptyUnmapped)'
  <2>1. /\ eps[e].queue # <<>>
        /\ MintReply(p, Head(eps[e].queue))
        /\ UNCHANGED <<state, maps>>
    BY <1>8 DEF RecvCall, Waiting
  <2>2. Head(eps[e].queue) \in Procs
    BY <1>1, <2>1, QueueTypes
  <2> QED BY <1>7, <2>1, <2>2
<1>9. ASSUME NEW e \in Endpoints, CallRendezvous(p, e)
      PROVE  (MapAuthority /\ EmptyUnmapped)'
  <2>1. /\ eps[e].queue # <<>>
        /\ MintReply(Head(eps[e].queue), p)
        /\ state' = [state EXCEPT ![Head(eps[e].queue)] = "Ready", ![p] = "Blocked"]
        /\ maps' = maps
    BY <1>9 DEF CallRendezvous, Waiting
  <2>2. Head(eps[e].queue) \in Procs
    BY <1>1, <2>1, QueueTypes
  <2>3. \A q \in Procs : state'[q] = "Empty" => state[q] = "Empty"
    BY <1>1, <2>1 DEF TypeOK
  <2> QED BY <1>7, <2>1, <2>2, <2>3
<1>10. ASSUME UNCHANGED <<caps, maps>>,
              \A q \in Procs : state'[q] = "Empty" => state[q] = "Empty"
       PROVE  (MapAuthority /\ EmptyUnmapped)'
  <2>1. \A q \in Procs : Authorized(q)'
    BY <1>2, <1>10 DEF Authorized, Holds, CapAt
  <2> QED BY <1>1, <1>3, <1>10, <2>1, StepAuthorized
<1>11. ASSUME NEW s \in Slots, NEW c \in Slots \cup {None}, SendBlocks(p, s, c)
       PROVE  (MapAuthority /\ EmptyUnmapped)'
  BY <1>1, <1>10, <1>11 DEF SendBlocks, TypeOK
<1>12. ASSUME NEW e \in Endpoints, RecvPeerDied(p, e) \/ RecvBlocks(p, e) \/ CallBlocks(p, e)
       PROVE  (MapAuthority /\ EmptyUnmapped)'
  BY <1>1, <1>10, <1>12 DEF RecvPeerDied, RecvBlocks, CallBlocks, TypeOK
<1>13. ASSUME Reply(p) PROVE (MapAuthority /\ EmptyUnmapped)'
  <2>1. PICK s \in Slots :
          /\ CapAt(p, s).kind = "Reply"
          /\ state' = [state EXCEPT ![CapAt(p, s).id] = "Ready"]
          /\ caps' = [caps EXCEPT ![p] = Revoke(@, s)]
          /\ maps' = maps
    BY <1>13 DEF Reply, Holds
  <2>2. Keeps(caps[p], Revoke(caps[p], s), {s})
    BY <1>1, TakeKeeps DEF GoodTables
  <2>3. ASSUME NEW q \in Procs PROVE Authorized(q)'
    <3>1. CASE q = p
      <4>1. Keeps(caps[q], caps'[q], {s})
        BY <1>1, <2>1, <2>2, <3>1
      <4>2. \A m \in maps'[q] : m.slot \notin {s}
        BY <1>1, <1>2, <2>1, <3>1 DEF Authorized, Holds, TypeOK, MapRecords
      <4> QED BY <1>1, <1>2, <2>1, <4>1, <4>2, KeptAuthorized
    <3>2. CASE q # p
      <4>1. caps'[q] = caps[q]
        BY <1>1, <2>1, <3>2
      <4> QED BY <1>2, <2>1, <4>1 DEF Authorized, Holds, CapAt
    <3> QED BY <3>1, <3>2
  <2>4. \A q \in Procs : state'[q] = "Empty" => state[q] = "Empty"
    BY <1>1, <2>1 DEF TypeOK
  <2> QED BY <1>1, <1>3, <2>1, <2>3, <2>4, StepAuthorized
<1>14. ASSUME Send(p) PROVE (MapAuthority /\ EmptyUnmapped)'
  BY <1>5, <1>11, <1>14 DEF Send
<1>15. ASSUME Recv(p) PROVE (MapAuthority /\ EmptyUnmapped)'
  BY <1>6, <1>8, <1>12, <1>15 DEF Recv
<1>16. ASSUME Call(p) PROVE (MapAuthority /\ EmptyUnmapped)'
  BY <1>9, <1>12, <1>16 DEF Call
<1> QED BY <1>13, <1>14, <1>15, <1>16

\* Memory, the CPU budget and voluntary release.
LEMMA SyscallAuthorized ==
  ASSUME Inv2, NEW p \in Procs,
         FrameAlloc(p) \/ FrameMap(p) \/ FbMap(p) \/ CpuCharge(p) \/ CapRelease(p)
  PROVE  (MapAuthority /\ EmptyUnmapped)'
<1>1. TypeOK /\ caps \in [Procs -> GoodTables] /\ EmptyUnmapped
  BY TablesGood DEF Inv2
<1>2. exiting = None /\ state[p] = "Ready" /\ \A q \in Procs : Authorized(q)
  <2>1. exiting = None /\ state[p] = "Ready"
    BY DEF FrameAlloc, FrameMap, FbMap, Map, CpuCharge, CapRelease, CanCall
  <2> QED BY <2>1, NoneApart DEF Inv2, MapAuthority, Authorized
<1>3. state' = state
  BY DEF FrameAlloc, FrameMap, FbMap, Map, CpuCharge, CapRelease
<1>4. state' \in [Procs -> {"Empty", "Ready", "Blocked"}]
  BY <1>1, <1>3 DEF TypeOK
<1>5. ASSUME maps' = maps, \A q \in Procs : Keeps(caps[q], caps'[q], {})
      PROVE  (MapAuthority /\ EmptyUnmapped)'
  <2>1. \A q \in Procs : Authorized(q)'
    BY <1>1, <1>2, <1>5, KeptAuthorized
  <2> QED BY <1>1, <1>3, <1>4, <1>5, <2>1, StepAuthorized
<1>6. ASSUME FrameAlloc(p) PROVE (MapAuthority /\ EmptyUnmapped)'
  <2>1. PICK f \in free :
          /\ caps' = [caps EXCEPT ![p] =
               Put(@, InstallSlot(@), Cap("Frame", f, {"READ", "WRITE", "MAP"}))]
          /\ maps' = maps
    BY <1>6 DEF FrameAlloc
  <2> DEFINE cap == Cap("Frame", f, {"READ", "WRITE", "MAP"})
  <2>2. Keeps(caps[p], Put(caps[p], InstallSlot(caps[p]), cap), {})
    BY <1>1, LandsInEmptySlot, PutKeeps DEF GoodTables
  <2> HIDE DEF cap
  <2>3. ASSUME NEW q \in Procs PROVE Keeps(caps[q], caps'[q], {})
    <3>1. CASE q = p
      BY <1>1, <2>1, <2>2, <3>1 DEF cap
    <3>2. CASE q # p
      BY <1>1, <2>1, <3>2, SameKeeps DEF cap
    <3> QED BY <3>1, <3>2
  <2> QED BY <1>5, <2>1, <2>3
<1>7. ASSUME NEW kind, NEW limit, Map(p, kind, limit)
      PROVE  (MapAuthority /\ EmptyUnmapped)'
  <2>1. PICK s \in Slots, va \in VAs :
          /\ Holds(p, s, kind)
          /\ maps' = [maps EXCEPT ![p] = @ \cup {[kind |-> kind, va |-> va, slot |-> s]}]
    BY <1>7 DEF Map
  <2>2. caps' = caps
    BY <1>7 DEF Map
  <2>3. ASSUME NEW q \in Procs PROVE Authorized(q)'
    BY <1>1, <1>2, <2>1, <2>2 DEF Authorized, Holds, CapAt, TypeOK
  <2>4. EmptyUnmapped'
    BY <1>1, <1>2, <1>3, <2>1 DEF EmptyUnmapped, TypeOK
  <2> QED BY <2>3, <2>4 DEF MapAuthority, Authorized
<1>8. ASSUME CpuCharge(p) PROVE (MapAuthority /\ EmptyUnmapped)'
  <2>1. PICK s \in Slots, amount \in 1 .. CpuBudget :
          /\ CapAt(p, s) # None /\ amount <= CapAt(p, s).id
          /\ caps' = [caps EXCEPT ![p].slots[s].id = @ - amount]
          /\ maps' = maps
    BY <1>8 DEF CpuCharge, Holds
  <2> DEFINE cap == [CapAt(p, s) EXCEPT !.id = @ - amount]
  <2>2. CapAt(p, s) \in Caps
    BY <1>1, <2>1, CapAtType
  <2>3. cap.kind = CapAt(p, s).kind /\ "kind" \in DOMAIN cap
    BY <2>2 DEF Caps, CapRecords
  <2>4. cap # None
    <3>1. CapAt(p, s).id - amount \in Nat
      BY <2>1, <2>2, KernelAssumption DEF Caps, CapRecords
    <3>2. cap \in CapRecords
      BY <2>2, <3>1 DEF Caps, CapRecords
    <3> QED BY <3>2, NoneAssumption
  <2>5. caps' = [caps EXCEPT ![p] = [caps[p] EXCEPT !.slots[s] = cap]]
    BY <2>1 DEF CapAt
  <2>6. Keeps(caps[p], [caps[p] EXCEPT !.slots[s] = cap], {})
    <3> HIDE DEF cap
    <3> QED BY <1>1, <2>3, <2>4 DEF Keeps, CapAt, GoodTables, Tables
  <2> HIDE DEF cap
  <2>7. ASSUME NEW q \in Procs PROVE Keeps(caps[q], caps'[q], {})
    <3>1. CASE q = p
      BY <1>1, <2>5, <2>6, <3>1
    <3>2. CASE q # p
      BY <1>1, <2>5, <3>2, SameKeeps
    <3> QED BY <3>1, <3>2
  <2> QED BY <1>5, <2>1, <2>7
<1>9. ASSUME CapRelease(p) PROVE (MapAuthority /\ EmptyUnmapped)'
  <2>1. PICK s \in Slots : CapAt(p, s) # None /\ (ReleaseHome(p, s) \/ ReleaseOwn(p, s))
    BY <1>9 DEF CapRelease
  <2>2. ASSUME NEW kind, maps' = [maps EXCEPT ![p] = Unmapped(@, kind, s)]
        PROVE  \A q \in Procs : /\ maps'[q] \subseteq maps[q]
                                /\ q # p => maps'[q] = maps[q]
    BY <1>1, <2>2 DEF Unmapped, TypeOK
  <2>3. ASSUME NEW kind, maps' = [maps EXCEPT ![p] = Unmapped(@, kind, s)],
               kind = CapAt(p, s).kind \/ CapAt(p, s).kind \notin {"Frame", "Framebuffer"},
               \A q \in Procs : Keeps(caps[q], caps'[q], IF q = p THEN {s} ELSE {})
        PROVE  (MapAuthority /\ EmptyUnmapped)'
    <3>1. ASSUME NEW q \in Procs PROVE Authorized(q)'
      <4>1. CASE q = p
        <5>1. \A m \in maps'[q] : m.slot \notin {s}
          BY <1>1, <1>2, <2>3, <4>1 DEF Unmapped, Authorized, Holds, TypeOK, MapRecords
        <5> QED BY <1>1, <1>2, <2>2, <2>3, <4>1, <5>1, KeptAuthorized
      <4>2. CASE q # p
        BY <1>1, <1>2, <2>2, <2>3, <4>2, KeptAuthorized
      <4> QED BY <4>1, <4>2
    <3> QED BY <1>1, <1>3, <1>4, <2>2, <2>3, <3>1, StepAuthorized
  <2>4. CASE ReleaseHome(p, s)
    <3>1. CapAt(p, s).origin # None /\ CapAt(p, s).kind \in ReclaimableKinds
      <4>1. CapAt(p, s) \in Caps
        BY <1>1, <2>1, CapAtType
      <4> QED BY <2>4, <4>1 DEF ReleaseHome, ReleaseAction, Caps, CapRecords, Kinds
    <3>2. \A q \in Procs : Keeps(caps[q], caps'[q], IF q = p THEN {s} ELSE {})
      BY <1>1, <2>1, <2>4, <3>1, SendHomeKeeps DEF ReleaseHome
    <3>3. maps' = [maps EXCEPT ![p] = Unmapped(@, "Framebuffer", s)]
      BY <2>4 DEF ReleaseHome
    <3>4. "Framebuffer" = CapAt(p, s).kind \/ CapAt(p, s).kind \notin {"Frame", "Framebuffer"}
      BY <3>1 DEF ReclaimableKinds
    <3> QED BY <2>3, <3>2, <3>3, <3>4
  <2>5. CASE ReleaseOwn(p, s)
    <3>1. Keeps(caps[p], Revoke(caps[p], s), {s})
      BY <1>1, TakeKeeps DEF GoodTables
    <3>2. caps' = [caps EXCEPT ![p] = Revoke(@, s)]
      BY <2>5 DEF ReleaseOwn
    <3>3. \A q \in Procs : Keeps(caps[q], caps'[q], IF q = p THEN {s} ELSE {})
      BY <1>1, <3>1, <3>2, SameKeeps
    <3>4. maps' = [maps EXCEPT ![p] = Unmapped(@, CapAt(p, s).kind, s)]
      BY <2>5 DEF ReleaseOwn
    <3> QED BY <2>3, <3>3, <3>4
  <2> QED BY <2>1, <2>4, <2>5
<1> QED BY <1>6, <1>7, <1>8, <1>9 DEF FrameMap, FbMap

\* Spawning, whether the child starts or not.
LEMMA SpawnAuthorized ==
  ASSUME Inv2, NEW p \in Procs, Spawn(p)
  PROVE  (MapAuthority /\ EmptyUnmapped)'
<1>1. TypeOK /\ caps \in [Procs -> GoodTables] /\ EmptyUnmapped
  BY TablesGood DEF Inv2
<1>2. exiting = None /\ state[p] = "Ready" /\ \A q \in Procs : Authorized(q)
  <2>1. exiting = None /\ state[p] = "Ready"
    BY DEF Spawn, CanCall
  <2> QED BY <2>1, NoneApart DEF Inv2, MapAuthority, Authorized
<1>3. state' \in [Procs -> {"Empty", "Ready", "Blocked"}]
  BY SpawnInv1 DEF Inv2, Inv1, TypeOK
<1>4. ASSUME NEW c \in Slots
      PROVE  /\ RevokeForLend(caps[p], c) \in Tables
             /\ Keeps(caps[p], RevokeForLend(caps[p], c), {c})
  BY <1>1, TakeGood, TakeKeeps DEF GoodTables
<1>5. ASSUME NEW c \in Slots \cup {None}, SpawnChild(p, c)
      PROVE  (MapAuthority /\ EmptyUnmapped)'
  <2> DEFINE cap    == IF Moves(p, c) THEN CapAt(p, c) ELSE None
             left   == IF cap = None THEN caps[p] ELSE RevokeForLend(caps[p], c)
             grant  == IF cap = None \/ cap.origin # None THEN cap
                       ELSE [cap EXCEPT !.origin = [lender |-> p, home |-> c]]
             handle == InstallSlot(left)
             taken  == IF cap = None THEN {} ELSE {c}
  <2>1. PICK e \in Endpoints, child \in Procs :
          /\ FirstEmptySlot(child)
          /\ caps' = [caps EXCEPT
               ![p] = Put(left, handle, Cap("Endpoint", e, {"RECV"})),
               ![child] = ChildTable(e, grant)]
          /\ maps' = [maps EXCEPT ![p] =
               IF cap = None THEN @ ELSE Unmapped(@, cap.kind, c)]
          /\ state' = [state EXCEPT ![child] = "Ready"]
    BY <1>5 DEF SpawnChild
  <2>2. child # p /\ maps[child] = {}
    BY <1>1, <1>2, <2>1 DEF FirstEmptySlot, EmptyUnmapped
  <2>3. cap # None => c \in Slots /\ cap = CapAt(p, c)
    BY DEF Moves
  <2>4. left \in Tables /\ Keeps(caps[p], left, taken)
    BY <1>1, <1>4, <2>3, SameKeeps DEF GoodTables
  <2>5. Keeps(caps[p], Put(left, handle, Cap("Endpoint", e, {"RECV"})), taken)
    <3> HIDE DEF left, taken
    <3> QED BY <2>4, LandsInEmptySlot, PutKeeps, KeepsTrans
  <2> HIDE DEF left, handle, grant
  <2>6. \A q \in Procs : maps'[q] \subseteq maps[q]
    <3> HIDE DEF cap
    <3> QED BY <1>1, <2>1 DEF Unmapped, TypeOK
  <2>7. ASSUME NEW q \in Procs PROVE Authorized(q)'
    <3>1. CASE q = child
      BY <2>2, <2>6, <3>1 DEF Authorized
    <3>2. CASE q = p
      <4>1. Keeps(caps[q], caps'[q], taken)
        <5> HIDE DEF taken
        <5> QED BY <1>1, <2>1, <2>2, <2>5, <3>2
      <4>2. CASE cap = None
        BY <1>1, <1>2, <2>6, <4>1, <4>2, KeptAuthorized
      <4>3. CASE cap # None
        <5>1. maps'[q] = Unmapped(maps[q], CapAt(q, c).kind, c)
          <6> HIDE DEF cap
          <6> QED BY <1>1, <2>1, <2>3, <3>2, <4>3 DEF TypeOK
        <5> QED BY <1>1, <1>2, <2>3, <4>1, <4>3, <5>1, TakenAuthorized
      <4> QED BY <4>2, <4>3
    <3>3. CASE q \notin {p, child}
      <4>1. caps'[q] = caps[q] /\ maps'[q] = maps[q]
        <5> HIDE DEF cap
        <5> QED BY <1>1, <2>1, <3>3 DEF TypeOK
      <4> QED BY <1>2, <4>1 DEF Authorized, Holds, CapAt
    <3> QED BY <3>1, <3>2, <3>3
  <2>8. \A q \in Procs : state'[q] = "Empty" => state[q] = "Empty"
    BY <1>1, <2>1 DEF TypeOK
  <2> QED BY <1>1, <1>3, <2>6, <2>7, <2>8, StepAuthorized
<1>6. ASSUME NEW c \in Slots \cup {None}, SpawnFails(p, c)
      PROVE  (MapAuthority /\ EmptyUnmapped)'
  <2> DEFINE left == RevokeForLend(caps[p], c)
             back == Put(left, ReclaimSlot(left, c), CapAt(p, c))
  <2>1. /\ c \in Slots
        /\ caps' = [caps EXCEPT ![p] = back]
        /\ maps' = [maps EXCEPT ![p] = Unmapped(@, CapAt(p, c).kind, c)]
        /\ state' = state
    BY <1>6 DEF SpawnFails, Moves
  <2>2. Keeps(caps[p], back, {c})
    BY <1>4, <2>1, LandsInEmptySlot, PutKeeps, KeepsTrans
  <2> HIDE DEF back
  <2>3. ASSUME NEW q \in Procs PROVE Authorized(q)'
    <3>1. CASE q = p
      <4>1. maps'[q] = Unmapped(maps[q], CapAt(q, c).kind, c) /\ caps'[q] = back
        BY <1>1, <2>1, <3>1 DEF TypeOK
      <4> QED BY <1>1, <1>2, <2>1, <2>2, <3>1, <4>1, TakenAuthorized
    <3>2. CASE q # p
      <4>1. caps'[q] = caps[q] /\ maps'[q] = maps[q]
        BY <1>1, <2>1, <3>2 DEF TypeOK
      <4> QED BY <1>2, <4>1 DEF Authorized, Holds, CapAt
    <3> QED BY <3>1, <3>2
  <2>4. \A q \in Procs : maps'[q] \subseteq maps[q]
    BY <1>1, <2>1 DEF Unmapped, TypeOK
  <2> QED BY <1>1, <1>3, <2>1, <2>3, <2>4, StepAuthorized
<1> QED BY <1>5, <1>6 DEF Spawn

\* Death, step by step.
LEMMA DeathAuthorized ==
  ASSUME Inv2, NEW p \in Procs, Exit(p) \/ ReclaimLentCap(p) \/ FinishExit(p)
  PROVE  (MapAuthority /\ EmptyUnmapped)'
<1>1. TypeOK /\ caps \in [Procs -> GoodTables] /\ EmptyUnmapped
  BY TablesGood DEF Inv2
<1>2. \A q \in Procs \ {exiting} : Authorized(q)
  BY DEF Inv2, MapAuthority, Authorized
<1>3. ASSUME Exit(p) PROVE (MapAuthority /\ EmptyUnmapped)'
  <2>1. exiting = None /\ UNCHANGED <<state, caps, maps>>
    BY <1>3 DEF Exit, CanCall
  <2>2. \A q \in Procs : Authorized(q)'
    BY <1>2, <2>1, NoneApart DEF Authorized, Holds, CapAt
  <2>3. state' \in [Procs -> {"Empty", "Ready", "Blocked"}]
    BY <1>1, <2>1 DEF TypeOK
  <2> QED BY <1>1, <2>1, <2>2, <2>3, StepAuthorized
<1>4. ASSUME ReclaimLentCap(p) PROVE (MapAuthority /\ EmptyUnmapped)'
  <2>1. PICK s \in BorrowedSlots(caps[p]) : SendHome(p, s)
    BY <1>4 DEF ReclaimLentCap
  <2>2. exiting = p /\ UNCHANGED <<state, maps, exiting>>
    BY <1>4 DEF ReclaimLentCap
  <2>3. s \in Slots /\ CapAt(p, s) # None /\ CapAt(p, s).origin # None
    BY DEF BorrowedSlots, ReleaseAction, CapAt
  <2>4. ASSUME NEW q \in Procs \ {p} PROVE Authorized(q)'
    <3>1. Keeps(caps[q], caps'[q], {})
      BY <1>1, <2>1, <2>3, SendHomeKeeps
    <3> QED BY <1>1, <1>2, <2>2, <3>1, KeptAuthorized
  <2>5. state' \in [Procs -> {"Empty", "Ready", "Blocked"}]
    BY <1>1, <2>2 DEF TypeOK
  <2> QED BY <1>1, <2>2, <2>4, <2>5, StepAuthorized
<1>5. ASSUME FinishExit(p) PROVE (MapAuthority /\ EmptyUnmapped)'
  <2>1. /\ exiting = p
        /\ maps' = [maps EXCEPT ![p] = {}]
        /\ caps' = [q \in Procs |-> IF q = p THEN EmptyTable ELSE ClearOrigin(caps[q], p)]
    BY <1>5 DEF FinishExit
  <2>2. ASSUME NEW q \in Procs PROVE Authorized(q)'
    <3>1. CASE q = p
      BY <1>1, <2>1, <3>1 DEF Authorized, TypeOK
    <3>2. CASE q # p
      <4>1. Keeps(caps[q], caps'[q], {}) /\ maps'[q] = maps[q]
        BY <1>1, <2>1, <3>2, ClearOriginKeeps DEF TypeOK
      <4> QED BY <1>1, <1>2, <2>1, <3>2, <4>1, KeptAuthorized
    <3> QED BY <3>1, <3>2
  <2>3. ASSUME NEW q \in Procs, state'[q] = "Empty" PROVE maps'[q] = {}
    <3>1. q = p \/ state[q] = "Empty"
      BY <1>5, <2>3 DEF FinishExit
    <3> QED BY <1>1, <2>1, <3>1 DEF EmptyUnmapped, TypeOK
  <2> QED BY <2>2, <2>3 DEF MapAuthority, Authorized, EmptyUnmapped
<1> QED BY <1>3, <1>4, <1>5

\* A page stays mapped only while its process holds the capability it was
\* mapped through: whatever is sent, spawned away, bounced, released,
\* reclaimed or torn down, no living process reaches memory or a screen it
\* has given up (process.rs, revoke_and_unmap).
THEOREM MappingsAuthorized == Spec => []MapAuthority
<1>1. Init => Inv2
  BY InitInv1 DEF Init, Inv2, MapAuthority, EmptyUnmapped
<1>2. Inv2 /\ [Next]_vars => Inv2'
  <2> SUFFICES ASSUME Inv2, [Next]_vars PROVE Inv2'
    OBVIOUS
  <2>1. CASE UNCHANGED vars
    BY <2>1 DEF Inv2, Inv1, TypeOK, ReservedEmpty, MapAuthority, EmptyUnmapped,
                Holds, CapAt, vars
  <2>2. CASE Next
    <3>1. Inv1'
      BY <2>2, GateInv1, SyscallInv1, SpawnInv1, DeathInv1 DEF Next, Inv2
    <3>2. (MapAuthority /\ EmptyUnmapped)'
      BY <2>2, GateAuthorized, SyscallAuthorized, SpawnAuthorized,
         DeathAuthorized DEF Next
    <3> QED BY <3>1, <3>2 DEF Inv2
  <2> QED BY <2>1, <2>2
<1>3. Inv2 => MapAuthority
  BY DEF Inv2
<1> QED BY <1>1, <1>2, <1>3, PTL DEF Spec

----------------------------------------------------------------------------
(* What a step of KernelIpc may do to the capability tables, seen cell by  *)
(* cell: one capability moves, one is minted, one is dropped.  Each shape  *)
(* is a relation between the tables before and after; what each preserves  *)
(* is shown here once, for every action that has the shape.                *)

AllTables == [Procs -> GoodTables]

\* What slot s of p's table holds in the tables t.
At(t, p, s) == t[p].slots[s]

\* Outside the two cells nothing changes.
SameBeyond(t, u, p, c, q, l) == \A r \in Procs, s \in Slots :
  ~(r = p /\ s = c) /\ ~(r = q /\ s = l) => At(u, r, s) = At(t, r, s)

\* The slot a first loan keeps for the homecoming.
HeldFor(t, p, c, r) ==
  IF r = p /\ LendReservesHome(At(t, p, c)) THEN {c} ELSE {}

\* The capability at slot c of p moves to slot l of q: lent, handed back, sent
\* home, or put back where it came from (q = p).
MovesOne(t, u, p, c, q, l) ==
  /\ At(t, p, c) # None
  /\ At(t, q, l) = None \/ (q = p /\ l = c)
  /\ At(u, q, l) = IF q = p THEN At(t, p, c)
                   ELSE LentTo(At(t, p, c), [lender |-> p, home |-> c], q)
  /\ ~(q = p /\ l = c) => At(u, p, c) = None
  /\ SameBeyond(t, u, p, c, q, l)
  /\ \A r \in Procs : u[r].reserved =
       (t[r].reserved \cup HeldFor(t, p, c, r)) \ (IF r = q THEN {l} ELSE {})
  /\ l \in t[q].reserved => /\ At(t, p, c).origin # None
                            /\ At(t, p, c).origin.lender = q
                            /\ At(t, p, c).origin.home = l

\* A new capability appears in a slot that was free.
AddsOne(t, u, q, l, cap) ==
  /\ At(t, q, l) = None /\ l \notin t[q].reserved
  /\ At(u, q, l) = cap
  /\ SameBeyond(t, u, q, l, q, l)
  /\ \A r \in Procs : u[r].reserved = t[r].reserved

\* A capability disappears.
DropsOne(t, u, p, c) ==
  /\ At(t, p, c) # None
  /\ At(u, p, c) = None
  /\ SameBeyond(t, u, p, c, p, c)
  /\ t[p].reserved \subseteq u[p].reserved
  /\ \A r \in Procs \ {p} : u[r].reserved = t[r].reserved

----------------------------------------------------------------------------
(* Which shape each piece of a state change has.                           *)

\* install puts a capability in a slot that is empty and not held for another.
LEMMA InstallCells ==
  ASSUME NEW t \in AllTables, NEW p \in Procs, NEW cap,
         NEW l, l = InstallSlot(t[p]), l # None
  PROVE  /\ l \in Slots
         /\ AddsOne(t, [t EXCEPT ![p] = Put(@, l, cap)], p, l, cap)
<1>1. t[p] \in Tables
  BY DEF AllTables, GoodTables
<1>2. l \in FreeSlots(t[p])
  BY <1>1, InstallSlotFree
<1>3. l \in Slots /\ At(t, p, l) = None /\ l \notin t[p].reserved
  BY <1>2 DEF FreeSlots, At
<1>4. DOMAIN t = Procs /\ DOMAIN t[p].slots = Slots
  BY <1>1 DEF AllTables, Tables
<1>5. Put(t[p], l, cap) = [slots |-> [t[p].slots EXCEPT ![l] = cap], reserved |-> t[p].reserved]
  BY <1>3 DEF Put
<1> QED BY <1>3, <1>4, <1>5 DEF AddsOne, SameBeyond, At

\* A capability taken out of c of p with its home held open, and put at l of q.
LEMMA MovedCells ==
  ASSUME NEW t \in AllTables, NEW p \in Procs, NEW q \in Procs,
         NEW c \in Slots, NEW l \in Slots, NEW taken, NEW u, NEW lands,
         At(t, p, c) # None,
         At(t, q, l) = None \/ (q = p /\ l = c),
         taken = [t EXCEPT ![p] = RevokeForLend(@, c)],
         lands = IF q = p THEN At(t, p, c)
                 ELSE LentTo(At(t, p, c), [lender |-> p, home |-> c], q),
         u = [taken EXCEPT ![q] = Put(@, l, lands)],
         l \in t[q].reserved => /\ At(t, p, c).origin # None
                                /\ At(t, p, c).origin.lender = q
                                /\ At(t, p, c).origin.home = l
  PROVE  MovesOne(t, u, p, c, q, l)
<1>1. DOMAIN t = Procs /\ \A r \in Procs : DOMAIN t[r].slots = Slots
  BY DEF AllTables, GoodTables, Tables
<1>2. /\ taken[p].slots = [t[p].slots EXCEPT ![c] = None]
      /\ taken[p].reserved = t[p].reserved \cup HeldFor(t, p, c, p)
      /\ \A r \in Procs : r # p => taken[r] = t[r]
      /\ DOMAIN taken = Procs
  BY <1>1 DEF RevokeForLend, HeldFor, At
<1>3. l # None
  BY NoneApart
<1>4. /\ u[q].slots = [taken[q].slots EXCEPT ![l] = lands]
      /\ u[q].reserved = taken[q].reserved \ {l}
      /\ \A r \in Procs : r # q => u[r] = taken[r]
  BY <1>2, <1>3 DEF Put
<1>5. \A r \in Procs : DOMAIN taken[r].slots = Slots
  BY <1>1, <1>2
<1>6. At(u, q, l) = lands
  BY <1>4, <1>5 DEF At
<1>7. ~(q = p /\ l = c) => At(u, p, c) = None
  BY <1>1, <1>2, <1>4, <1>5 DEF At
<1>8. SameBeyond(t, u, p, c, q, l)
  BY <1>1, <1>2, <1>4, <1>5 DEF At, SameBeyond
<1>9. ASSUME NEW r \in Procs
      PROVE  u[r].reserved =
               (t[r].reserved \cup HeldFor(t, p, c, r)) \ (IF r = q THEN {l} ELSE {})
  <2>1. taken[r].reserved = t[r].reserved \cup HeldFor(t, p, c, r)
    BY <1>2 DEF HeldFor
  <2> QED BY <1>4, <2>1
<1> QED BY <1>6, <1>7, <1>8, <1>9 DEF MovesOne

\* A landing in a reserved slot is a homecoming to that very slot.
LEMMA LandingRule ==
  ASSUME NEW t \in Tables, NEW prior, NEW dest, NEW home, NEW l
  PROVE  /\ l = InstallSlot(t) /\ l # None => l \in Slots \ t.reserved
         /\ l = ReclaimSlot(t, home) /\ l # None =>
              l \in Slots /\ (l \in t.reserved => l = home)
         /\ l = InstallHomeSlot(t, prior, dest) /\ l # None =>
              l \in Slots /\ (l \in t.reserved => /\ prior # None
                                                  /\ prior.lender = dest
                                                  /\ l = prior.home)
<1>1. ASSUME l = InstallSlot(t), l # None PROVE l \in Slots \ t.reserved
  BY <1>1, InstallSlotFree DEF FreeSlots
<1>2. ASSUME NEW h, l = ReclaimSlot(t, h), l # None
      PROVE  l \in Slots /\ (l \in t.reserved => l = h)
  <2>1. t.reserved \subseteq Slots
    BY DEF Tables
  <2> QED BY <1>1, <1>2, <2>1 DEF ReclaimSlot, CanReclaimTo
<1>3. ASSUME l = InstallHomeSlot(t, prior, dest), l # None
      PROVE  l \in Slots /\ (l \in t.reserved => /\ prior # None
                                                 /\ prior.lender = dest
                                                 /\ l = prior.home)
  BY <1>1, <1>2, <1>3 DEF InstallHomeSlot
<1> QED BY <1>1, <1>2, <1>3

\* A capability taken out for good.
LEMMA RevokeCells ==
  ASSUME NEW t \in AllTables, NEW p \in Procs, NEW c \in Slots, At(t, p, c) # None
  PROVE  DropsOne(t, [t EXCEPT ![p] = Revoke(@, c)], p, c)
  BY DEF DropsOne, SameBeyond, At, Revoke, AllTables, GoodTables, Tables

\* Taken out of p with its home held open, and found no place: dropped.
LEMMA LostCells ==
  ASSUME NEW t \in AllTables, NEW p \in Procs, NEW c \in Slots, At(t, p, c) # None
  PROVE  DropsOne(t, [t EXCEPT ![p] = RevokeForLend(@, c)], p, c)
<1>1. /\ DOMAIN t = Procs /\ DOMAIN t[p].slots = Slots
      /\ RevokeForLend(t[p], c).slots = [t[p].slots EXCEPT ![c] = None]
      /\ t[p].reserved \subseteq RevokeForLend(t[p], c).reserved
  BY DEF RevokeForLend, AllTables, GoodTables, Tables
<1> QED BY <1>1 DEF DropsOne, SameBeyond, At

\* The transfer of a rendezvous: the capability goes over, or it goes back; one
\* that no syscall can mint again may find its own slot held for it, and is lost.
LEMMA TransferCells ==
  ASSUME caps \in AllTables, NEW from \in Procs, NEW to \in Procs, from # to,
         NEW c \in Slots, CapAt(from, c) # None, Transfer(from, c, to)
  PROVE  \/ \E l \in Slots : MovesOne(caps, caps', from, c, to, l)
         \/ \E l \in Slots : MovesOne(caps, caps', from, c, from, l)
         \/ DropsOne(caps, caps', from, c) /\ LendReservesHome(CapAt(from, c))
<1> DEFINE cap   == At(caps, from, c)
           left  == RevokeForLend(caps[from], c)
           taken == [caps EXCEPT ![from] = RevokeForLend(@, c)]
           land  == InstallHomeSlot(caps[to], cap.origin, to)
           lent  == LentTo(cap, [lender |-> from, home |-> c], to)
           back  == InstallSlot(left)
<1>1. /\ caps' = IF land # None THEN Moved(from, left, to, land, lent)
                 ELSE [caps EXCEPT ![from] = Put(left, back, cap)]
      /\ cap # None
  BY DEF Transfer, At, CapAt
<1>2. caps[from] \in GoodTables /\ caps[to] \in Tables /\ left \in GoodTables
  BY TakeGood DEF AllTables, GoodTables
<1>3. DOMAIN caps = Procs
  BY DEF AllTables
<1>4. CASE land # None
  <2>1. /\ land \in Slots /\ At(caps, to, land) = None
        /\ land \in caps[to].reserved => /\ cap.origin # None
                                         /\ cap.origin.lender = to
                                         /\ cap.origin.home = land
    BY <1>2, <1>4, LandingRule, LandsInEmptySlot DEF EmptySlots, At
  <2>2. caps' = [taken EXCEPT ![to] = Put(@, land, lent)]
    <3> HIDE DEF land, lent
    <3> QED BY <1>1, <1>3, <1>4 DEF Moved
  <2> HIDE DEF land, lent, taken
  <2>3. MovesOne(caps, caps', from, c, to, land)
    BY <1>1, <2>1, <2>2, MovedCells DEF taken, lent
  <2> QED BY <2>1, <2>3
<1>5. CASE land = None /\ back # None
  <2>1. caps' = [taken EXCEPT ![from] = Put(@, back, cap)]
    <3> HIDE DEF land, lent, cap, back
    <3> QED BY <1>1, <1>3, <1>5
  <2>2. back \in Slots \ left.reserved /\ back \in EmptySlots(left)
    BY <1>2, <1>5, LandingRule, LandsInEmptySlot DEF GoodTables
  <2>3. /\ left.slots = [caps[from].slots EXCEPT ![c] = None]
        /\ caps[from].reserved \subseteq left.reserved
    BY DEF RevokeForLend
  <2>4. At(caps, from, back) = None \/ back = c
    BY <1>2, <2>2, <2>3 DEF At, EmptySlots, GoodTables, Tables
  <2>5. back \notin caps[from].reserved
    BY <2>2, <2>3
  <2> HIDE DEF land, lent, taken, back, cap
  <2>6. MovesOne(caps, caps', from, c, from, back)
    BY <1>1, <2>1, <2>2, <2>4, <2>5, MovedCells DEF taken, cap
  <2> QED BY <2>2, <2>6
<1>6. CASE land = None /\ back = None
  <2>1. caps' = taken
    <3> HIDE DEF land, lent, cap
    <3> QED BY <1>1, <1>3, <1>6 DEF Put
  <2>2. DropsOne(caps, caps', from, c)
    <3> HIDE DEF taken
    <3> QED BY <1>1, <2>1, LostCells DEF taken
  <2>3. LendReservesHome(cap)
    <3> SUFFICES ASSUME ~LendReservesHome(cap) PROVE FALSE
      OBVIOUS
    <3>1. left.slots[c] = None /\ left.reserved = caps[from].reserved
      BY <1>2 DEF RevokeForLend, At, GoodTables, Tables
    <3>2. c \notin caps[from].reserved
      BY <1>1, <1>2 DEF GoodTables, At
    <3>3. c \in FreeSlots(left)
      BY <3>1, <3>2 DEF FreeSlots
    <3>4. back # None
      BY <1>2, <3>3, InstallSlotFree, NoneApart DEF GoodTables, FreeSlots
    <3> QED BY <1>6, <3>4
  <2> QED BY <2>2, <2>3 DEF At, CapAt
<1> QED BY <1>4, <1>5, <1>6

\* A loan goes home, or its lender has no place for it.
LEMMA SendHomeCells ==
  ASSUME caps \in AllTables, NEW p \in Procs, NEW s \in Slots,
         CapAt(p, s) # None, CapAt(p, s).origin # None,
         CapAt(p, s).origin.lender # p, SendHome(p, s)
  PROVE  \/ \E l \in Slots :
              MovesOne(caps, caps', p, s, CapAt(p, s).origin.lender, l)
         \/ /\ DropsOne(caps, caps', p, s)
            /\ HomeLanding(CapAt(p, s).origin) = None
<1> DEFINE cap   == At(caps, p, s)
           o     == cap.origin
           q     == o.lender
           home  == LentTo(cap, [lender |-> p, home |-> o.home], q)
           lent  == LentTo(cap, [lender |-> p, home |-> s], q)
           left  == Revoke(caps[p], s)
           taken == [caps EXCEPT ![p] = RevokeForLend(@, s)]
           land  == HomeLanding(o)
<1>1. caps' = Moved(p, left, q, land, home) /\ cap # None /\ o # None /\ q # p
  BY DEF SendHome, At, CapAt
<1>2. cap \in Caps
  BY CapAtType DEF AllTables, CapAt, At
<1>3. q \in Procs
  BY <1>1, <1>2 DEF Caps, CapRecords, Origins
<1>4. home = lent
  BY <1>1 DEF LentTo
<1>5. left = RevokeForLend(caps[p], s)
  <2>1. ~LendReservesHome(caps[p].slots[s])
    BY <1>1 DEF LendReservesHome, At
  <2>2. caps[p] \in Tables
    BY DEF AllTables, GoodTables
  <2> QED BY <2>1, <2>2 DEF Revoke, RevokeForLend, Tables
<1>6. DOMAIN caps = Procs
  BY DEF AllTables
<1>7. CASE land # None
  <2>1. land = ReclaimSlot(caps[q], o.home)
    BY <1>7 DEF HomeLanding
  <2>2. caps[q] \in Tables
    BY <1>3 DEF AllTables, GoodTables
  <2>3. /\ land \in Slots /\ At(caps, q, land) = None
        /\ land \in caps[q].reserved => o.home = land
    BY <1>7, <2>1, <2>2, LandingRule, LandsInEmptySlot DEF EmptySlots, At
  <2> HIDE DEF land, home, lent, left
  <2>4. caps' = [taken EXCEPT ![q] = Put(@, land, lent)]
    BY <1>1, <1>3, <1>4, <1>5, <1>6 DEF Moved
  <2>5. MovesOne(caps, caps', p, s, q, land)
    <3> HIDE DEF taken
    <3> QED BY <1>1, <1>3, <2>3, <2>4, MovedCells DEF taken, lent
  <2> QED BY <2>3, <2>5 DEF At, CapAt
<1>8. CASE land = None
  <2>1. Put([caps EXCEPT ![p] = left][q], land, home) = [caps EXCEPT ![p] = left][q]
    BY <1>8 DEF Put
  <2>2. caps' = [caps EXCEPT ![p] = Revoke(@, s)]
    <3> HIDE DEF land, home, left
    <3> QED BY <1>1, <1>3, <1>6, <2>1 DEF Moved, left
  <2>3. DropsOne(caps, caps', p, s)
    BY <1>1, <2>2, RevokeCells
  <2> QED BY <1>8, <2>3 DEF At, CapAt
<1> QED BY <1>7, <1>8

\* A capability is put in a slot that is empty and not held for another.
LEMMA PutCells ==
  ASSUME NEW t \in AllTables, NEW p \in Procs, NEW cap \in Caps, NEW l \in Slots,
         At(t, p, l) = None, l \notin t[p].reserved
  PROVE  /\ AddsOne(t, [t EXCEPT ![p] = Put(@, l, cap)], p, l, cap)
         /\ [t EXCEPT ![p] = Put(@, l, cap)] \in AllTables
<1>1. t[p] \in Tables /\ DOMAIN t = Procs /\ DOMAIN t[p].slots = Slots
  BY DEF AllTables, GoodTables, Tables
<1>2. Put(t[p], l, cap) = [slots |-> [t[p].slots EXCEPT ![l] = cap], reserved |-> t[p].reserved]
  BY NoneApart DEF Put
<1>3. AddsOne(t, [t EXCEPT ![p] = Put(@, l, cap)], p, l, cap)
  BY <1>1, <1>2 DEF AddsOne, SameBeyond, At
<1>4. Put(t[p], l, cap) \in GoodTables
  BY <1>1, PutGood DEF AllTables, EmptySlots, At
<1> QED BY <1>3, <1>4 DEF AllTables

\* A spawn that fails puts the capability back.
LEMMA SpawnFailsCells ==
  ASSUME caps \in AllTables, NEW p \in Procs, NEW c \in Slots \cup {None},
         SpawnFails(p, c)
  PROVE  /\ c \in Slots
         /\ \E l \in Slots : MovesOne(caps, caps', p, c, p, l)
<1> DEFINE cap   == At(caps, p, c)
           left  == RevokeForLend(caps[p], c)
           taken == [caps EXCEPT ![p] = RevokeForLend(@, c)]
           land  == ReclaimSlot(left, c)
<1>1. /\ c \in Slots /\ cap # None
      /\ caps' = [caps EXCEPT ![p] = Put(left, land, cap)]
  BY DEF SpawnFails, Moves, At, CapAt
<1>2. caps[p] \in GoodTables /\ left \in GoodTables /\ left \in Tables
  BY <1>1, TakeGood DEF AllTables, GoodTables
<1>3. /\ left.slots = [caps[p].slots EXCEPT ![c] = None]
      /\ caps[p].reserved \subseteq left.reserved
      /\ LendReservesHome(cap) => c \in left.reserved
      /\ ~LendReservesHome(cap) => left.reserved = caps[p].reserved
  BY DEF RevokeForLend, At
<1>4. left.slots[c] = None /\ c \notin caps[p].reserved
  BY <1>1, <1>2, <1>3 DEF GoodTables, Tables, At
<1>5. land # None
  <2>1. CASE LendReservesHome(cap)
    BY <1>1, <1>3, <1>4, <2>1, NoneApart DEF ReclaimSlot, CanReclaimTo
  <2>2. CASE ~LendReservesHome(cap)
    <3>1. c \in FreeSlots(left)
      BY <1>1, <1>3, <1>4, <2>2 DEF FreeSlots
    <3>2. InstallSlot(left) # None
      BY <1>2, <3>1, InstallSlotFree, NoneApart DEF FreeSlots
    <3> QED BY <1>1, <3>2, NoneApart DEF ReclaimSlot
  <2> QED BY <2>1, <2>2
<1>6. land \in Slots /\ land \in EmptySlots(left) /\ (land \in left.reserved => land = c)
  BY <1>2, <1>5, LandingRule, LandsInEmptySlot
<1>7. /\ At(caps, p, land) = None \/ land = c
      /\ land \notin caps[p].reserved
  BY <1>2, <1>3, <1>4, <1>6 DEF EmptySlots, At, GoodTables, Tables
<1>8. caps' = [taken EXCEPT ![p] = Put(@, land, cap)]
  <2> HIDE DEF land, cap
  <2> QED BY <1>1 DEF AllTables
<1> HIDE DEF land, cap, taken
<1>9. MovesOne(caps, caps', p, c, p, land)
  BY <1>1, <1>6, <1>7, <1>8, MovedCells DEF taken, cap
<1> QED BY <1>1, <1>6, <1>9

\* The child's budget, its end of the result channel, and its parent's.
Budget    == Cap("CpuTime", CpuBudget, {"CONSUME"})
Result(e) == Cap("Endpoint", e, {"SEND"})
Handle(e) == Cap("Endpoint", e, {"RECV"})

\* A spawn: the granted capability moves, the child's two are minted, and the
\* parent's handle if its table has room.
SpawnsFrom(t, u, p, c, q, e, given, handle) == \E t1, t2, t3 \in AllTables :
  /\ IF given # None THEN MovesOne(t, t1, p, c, q, 2) ELSE t1 = t
  /\ AddsOne(t1, t2, q, 0, Budget)
  /\ AddsOne(t2, t3, q, 1, Result(e))
  /\ IF handle = None THEN u = t3
     ELSE handle \in Slots /\ AddsOne(t3, u, p, handle, Handle(e))

\* spawn_scheduled when the child starts.
LEMMA SpawnChildCells ==
  ASSUME caps \in AllTables, NEW p \in Procs, NEW q \in Procs, p # q,
         NEW e \in Endpoints, NEW c \in Slots \cup {None},
         caps[q] = EmptyTable,
         NEW cap, cap = IF Moves(p, c) THEN CapAt(p, c) ELSE None,
         NEW left, left = IF cap = None THEN caps[p] ELSE RevokeForLend(caps[p], c),
         NEW grant, grant = IF cap = None \/ cap.origin # None THEN cap
                            ELSE [cap EXCEPT !.origin = [lender |-> p, home |-> c]],
         cap # None /\ cap.origin # None => cap.origin.lender # q,
         caps' = [caps EXCEPT
           ![p] = Put(left, InstallSlot(left), Cap("Endpoint", e, {"RECV"})),
           ![q] = ChildTable(e, grant)],
         NEW handle, handle = InstallSlot(left)
  PROVE  SpawnsFrom(caps, caps', p, c, q, e, cap, handle)
<1> DEFINE taken == [caps EXCEPT ![p] = left]
           t1 == IF cap = None THEN caps ELSE [taken EXCEPT ![q] = Put(@, 2, grant)]
           t2 == [t1 EXCEPT ![q] = Put(@, 0, Budget)]
           t3 == [t2 EXCEPT ![q] = Put(@, 1, Result(e))]
<1>1. 0 \in Slots /\ 1 \in Slots /\ 2 \in Slots /\ DOMAIN caps = Procs
  BY SizeAssumption DEF Slots, AllTables
<1>2. /\ \A s \in Slots : At(caps, q, s) = None
      /\ caps[q].reserved = {}
  BY DEF EmptyTable, At
<1>3. Budget \in Caps /\ Result(e) \in Caps /\ Handle(e) \in Caps
  <2>1. e \in Nat \cap Ids("Endpoint")
    BY SizeAssumption DEF Endpoints, Ids
  <2>2. CpuBudget \in Nat \cap Ids("CpuTime")
    BY KernelAssumption DEF Ids
  <2> QED BY <2>1, <2>2, CapType DEF Budget, Result, Handle, Kinds, Rights
<1>4. cap # None => /\ c \in Slots /\ cap = At(caps, p, c) /\ cap \in Caps
                    /\ grant = LentTo(cap, [lender |-> p, home |-> c], q)
  <2> SUFFICES ASSUME cap # None
               PROVE  /\ c \in Slots /\ cap = At(caps, p, c) /\ cap \in Caps
                      /\ grant = LentTo(cap, [lender |-> p, home |-> c], q)
    OBVIOUS
  <2>1. c \in Slots /\ cap = CapAt(p, c)
    BY DEF Moves
  <2>2. cap \in Caps
    BY <2>1, CapAtType DEF AllTables
  <2>3. grant = LentTo(cap, [lender |-> p, home |-> c], q)
    <3>1. CASE cap.origin = None
      BY <3>1 DEF LentTo
    <3>2. CASE cap.origin # None
      BY <2>2, <3>2 DEF LentTo, Caps, CapRecords
    <3> QED BY <3>1, <3>2
  <2> QED BY <2>1, <2>2, <2>3 DEF CapAt, At
<1>5. cap # None => grant \in Caps
  BY <1>4, LentToType DEF Origins
<1>6. left \in GoodTables
  BY <1>4, TakeGood DEF AllTables
<1>7. /\ t1 \in AllTables /\ t1[p] = left
      /\ t1[q].reserved = {} /\ At(t1, q, 0) = None /\ At(t1, q, 1) = None
      /\ IF cap # None THEN MovesOne(caps, t1, p, c, q, 2) ELSE t1 = caps
      /\ t1[q].slots[2] = grant
      /\ \A r \in Procs : r # p /\ r # q => t1[r] = caps[r]
  <2>1. CASE cap = None
    BY <1>1, <1>2, <2>1 DEF At
  <2>2. CASE cap # None
    <3>1. t1 = [taken EXCEPT ![q] = Put(@, 2, grant)]
      BY <2>2
    <3>2. taken = [caps EXCEPT ![p] = RevokeForLend(@, c)]
      BY <2>2
    <3>3. taken[q] = EmptyTable /\ taken[p] = left /\ taken \in AllTables
      BY <1>1, <1>6 DEF AllTables
    <3>4. Put(taken[q], 2, grant) \in GoodTables
      BY <1>1, <1>2, <1>5, <2>2, <3>3, EmptyTableGood, PutGood DEF EmptySlots, At
    <3> HIDE DEF taken, t1
    <3>5. t1 \in AllTables /\ t1[p] = left /\ \A r \in Procs : r # p /\ r # q => t1[r] = taken[r]
      BY <3>1, <3>3, <3>4 DEF AllTables
    <3>6. MovesOne(caps, t1, p, c, q, 2)
      BY <1>1, <1>2, <1>4, <2>2, <3>1, <3>2, MovedCells
    <3>7. t1[q] = [slots |-> [EmptyTable.slots EXCEPT ![2] = grant], reserved |-> {}]
      BY <1>1, <3>1, <3>3, NoneApart DEF Put, EmptyTable, AllTables
    <3>8. t1[q].reserved = {} /\ At(t1, q, 0) = None /\ At(t1, q, 1) = None /\ t1[q].slots[2] = grant
      BY <1>1, <3>7 DEF At, EmptyTable
    <3>9. \A r \in Procs : r # p /\ r # q => t1[r] = caps[r]
      BY <1>1, <3>2, <3>5
    <3> QED BY <2>2, <3>5, <3>6, <3>8, <3>9
  <2> QED BY <2>1, <2>2
<1>8. AddsOne(t1, t2, q, 0, Budget) /\ t2 \in AllTables
  <2> HIDE DEF t1
  <2> QED BY <1>1, <1>3, <1>7, PutCells
<1>9. t2[q].reserved = {} /\ At(t2, q, 1) = None
  <2> HIDE DEF t1, t2
  <2> QED BY <1>1, <1>7, <1>8 DEF AddsOne, SameBeyond
<1>10. AddsOne(t2, t3, q, 1, Result(e)) /\ t3 \in AllTables
  <2> HIDE DEF t2
  <2> QED BY <1>1, <1>3, <1>8, <1>9, PutCells
<1>11. t3[q] = ChildTable(e, grant)
  <2>1. t1[q].slots = [s \in Slots |-> IF s = 2 THEN grant ELSE None]
    <3>1. \A s \in Slots : t1[q].slots[s] = IF s = 2 THEN grant ELSE None
      BY <1>1, <1>2, <1>7 DEF MovesOne, SameBeyond, At
    <3>2. DOMAIN t1[q].slots = Slots /\ t1[q].slots = [s \in Slots |-> t1[q].slots[s]]
      BY <1>7 DEF AllTables, GoodTables, Tables
    <3> HIDE DEF t1
    <3> QED BY <3>1, <3>2
  <2> HIDE DEF t1
  <2>2. t2[q] = Put(t1[q], 0, Budget)
    BY <1>7 DEF AllTables
  <2>3. t3[q] = Put(t2[q], 1, Result(e))
    <3> HIDE DEF t2
    <3> QED BY <1>8 DEF AllTables
  <2>4. t2[q] = [slots |-> [t1[q].slots EXCEPT ![0] = Budget], reserved |-> {}]
    BY <1>1, <1>7, <2>2, NoneApart DEF Put
  <2> HIDE DEF t2, t3
  <2>5. t3[q] = [slots |-> [t2[q].slots EXCEPT ![1] = Result(e)], reserved |-> {}]
    BY <1>1, <1>9, <2>3, NoneApart DEF Put
  <2> DEFINE filled == [s \in Slots |-> IF s = 0 THEN Budget ELSE IF s = 1 THEN Result(e)
                                         ELSE IF s = 2 THEN grant ELSE None]
  <2>6. ChildTable(e, grant) = [slots |-> filled, reserved |-> {}]
    <3>1. [[s \in Slots |-> None] EXCEPT ![0] = Budget, ![1] = Result(e), ![2] = grant] = filled
      BY <1>1
    <3> HIDE DEF filled
    <3>2. EmptyTable = [slots |-> [s \in Slots |-> None], reserved |-> {}]
      BY ONLY DEF EmptyTable
    <3>3. ChildTable(e, grant) = [EmptyTable EXCEPT !.slots =
            [EmptyTable.slots EXCEPT ![0] = Budget, ![1] = Result(e), ![2] = grant]]
      BY ONLY DEF ChildTable, Budget, Result
    <3>4. EmptyTable.slots = [s \in Slots |-> None]
      BY ONLY <3>2
    <3>5. [EmptyTable.slots EXCEPT ![0] = Budget, ![1] = Result(e), ![2] = grant] = filled
      BY ONLY <3>1, <3>4, Zenon
    <3> QED BY ONLY <3>2, <3>3, <3>5
  <2>7. [t2[q].slots EXCEPT ![1] = Result(e)] = filled
    <3>1. t2[q].slots = [s \in Slots |-> IF s = 0 THEN Budget ELSE IF s = 2 THEN grant ELSE None]
      <4>1. [[s \in Slots |-> IF s = 2 THEN grant ELSE None] EXCEPT ![0] = Budget] =
              [s \in Slots |-> IF s = 0 THEN Budget ELSE IF s = 2 THEN grant ELSE None]
        BY ONLY <1>1
      <4>2. t2[q].slots = [t1[q].slots EXCEPT ![0] = Budget]
        BY ONLY <2>4
      <4> QED BY ONLY <2>1, <4>1, <4>2
    <3> QED BY ONLY <1>1, <3>1
  <2> QED BY <2>5, <2>6, <2>7
<1>12. t3[p] = left /\ \A r \in Procs : r # p /\ r # q => t3[r] = caps[r]
  <2>1. \A r \in Procs : r # q => t3[r] = t1[r]
    <3> HIDE DEF t1
    <3> QED BY <1>7 DEF AllTables
  <2> QED BY <1>7, <2>1
<1> HIDE DEF t1, t2, t3
<1>13. caps' = [t3 EXCEPT ![p] = Put(@, handle, Handle(e))]
  <2>1. ASSUME NEW r \in Procs
        PROVE  caps'[r] = [t3 EXCEPT ![p] = Put(@, handle, Handle(e))][r]
    <3>1. CASE r = p
      BY <1>1, <1>10, <1>12, <3>1 DEF Handle, AllTables
    <3>2. CASE r = q
      BY <1>1, <1>10, <1>11, <3>2 DEF AllTables
    <3>3. CASE r # p /\ r # q
      BY <1>1, <1>10, <1>12, <3>3 DEF AllTables
    <3> QED BY <3>1, <3>2, <3>3
  <2>2. DOMAIN caps' = Procs /\ DOMAIN [t3 EXCEPT ![p] = Put(@, handle, Handle(e))] = Procs
    BY <1>1, <1>10 DEF AllTables
  <2>3. caps' = [r \in Procs |-> caps'[r]]
    BY <1>1
  <2> QED BY <1>10, <2>1, <2>2, <2>3 DEF AllTables
<1>14. IF handle = None THEN caps' = t3
       ELSE handle \in Slots /\ AddsOne(t3, caps', p, handle, Handle(e))
  <2>1. CASE handle = None
    BY <1>10, <1>13, <2>1 DEF Put, AllTables
  <2>2. CASE handle # None
    <3>1. handle = InstallSlot(t3[p])
      BY <1>12
    <3>2. /\ handle \in Slots
          /\ AddsOne(t3, [t3 EXCEPT ![p] = Put(@, handle, Handle(e))], p, handle, Handle(e))
      BY ONLY p \in Procs, <1>10, <2>2, <3>1, InstallCells
    <3> QED BY ONLY <1>13, <2>2, <3>2
  <2> QED BY <2>1, <2>2
<1> QED BY <1>7, <1>8, <1>10, <1>14 DEF SpawnsFrom

----------------------------------------------------------------------------
(* What the shapes preserve: identities, lenders, rights.                  *)

\* The kinds whose objects have at most one capability.
UniqueKinds == {"Frame", "Reply"} \cup ReclaimableKinds

\* Some table holds a capability for the object.
Named(t, kind, id) == \E p \in Procs, s \in Slots :
  At(t, p, s) # None /\ At(t, p, s).kind = kind /\ At(t, p, s).id = id

\* No two cells hold capabilities for one frame, caller, disk range, input
\* source or screen band.
OnlyOne(t) == \A p, q \in Procs : \A s, r \in Slots :
  /\ At(t, p, s) # None /\ At(t, q, r) # None
  /\ At(t, p, s).kind \in UniqueKinds
  /\ At(t, q, r).kind = At(t, p, s).kind
  /\ At(t, q, r).id = At(t, p, s).id
  => p = q /\ s = r

\* Whoever lent a capability lives, and is not its holder.
LendersIn(t, st) == \A p \in Procs, s \in Slots :
  At(t, p, s) # None /\ At(t, p, s).origin # None =>
    /\ st[At(t, p, s).origin.lender] # "Empty"
    /\ At(t, p, s).origin.lender # p

\* An endpoint capability lets its holder send or receive.
Useful(t) == \A p \in Procs, s \in Slots :
  At(t, p, s) # None /\ At(t, p, s).kind = "Endpoint" =>
    At(t, p, s).rights \cap {"SEND", "RECV"} # {}

\* Nothing is in p's table and nothing is held open there.
Bare(t, p) == (\A s \in Slots : At(t, p, s) = None) /\ t[p].reserved = {}

\* A table that is bare is the empty table.
LEMMA BareIsEmpty ==
  ASSUME NEW t \in AllTables, NEW p \in Procs, Bare(t, p)
  PROVE  t[p] = EmptyTable
<1>1. t[p] \in Tables
  BY DEF AllTables, GoodTables
<1>2. t[p].slots = [s \in Slots |-> None]
  BY <1>1 DEF Bare, At, Tables
<1>3. t[p] = [slots |-> t[p].slots, reserved |-> t[p].reserved]
  BY <1>1 DEF Tables
<1> QED BY <1>2, <1>3 DEF Bare, EmptyTable

\* What a cell holds is a capability.
LEMMA AtType ==
  ASSUME NEW t \in AllTables, NEW p \in Procs, NEW s \in Slots, At(t, p, s) # None
  PROVE  /\ At(t, p, s) \in Caps
         /\ At(t, p, s).origin # None =>
              At(t, p, s).origin.lender \in Procs /\ At(t, p, s).origin.home \in Slots
<1>1. At(t, p, s) \in Caps
  BY DEF AllTables, GoodTables, Tables, At
<1> QED BY <1>1 DEF Caps, CapRecords, Origins

\* Lending changes nothing but the origin.
LEMMA LentToSame ==
  ASSUME NEW cap \in Caps, NEW source \in Origins, NEW dest,
         NEW lent, lent = LentTo(cap, source, dest)
  PROVE  /\ lent # None /\ lent.kind = cap.kind /\ lent.id = cap.id
         /\ lent.rights = cap.rights
         /\ lent.origin = IF cap.origin = None THEN source
                          ELSE IF cap.origin.lender = dest THEN None ELSE cap.origin
<1>1. lent \in Caps
  BY LentToType
<1>2. lent # None
  BY <1>1, NoneAssumption DEF Caps
<1> QED BY <1>2 DEF LentTo, Caps, CapRecords

\* The capability that has moved is the one that was there.
LEMMA MovesSame ==
  ASSUME NEW t \in AllTables, NEW u, NEW p \in Procs, NEW c \in Slots,
         NEW q \in Procs, NEW l \in Slots, MovesOne(t, u, p, c, q, l)
  PROVE  /\ At(t, p, c) # None /\ At(u, q, l) # None
         /\ At(u, q, l).kind = At(t, p, c).kind
         /\ At(u, q, l).id = At(t, p, c).id
         /\ At(u, q, l).rights = At(t, p, c).rights
<1>1. At(t, p, c) # None /\ At(t, p, c) \in Caps
  BY AtType DEF MovesOne
<1>2. CASE q = p
  BY <1>1, <1>2 DEF MovesOne
<1>3. CASE q # p
  <2>1. [lender |-> p, home |-> c] \in Origins
    BY DEF Origins
  <2>2. At(u, q, l) = LentTo(At(t, p, c), [lender |-> p, home |-> c], q)
    BY <1>3 DEF MovesOne
  <2> QED BY <1>1, <1>3, <2>1, <2>2, LentToSame
<1> QED BY <1>2, <1>3

\* It is lent, passed on or handed back as LentTo says.
LEMMA MovesLends ==
  ASSUME NEW t \in AllTables, NEW u, NEW p \in Procs, NEW c \in Slots,
         NEW q \in Procs, NEW l \in Slots, MovesOne(t, u, p, c, q, l)
  PROVE  /\ At(t, p, c) # None /\ At(t, p, c) \in Caps
         /\ At(u, q, l).origin = IF q = p THEN At(t, p, c).origin
              ELSE IF At(t, p, c).origin = None THEN [lender |-> p, home |-> c]
              ELSE IF At(t, p, c).origin.lender = q THEN None ELSE At(t, p, c).origin
<1>1. At(t, p, c) # None /\ At(t, p, c) \in Caps
  BY AtType DEF MovesOne
<1>2. CASE q = p
  BY <1>1, <1>2 DEF MovesOne
<1>3. CASE q # p
  <2>1. [lender |-> p, home |-> c] \in Origins
    BY DEF Origins
  <2>2. At(u, q, l) = LentTo(At(t, p, c), [lender |-> p, home |-> c], q)
    BY <1>3 DEF MovesOne
  <2> QED BY <1>1, <1>3, <2>1, <2>2, LentToSame
<1> QED BY <1>2, <1>3

\* A move keeps who is named, and that there is one of each.
LEMMA MovesNames ==
  ASSUME NEW t \in AllTables, NEW u, NEW p \in Procs, NEW c \in Slots,
         NEW q \in Procs, NEW l \in Slots, MovesOne(t, u, p, c, q, l)
  PROVE  /\ OnlyOne(t) => OnlyOne(u)
         /\ \A kind, id : Named(u, kind, id) <=> Named(t, kind, id)
         /\ Useful(t) => Useful(u)
<1> DEFINE was == At(t, p, c)
           is  == At(u, q, l)
<1>1. /\ was # None /\ is # None
      /\ is.kind = was.kind /\ is.id = was.id /\ is.rights = was.rights
  BY MovesSame
<1>2. /\ At(t, q, l) = None \/ (q = p /\ l = c)
      /\ ~(q = p /\ l = c) => At(u, p, c) = None
  BY DEF MovesOne
<1>3. \A r \in Procs, s \in Slots :
        ~(r = p /\ s = c) /\ ~(r = q /\ s = l) => At(u, r, s) = At(t, r, s)
  BY DEF MovesOne, SameBeyond
<1>4. \A r \in Procs, s \in Slots : At(u, r, s) # None =>
        (r = q /\ s = l) \/ (~(r = p /\ s = c) /\ ~(r = q /\ s = l) /\ At(u, r, s) = At(t, r, s))
  BY <1>2, <1>3
<1>5. OnlyOne(t) => OnlyOne(u)
  <2> HIDE DEF was, is
  <2>1. ASSUME OnlyOne(t), NEW a \in Procs, NEW b \in Procs, NEW s \in Slots, NEW r \in Slots,
               At(u, a, s) # None, At(u, b, r) # None, At(u, a, s).kind \in UniqueKinds,
               At(u, b, r).kind = At(u, a, s).kind, At(u, b, r).id = At(u, a, s).id
        PROVE  a = b /\ s = r
    <3>1. CASE a = q /\ s = l /\ ~(b = q /\ r = l)
      BY <1>1, <1>4, <2>1, <3>1 DEF OnlyOne, was, is
    <3>2. CASE b = q /\ r = l /\ ~(a = q /\ s = l)
      BY <1>1, <1>4, <2>1, <3>2 DEF OnlyOne, was, is
    <3>3. CASE ~(b = q /\ r = l) /\ ~(a = q /\ s = l)
      BY <1>4, <2>1, <3>3 DEF OnlyOne
    <3> QED BY <3>1, <3>2, <3>3
  <2> QED BY <2>1 DEF OnlyOne
<1>6. ASSUME NEW kind, NEW id PROVE Named(u, kind, id) <=> Named(t, kind, id)
  <2>1. ASSUME Named(u, kind, id) PROVE Named(t, kind, id)
    BY <1>1, <1>4, <2>1 DEF Named
  <2>2. ASSUME Named(t, kind, id) PROVE Named(u, kind, id)
    <3>1. PICK r \in Procs, s \in Slots :
            At(t, r, s) # None /\ At(t, r, s).kind = kind /\ At(t, r, s).id = id
      BY <2>2 DEF Named
    <3>2. CASE r = p /\ s = c
      BY <1>1, <3>1, <3>2 DEF Named
    <3>3. CASE ~(r = p /\ s = c)
      BY <1>2, <1>3, <3>1, <3>3 DEF Named
    <3> QED BY <3>2, <3>3
  <2> QED BY <2>1, <2>2
<1>7. Useful(t) => Useful(u)
  BY <1>1, <1>4 DEF Useful
<1> QED BY <1>5, <1>6, <1>7

\* A move keeps the lenders alive and apart from the holders.
LEMMA MovesLenders ==
  ASSUME NEW t \in AllTables, NEW u, NEW p \in Procs, NEW c \in Slots,
         NEW q \in Procs, NEW l \in Slots, MovesOne(t, u, p, c, q, l),
         NEW st, LendersIn(t, st), st[p] # "Empty"
  PROVE  LendersIn(u, st)
<1>1. \A r \in Procs, s \in Slots : At(u, r, s) # None =>
        (r = q /\ s = l) \/ At(u, r, s) = At(t, r, s)
  BY DEF MovesOne, SameBeyond
<1>2. /\ At(t, p, c) # None
      /\ At(u, q, l).origin = IF q = p THEN At(t, p, c).origin
           ELSE IF At(t, p, c).origin = None THEN [lender |-> p, home |-> c]
           ELSE IF At(t, p, c).origin.lender = q THEN None ELSE At(t, p, c).origin
  BY MovesLends
<1>3. At(u, q, l).origin # None =>
        /\ st[At(u, q, l).origin.lender] # "Empty"
        /\ At(u, q, l).origin.lender # q
  BY <1>2 DEF LendersIn
<1> QED BY <1>1, <1>3 DEF LendersIn

\* A minted capability names its object, and no other.
LEMMA AddsNamed ==
  ASSUME NEW t \in AllTables, NEW u, NEW q \in Procs, NEW l \in Slots,
         NEW cap \in Caps, AddsOne(t, u, q, l, cap), NEW kind, NEW id
  PROVE  Named(u, kind, id) <=> Named(t, kind, id) \/ (kind = cap.kind /\ id = cap.id)
<1>1. cap # None
  BY NoneAssumption DEF Caps
<1>2. /\ At(t, q, l) = None /\ At(u, q, l) = cap
      /\ \A r \in Procs, s \in Slots : ~(r = q /\ s = l) => At(u, r, s) = At(t, r, s)
  BY DEF AddsOne, SameBeyond
<1>3. ASSUME Named(t, kind, id) PROVE Named(u, kind, id)
  BY <1>2, <1>3 DEF Named
<1>4. ASSUME kind = cap.kind, id = cap.id PROVE Named(u, kind, id)
  BY <1>1, <1>2, <1>4 DEF Named
<1>5. ASSUME Named(u, kind, id), ~(kind = cap.kind /\ id = cap.id) PROVE Named(t, kind, id)
  BY <1>2, <1>5 DEF Named
<1> QED BY <1>3, <1>4, <1>5

\* A minted capability: nobody else may have it if there can be one only.
LEMMA AddsNames ==
  ASSUME NEW t \in AllTables, NEW u, NEW q \in Procs, NEW l \in Slots,
         NEW cap \in Caps, AddsOne(t, u, q, l, cap), cap.origin = None
  PROVE  /\ OnlyOne(t) /\ (cap.kind \in UniqueKinds => ~Named(t, cap.kind, cap.id))
              => OnlyOne(u)
         /\ \A kind, id : Named(u, kind, id) <=>
              Named(t, kind, id) \/ (kind = cap.kind /\ id = cap.id)
         /\ Useful(t) /\ (cap.kind = "Endpoint" => cap.rights \cap {"SEND", "RECV"} # {})
              => Useful(u)
         /\ \A st : LendersIn(t, st) => LendersIn(u, st)
<1>1. cap # None
  BY NoneAssumption DEF Caps
<1>2. /\ At(t, q, l) = None /\ At(u, q, l) = cap
      /\ \A r \in Procs, s \in Slots : ~(r = q /\ s = l) => At(u, r, s) = At(t, r, s)
  BY DEF AddsOne, SameBeyond
<1>3. OnlyOne(t) /\ (cap.kind \in UniqueKinds => ~Named(t, cap.kind, cap.id)) => OnlyOne(u)
  BY <1>2 DEF OnlyOne, Named
<1>4. \A kind, id : Named(u, kind, id) <=>
        Named(t, kind, id) \/ (kind = cap.kind /\ id = cap.id)
  BY AddsNamed
<1>5. Useful(t) /\ (cap.kind = "Endpoint" => cap.rights \cap {"SEND", "RECV"} # {}) => Useful(u)
  BY <1>2 DEF Useful
<1>6. \A st : LendersIn(t, st) => LendersIn(u, st)
  BY <1>2 DEF LendersIn
<1> QED BY <1>3, <1>4, <1>5, <1>6

\* A dropped capability: only its object loses a name.
LEMMA DropsNames ==
  ASSUME NEW t \in AllTables, NEW u, NEW p \in Procs, NEW c \in Slots,
         DropsOne(t, u, p, c)
  PROVE  /\ OnlyOne(t) => OnlyOne(u)
         /\ \A kind, id : Named(u, kind, id) => Named(t, kind, id)
         /\ \A kind, id : Named(t, kind, id) /\ ~Named(u, kind, id) =>
              kind = At(t, p, c).kind /\ id = At(t, p, c).id
         /\ OnlyOne(t) /\ At(t, p, c).kind \in UniqueKinds =>
              ~Named(u, At(t, p, c).kind, At(t, p, c).id)
         /\ Useful(t) => Useful(u)
         /\ \A st : LendersIn(t, st) => LendersIn(u, st)
<1>1. /\ At(t, p, c) # None /\ At(u, p, c) = None
      /\ \A r \in Procs, s \in Slots : ~(r = p /\ s = c) => At(u, r, s) = At(t, r, s)
  BY DEF DropsOne, SameBeyond
<1>2. \A r \in Procs, s \in Slots : At(u, r, s) # None =>
        ~(r = p /\ s = c) /\ At(u, r, s) = At(t, r, s)
  BY <1>1
<1>3. OnlyOne(t) => OnlyOne(u)
  BY <1>2 DEF OnlyOne
<1>4. \A kind, id : Named(u, kind, id) => Named(t, kind, id)
  BY <1>2 DEF Named
<1>5. \A kind, id : Named(t, kind, id) /\ ~Named(u, kind, id) =>
        kind = At(t, p, c).kind /\ id = At(t, p, c).id
  BY <1>1 DEF Named
<1>6. OnlyOne(t) /\ At(t, p, c).kind \in UniqueKinds =>
        ~Named(u, At(t, p, c).kind, At(t, p, c).id)
  BY <1>1, <1>2 DEF OnlyOne, Named
<1>7. Useful(t) => Useful(u)
  BY <1>2 DEF Useful
<1>8. \A st : LendersIn(t, st) => LendersIn(u, st)
  BY <1>2 DEF LendersIn
<1> QED BY <1>3, <1>4, <1>5, <1>6, <1>7, <1>8

----------------------------------------------------------------------------
(* What the shapes do to the counts of an endpoint.                        *)

\* The capability reaches endpoint e with the right.
Reaches(cap, e, right) ==
  cap # None /\ cap.kind = "Endpoint" /\ cap.id = e /\ right \in cap.rights

\* 1 for a capability that counts, 0 for one that does not.
Counts(cap, e, right) == IF Reaches(cap, e, right) THEN 1 ELSE 0

\* The capabilities that reach an endpoint, cell by cell.
LEMMA ReferentsAt ==
  ASSUME NEW t, NEW e, NEW right
  PROVE  /\ \A p \in Procs, s \in Slots :
              <<p, s>> \in Referents(t, e, right) <=> Reaches(At(t, p, s), e, right)
         /\ Referents(t, e, right) \subseteq Procs \X Slots
         /\ IsFiniteSet(Referents(t, e, right))
         /\ Cardinality(Referents(t, e, right)) \in Nat
         /\ \A p \in Procs, s \in Slots :
              s \in Reaching(t[p], e, right) <=> Reaches(At(t, p, s), e, right)
<1>1. IsFiniteSet(Procs) /\ IsFiniteSet(Slots)
  BY FS_Interval, SizeAssumption DEF Procs, Slots
<1>2. IsFiniteSet(Procs \X Slots)
  BY <1>1, FS_Product
<1>3. Referents(t, e, right) \subseteq Procs \X Slots
  BY DEF Referents
<1>4. IsFiniteSet(Referents(t, e, right)) /\ Cardinality(Referents(t, e, right)) \in Nat
  BY <1>2, <1>3, FS_Subset, FS_CardinalityType
<1>5. \A p \in Procs, s \in Slots :
        s \in Reaching(t[p], e, right) <=> Reaches(At(t, p, s), e, right)
  BY DEF Reaching, Reaches, At
<1>6. \A p \in Procs, s \in Slots :
        <<p, s>> \in Referents(t, e, right) <=> s \in Reaching(t[p], e, right)
  BY DEF Referents
<1> QED BY <1>3, <1>4, <1>5, <1>6

\* Where only one cell of a family of tables has changed.
LEMMA CellCount ==
  ASSUME NEW t, NEW u, NEW p \in Procs, NEW c \in Slots, NEW e, NEW right,
         SameBeyond(t, u, p, c, p, c)
  PROVE  Cardinality(Referents(u, e, right)) + Counts(At(t, p, c), e, right) =
           Cardinality(Referents(t, e, right)) + Counts(At(u, p, c), e, right)
<1> DEFINE T == Referents(t, e, right)
           U == Referents(u, e, right)
           x == <<p, c>>
<1>1. /\ IsFiniteSet(T) /\ IsFiniteSet(U) /\ T \subseteq Procs \X Slots /\ U \subseteq Procs \X Slots
      /\ Cardinality(T) \in Nat /\ Cardinality(U) \in Nat
      /\ \A r \in Procs, s \in Slots :
           /\ <<r, s>> \in T <=> Reaches(At(t, r, s), e, right)
           /\ <<r, s>> \in U <=> Reaches(At(u, r, s), e, right)
  BY ReferentsAt
<1>2. \A r \in Procs, s \in Slots :
        ~(r = p /\ s = c) => (<<r, s>> \in T <=> <<r, s>> \in U)
  BY <1>1 DEF SameBeyond
<1>3. \A y \in Procs \X Slots : y # x => (y \in T <=> y \in U)
  BY <1>2
<1>4. T \ {x} = U \ {x}
  BY <1>1, <1>3
<1>5. /\ x \in T <=> Reaches(At(t, p, c), e, right)
      /\ x \in U <=> Reaches(At(u, p, c), e, right)
  BY <1>1
<1> HIDE DEF T, U, x
<1>6. /\ Cardinality(T \ {x}) = IF x \in T THEN Cardinality(T) - 1 ELSE Cardinality(T)
      /\ Cardinality(U \ {x}) = IF x \in U THEN Cardinality(U) - 1 ELSE Cardinality(U)
  BY <1>1, FS_RemoveElement
<1>7. Cardinality(U) + Counts(At(t, p, c), e, right) =
        Cardinality(T) + Counts(At(u, p, c), e, right)
  BY <1>1, <1>4, <1>5, <1>6 DEF Counts
<1> QED BY <1>7 DEF T, U

\* A minted capability is counted.
LEMMA AddsCount ==
  ASSUME NEW t, NEW u, NEW q \in Procs, NEW l \in Slots, NEW cap,
         AddsOne(t, u, q, l, cap), NEW e, NEW right
  PROVE  Cardinality(Referents(u, e, right)) =
           Cardinality(Referents(t, e, right)) + Counts(cap, e, right)
<1>1. /\ At(t, q, l) = None /\ At(u, q, l) = cap /\ SameBeyond(t, u, q, l, q, l)
  BY DEF AddsOne
<1>2. Cardinality(Referents(u, e, right)) + Counts(At(t, q, l), e, right) =
        Cardinality(Referents(t, e, right)) + Counts(At(u, q, l), e, right)
  BY <1>1, CellCount
<1>3. Counts(At(t, q, l), e, right) = 0
  BY <1>1 DEF Counts, Reaches
<1>4. Cardinality(Referents(u, e, right)) \in Nat
  BY ReferentsAt
<1> QED BY <1>1, <1>2, <1>3, <1>4

\* A dropped one is counted no more.
LEMMA DropsCount ==
  ASSUME NEW t, NEW u, NEW p \in Procs, NEW c \in Slots,
         DropsOne(t, u, p, c), NEW e, NEW right
  PROVE  Cardinality(Referents(t, e, right)) =
           Cardinality(Referents(u, e, right)) + Counts(At(t, p, c), e, right)
<1>1. At(u, p, c) = None /\ SameBeyond(t, u, p, c, p, c)
  BY DEF DropsOne
<1>2. Cardinality(Referents(u, e, right)) + Counts(At(t, p, c), e, right) =
        Cardinality(Referents(t, e, right)) + Counts(At(u, p, c), e, right)
  BY <1>1, CellCount
<1>3. Counts(At(u, p, c), e, right) = 0
  BY <1>1 DEF Counts, Reaches
<1>4. Cardinality(Referents(t, e, right)) \in Nat
  BY ReferentsAt
<1> QED BY <1>2, <1>3, <1>4

\* A capability that moves leaves every count as it was.
LEMMA MovesCount ==
  ASSUME NEW t \in AllTables, NEW u, NEW p \in Procs, NEW c \in Slots,
         NEW q \in Procs, NEW l \in Slots, MovesOne(t, u, p, c, q, l),
         NEW e, NEW right
  PROVE  Cardinality(Referents(u, e, right)) = Cardinality(Referents(t, e, right))
<1> DEFINE T == Referents(t, e, right)
           U == Referents(u, e, right)
           x == <<p, c>>
           y == <<q, l>>
<1>1. /\ IsFiniteSet(T) /\ IsFiniteSet(U) /\ T \subseteq Procs \X Slots /\ U \subseteq Procs \X Slots
      /\ Cardinality(T) \in Nat /\ Cardinality(U) \in Nat
      /\ \A r \in Procs, s \in Slots :
           /\ <<r, s>> \in T <=> Reaches(At(t, r, s), e, right)
           /\ <<r, s>> \in U <=> Reaches(At(u, r, s), e, right)
  BY ReferentsAt
<1>2. x \in T <=> y \in U
  <2>1. Reaches(At(t, p, c), e, right) <=> Reaches(At(u, q, l), e, right)
    BY MovesSame DEF Reaches
  <2> QED BY <1>1, <2>1
<1>3. \A z \in Procs \X Slots : z # x /\ z # y => (z \in T <=> z \in U)
  <2>1. \A r \in Procs, s \in Slots :
          ~(r = p /\ s = c) /\ ~(r = q /\ s = l) => (<<r, s>> \in T <=> <<r, s>> \in U)
    BY <1>1 DEF MovesOne, SameBeyond
  <2> QED BY <2>1
<1>4. x # y => x \notin U /\ y \notin T
  <2>1. x # y => At(t, q, l) = None /\ At(u, p, c) = None
    BY DEF MovesOne
  <2> QED BY <1>1, <2>1 DEF Reaches
<1>5. T \ {x} = U \ {y}
  <2>1. x \in Procs \X Slots /\ y \in Procs \X Slots
    OBVIOUS
  <2> HIDE DEF T, U, x, y
  <2> QED BY <1>1, <1>3, <1>4, <2>1
<1> HIDE DEF T, U, x, y
<1>6. /\ Cardinality(T \ {x}) = IF x \in T THEN Cardinality(T) - 1 ELSE Cardinality(T)
      /\ Cardinality(U \ {y}) = IF y \in U THEN Cardinality(U) - 1 ELSE Cardinality(U)
  BY <1>1, FS_RemoveElement
<1>7. Cardinality(U) = Cardinality(T)
  BY <1>1, <1>2, <1>5, <1>6
<1> QED BY <1>7 DEF T, U

----------------------------------------------------------------------------
(* Death, and what a waiter keeps.                                         *)

\* p's table is emptied, and what p lent belongs to its holder.
Forgets(t, u, p) ==
  /\ Bare(u, p)
  /\ \A q \in Procs \ {p} : u[q].reserved = t[q].reserved
  /\ \A q \in Procs \ {p}, s \in Slots :
       LET cap == At(t, q, s)
       IN  At(u, q, s) = IF cap # None /\ cap.origin # None /\ cap.origin.lender = p
                         THEN [cap EXCEPT !.origin = None] ELSE cap

\* The tables when a process is gone.
LEMMA FinishExitCells ==
  ASSUME caps \in AllTables, NEW p \in Procs, FinishExit(p)
  PROVE  Forgets(caps, caps', p)
<1>1. caps' = [q \in Procs |-> IF q = p THEN EmptyTable ELSE ClearOrigin(caps[q], p)]
  BY DEF FinishExit
<1>2. Bare(caps', p)
  BY <1>1 DEF Bare, EmptyTable, At
<1>3. ASSUME NEW q \in Procs \ {p}
      PROVE  caps'[q].reserved = caps[q].reserved
  BY <1>1 DEF ClearOrigin, AllTables, GoodTables, Tables
<1>4. ASSUME NEW q \in Procs \ {p}, NEW s \in Slots, NEW cap, cap = At(caps, q, s)
      PROVE  At(caps', q, s) = IF cap # None /\ cap.origin # None /\ cap.origin.lender = p
                               THEN [cap EXCEPT !.origin = None] ELSE cap
  <2>1. caps'[q] = ClearOrigin(caps[q], p) /\ caps[q] \in Tables
    BY <1>1 DEF AllTables, GoodTables
  <2> QED BY <1>4, <2>1 DEF ClearOrigin, At, Tables
<1> QED BY <1>2, <1>3, <1>4 DEF Forgets

\* What is left of a capability once its lender is gone.
LEMMA ForgetsSame ==
  ASSUME NEW t \in AllTables, NEW u, NEW p \in Procs, Forgets(t, u, p),
         NEW q \in Procs, NEW s \in Slots
  PROVE  /\ q = p => At(u, q, s) = None
         /\ q # p => /\ At(u, q, s) # None <=> At(t, q, s) # None
                     /\ At(t, q, s) # None =>
                          /\ At(u, q, s).kind = At(t, q, s).kind
                          /\ At(u, q, s).id = At(t, q, s).id
                          /\ At(u, q, s).rights = At(t, q, s).rights
                          /\ At(u, q, s).origin # None =>
                               /\ At(u, q, s).origin = At(t, q, s).origin
                               /\ At(t, q, s).origin.lender # p
<1>1. CASE q = p
  BY <1>1 DEF Forgets, Bare
<1>2. CASE q # p
  <2> DEFINE was == At(t, q, s)
  <2>1. At(u, q, s) = IF was # None /\ was.origin # None /\ was.origin.lender = p
                      THEN [was EXCEPT !.origin = None] ELSE was
    BY <1>2 DEF Forgets
  <2>2. CASE was = None
    BY <1>2, <2>1, <2>2
  <2>3. CASE was # None
    <3>1. was \in CapRecords
      BY <2>3, AtType DEF Caps
    <3>2. [was EXCEPT !.origin = None] \in CapRecords
      BY <3>1 DEF CapRecords
    <3>3. [was EXCEPT !.origin = None] # None
      BY <3>2, NoneAssumption
    <3> HIDE DEF was
    <3>4. CASE was.origin # None /\ was.origin.lender = p
      <4>1. At(u, q, s) = [was EXCEPT !.origin = None]
        BY <2>1, <2>3, <3>4
      <4>2. /\ At(u, q, s).kind = was.kind /\ At(u, q, s).id = was.id
            /\ At(u, q, s).rights = was.rights /\ At(u, q, s).origin = None
        BY <3>1, <4>1 DEF CapRecords
      <4> QED BY <1>2, <2>3, <3>3, <4>1, <4>2 DEF was
    <3>5. CASE ~(was.origin # None /\ was.origin.lender = p)
      BY <1>2, <2>1, <2>3, <3>5 DEF was
    <3> QED BY <3>4, <3>5
  <2> QED BY <2>2, <2>3
<1> QED BY <1>1, <1>2

\* A death keeps what holds of names, rights and lenders.
LEMMA ForgetsNames ==
  ASSUME NEW t \in AllTables, NEW u, NEW p \in Procs, Forgets(t, u, p)
  PROVE  /\ OnlyOne(t) => OnlyOne(u)
         /\ \A kind, id : Named(u, kind, id) <=>
              \E q \in Procs \ {p}, s \in Slots :
                At(t, q, s) # None /\ At(t, q, s).kind = kind /\ At(t, q, s).id = id
         /\ Useful(t) => Useful(u)
         /\ \A st, new : LendersIn(t, st) /\ (\A q \in Procs \ {p} :
                                                st[q] # "Empty" => new[q] # "Empty")
              => LendersIn(u, new)
<1>1. \A q \in Procs, s \in Slots : At(u, q, s) # None =>
        /\ q # p /\ At(t, q, s) # None
        /\ At(u, q, s).kind = At(t, q, s).kind
        /\ At(u, q, s).id = At(t, q, s).id
        /\ At(u, q, s).rights = At(t, q, s).rights
        /\ At(u, q, s).origin # None => /\ At(u, q, s).origin = At(t, q, s).origin
                                        /\ At(t, q, s).origin.lender # p
  BY ForgetsSame
<1>2. \A q \in Procs \ {p}, s \in Slots : At(t, q, s) # None =>
        /\ At(u, q, s) # None
        /\ At(u, q, s).kind = At(t, q, s).kind
        /\ At(u, q, s).id = At(t, q, s).id
  BY ForgetsSame
<1>3. OnlyOne(t) => OnlyOne(u)
  BY <1>1 DEF OnlyOne
<1>4. ASSUME NEW kind, NEW id
      PROVE  Named(u, kind, id) <=>
               \E q \in Procs \ {p}, s \in Slots :
                 At(t, q, s) # None /\ At(t, q, s).kind = kind /\ At(t, q, s).id = id
  BY <1>1, <1>2 DEF Named
<1>5. Useful(t) => Useful(u)
  BY <1>1 DEF Useful
<1>6. ASSUME NEW st, NEW new, LendersIn(t, st),
             \A q \in Procs \ {p} : st[q] # "Empty" => new[q] # "Empty"
      PROVE  LendersIn(u, new)
  <2> SUFFICES ASSUME NEW q \in Procs, NEW s \in Slots,
                      At(u, q, s) # None, At(u, q, s).origin # None
               PROVE  /\ new[At(u, q, s).origin.lender] # "Empty"
                      /\ At(u, q, s).origin.lender # q
    BY DEF LendersIn
  <2>1. /\ At(t, q, s) # None /\ At(u, q, s).origin = At(t, q, s).origin
        /\ At(t, q, s).origin.lender # p
    BY <1>1
  <2>2. At(t, q, s).origin.lender \in Procs
    BY <2>1, AtType
  <2> QED BY <1>6, <2>1, <2>2 DEF LendersIn
<1> QED BY <1>3, <1>4, <1>5, <1>6

\* The counts lose what p's table held.
LEMMA ForgetsCount ==
  ASSUME NEW t \in AllTables, NEW u, NEW p \in Procs, Forgets(t, u, p),
         NEW e, NEW right
  PROVE  Cardinality(Referents(t, e, right)) =
           Cardinality(Referents(u, e, right)) + Cardinality(Reaching(t[p], e, right))
<1> DEFINE T == Referents(t, e, right)
           U == Referents(u, e, right)
           R == Reaching(t[p], e, right)
           P == {p} \X R
<1>1. /\ IsFiniteSet(U) /\ T \subseteq Procs \X Slots /\ U \subseteq Procs \X Slots
      /\ Cardinality(T) \in Nat /\ Cardinality(U) \in Nat
      /\ \A r \in Procs, s \in Slots :
           /\ <<r, s>> \in T <=> Reaches(At(t, r, s), e, right)
           /\ <<r, s>> \in U <=> Reaches(At(u, r, s), e, right)
      /\ \A s \in Slots : s \in R <=> Reaches(At(t, p, s), e, right)
  BY ReferentsAt
<1>2. R \in SUBSET Slots /\ IsFiniteSet(Slots)
  <2>1. R \in SUBSET Slots
    BY DEF Reaching
  <2>2. IsFiniteSet(Slots)
    BY FS_Interval, SizeAssumption DEF Slots
  <2> QED BY <2>1, <2>2
<1>3. IsFiniteSet(R) /\ Cardinality(R) \in Nat
  BY <1>2, FS_Subset, FS_CardinalityType
<1>4. IsFiniteSet(P) /\ Cardinality(P) = Cardinality(R)
  <2>1. IsFiniteSet({p}) /\ Cardinality({p}) = 1
    BY FS_Singleton
  <2>2. IsFiniteSet(P) /\ Cardinality(P) = Cardinality({p}) * Cardinality(R)
    BY <1>3, <2>1, FS_Product
  <2> HIDE DEF P, R
  <2> QED BY <1>3, <2>1, <2>2
<1>5. \A r \in Procs, s \in Slots :
        /\ r = p => ~Reaches(At(u, r, s), e, right)
        /\ r # p => (Reaches(At(u, r, s), e, right) <=> Reaches(At(t, r, s), e, right))
  BY ForgetsSame DEF Reaches
<1>6. \A r \in Procs, s \in Slots :
        /\ <<r, s>> \in T <=> <<r, s>> \in U \/ <<r, s>> \in P
        /\ ~(<<r, s>> \in U /\ <<r, s>> \in P)
  <2> HIDE DEF T, U, R
  <2> QED BY <1>1, <1>5
<1>7. T = U \cup P /\ U \cap P = {}
  <2>1. P \subseteq Procs \X Slots
    BY <1>2
  <2> HIDE DEF T, U, P, R
  <2> QED BY <1>1, <1>6, <2>1
<1> HIDE DEF T, U, P, R
<1>8. Cardinality(T) = Cardinality(U) + Cardinality(P) - Cardinality({})
  BY <1>1, <1>4, <1>7, FS_Union
<1>9. Cardinality(T) = Cardinality(U) + Cardinality(R)
  BY <1>1, <1>3, <1>4, <1>8, FS_EmptySet
<1> QED BY <1>9 DEF T, U, R

\* Whoever outlives p can still reach what it could reach.
LEMMA ForgetsReaching ==
  ASSUME NEW t \in AllTables, NEW u, NEW p \in Procs, Forgets(t, u, p),
         NEW w \in Procs \ {p}, NEW e, NEW right
  PROVE  Reaching(u[w], e, right) = Reaching(t[w], e, right)
<1>1. ASSUME NEW s \in Slots
      PROVE  Reaches(At(u, w, s), e, right) <=> Reaches(At(t, w, s), e, right)
  BY ForgetsSame DEF Reaches
<1> QED BY <1>1 DEF Reaching, Reaches, At

============================================================================
