------------------------ MODULE KernelSafetyProofs ------------------------
(***************************************************************************)
(* The safety of KernelIpc, for every number of processes, capability      *)
(* slots, endpoints and frames, every boot scenario and every workload:    *)
(* frames and loans have one holder, lenders are alive, and a reply        *)
(* capability pins its caller.  Then its endpoints: the counts on which    *)
(* blocking and death decide are exact, a waiter can reach what it waits   *)
(* on, nobody waits for a peer that cannot come, a death wakes nobody      *)
(* else, and whoever is blocked is queued or can be replied to.            *)
(***************************************************************************)
EXTENDS KernelIpcProofs

----------------------------------------------------------------------------
(* The invariant, as operators of the values it relates.                   *)

\* Names, rights and lenders are sound, a slot without a process is bare, and
\* the allocator has the frames no capability names.
TablesSafe(t, st, fr) ==
  /\ OnlyOne(t)
  /\ Useful(t)
  /\ LendersIn(t, st)
  /\ \A r \in Procs : st[r] = "Empty" => Bare(t, r)
  /\ \A f \in Frames : f \in fr <=> ~Named(t, "Frame", f)

\* q waits on e.
InQueue(ep, e, q) == \E i \in 1 .. Len(ep[e].queue) : ep[e].queue[i] = q

\* Every waiter is Blocked and waits once.
Once(ep, st) == \A e \in Endpoints : \A i \in 1 .. Len(ep[e].queue) :
  /\ st[ep[e].queue[i]] = "Blocked"
  /\ \A d \in Endpoints : \A j \in 1 .. Len(ep[d].queue) :
       ep[d].queue[j] = ep[e].queue[i] => d = e /\ j = i

\* Whoever is owed a reply is Blocked, in no queue.
Pinned(t, st, ep) == \A id :
  Named(t, "Reply", id) =>
    /\ id \in Procs /\ st[id] = "Blocked"
    /\ \A e \in Endpoints : ~InQueue(ep, e, id)

\* The process that is being torn down is on its CPU.
ExitingReady == exiting # None => state[exiting] = "Ready"

\* The third inductive invariant.
Inv3 ==
  /\ Inv1
  /\ TablesSafe(caps, state, free)
  /\ Once(eps, state)
  /\ Pinned(caps, state, eps)
  /\ ExitingReady

\* The types, in the form the lemmas about tables take them.
LEMMA Inv3Types ==
  ASSUME Inv1
  PROVE  /\ caps \in AllTables /\ TypeOK
         /\ \A e \in Endpoints : eps[e] \in EndpointRecords /\ eps[e].queue \in Seq(Procs)
         /\ state \in [Procs -> {"Empty", "Ready", "Blocked"}]
  BY TablesGood DEF AllTables, TypeOK, EndpointRecords

----------------------------------------------------------------------------
(* The shapes keep the tables safe.                                        *)

\* Only whether a slot has a process matters.
LEMMA StateSafe ==
  ASSUME NEW t \in AllTables, NEW st, NEW new, NEW fr, TablesSafe(t, st, fr),
         \A r \in Procs : st[r] = "Empty" <=> new[r] = "Empty"
  PROVE  TablesSafe(t, new, fr)
<1>1. LendersIn(t, new)
  BY AtType DEF TablesSafe, LendersIn
<1> QED BY <1>1 DEF TablesSafe

\* A move between living processes.
LEMMA MovesSafe ==
  ASSUME NEW t \in AllTables, NEW u, NEW p \in Procs, NEW c \in Slots,
         NEW q \in Procs, NEW l \in Slots, MovesOne(t, u, p, c, q, l),
         NEW st, NEW fr, TablesSafe(t, st, fr), st[q] # "Empty"
  PROVE  TablesSafe(u, st, fr)
<1>1. st[p] # "Empty"
  BY DEF TablesSafe, Bare, MovesOne
<1>2. LendersIn(u, st)
  BY <1>1, MovesLenders DEF TablesSafe
<1>3. /\ OnlyOne(u) /\ Useful(u)
      /\ \A kind, id : Named(u, kind, id) <=> Named(t, kind, id)
  BY MovesNames DEF TablesSafe
<1>4. ASSUME NEW r \in Procs, st[r] = "Empty" PROVE Bare(u, r)
  <2>1. r # p /\ r # q /\ Bare(t, r)
    BY <1>1, <1>4 DEF TablesSafe
  <2>2. u[r].reserved = {}
    BY <2>1 DEF MovesOne, HeldFor, Bare
  <2>3. \A s \in Slots : At(u, r, s) = None
    BY <2>1 DEF MovesOne, SameBeyond, Bare
  <2> QED BY <2>2, <2>3 DEF Bare
<1> QED BY <1>2, <1>3, <1>4 DEF TablesSafe

\* A capability minted for a living process, of a kind that is not a frame.
LEMMA AddsSafe ==
  ASSUME NEW t \in AllTables, NEW u, NEW q \in Procs, NEW l \in Slots,
         NEW cap \in Caps, AddsOne(t, u, q, l, cap), cap.origin = None,
         cap.kind \in UniqueKinds => ~Named(t, cap.kind, cap.id),
         cap.kind = "Endpoint" => cap.rights \cap {"SEND", "RECV"} # {},
         NEW st, NEW fr, TablesSafe(t, st, fr), st[q] # "Empty",
         NEW rest,
         cap.kind = "Frame" => rest = fr \ {cap.id},
         cap.kind # "Frame" => rest = fr
  PROVE  TablesSafe(u, st, rest)
<1>1. /\ OnlyOne(u) /\ Useful(u) /\ LendersIn(u, st)
      /\ \A kind, id : Named(u, kind, id) <=>
           Named(t, kind, id) \/ (kind = cap.kind /\ id = cap.id)
  BY AddsNames DEF TablesSafe
<1>2. ASSUME NEW r \in Procs, st[r] = "Empty" PROVE Bare(u, r)
  BY <1>2 DEF TablesSafe, AddsOne, SameBeyond, Bare
<1>3. ASSUME NEW f \in Frames
      PROVE  f \in rest <=> ~Named(u, "Frame", f)
  BY <1>1 DEF TablesSafe
<1> QED BY <1>1, <1>2, <1>3 DEF TablesSafe

\* A frame leaves the allocator for an empty cell.
LEMMA FrameAddsSafe ==
  ASSUME NEW t \in AllTables, NEW u, NEW q \in Procs, NEW l \in Slots,
         NEW cap \in Caps, AddsOne(t, u, q, l, cap),
         cap.kind = "Frame", cap.origin = None, ~Named(t, "Frame", cap.id),
         NEW st, NEW fr, TablesSafe(t, st, fr), st[q] # "Empty"
  PROVE  TablesSafe(u, st, fr \ {cap.id})
<1>1. PICK rest : rest = fr \ {cap.id}
  OBVIOUS
<1>2. (cap.kind = "Frame" => rest = fr \ {cap.id}) /\ (cap.kind # "Frame" => rest = fr)
  BY <1>1
<1>3. /\ cap.kind \in UniqueKinds => ~Named(t, cap.kind, cap.id)
      /\ cap.kind = "Endpoint" => cap.rights \cap {"SEND", "RECV"} # {}
  OBVIOUS
<1>4. TablesSafe(u, st, rest)
  BY <1>2, <1>3, AddsSafe, Zenon
<1> QED BY <1>1, <1>4

\* The capabilities a spawn mints.
LEMMA PlainAddsSafe ==
  ASSUME NEW t \in AllTables, NEW u, NEW q \in Procs, NEW l \in Slots,
         NEW cap \in Caps, AddsOne(t, u, q, l, cap), cap.origin = None,
         cap.kind = "CpuTime" \/ (cap.kind = "Endpoint" /\ cap.rights \cap {"SEND", "RECV"} # {}),
         NEW st, NEW fr, TablesSafe(t, st, fr), st[q] # "Empty"
  PROVE  /\ TablesSafe(u, st, fr)
         /\ \A id : Named(u, "Reply", id) => Named(t, "Reply", id)
<1>1. cap.kind \notin UniqueKinds /\ cap.kind # "Frame" /\ cap.kind # "Reply"
  BY DEF UniqueKinds, ReclaimableKinds
<1>2. TablesSafe(u, st, fr)
  <2>1. cap.kind \in UniqueKinds => ~Named(t, cap.kind, cap.id)
    BY <1>1
  <2>2. cap.kind = "Endpoint" => cap.rights \cap {"SEND", "RECV"} # {}
    OBVIOUS
  <2>3. cap.kind # "Frame"
    BY <1>1
  <2> QED BY <2>1, <2>2, <2>3, AddsSafe, Zenon
<1>3. \A kind, id : Named(u, kind, id) <=>
        Named(t, kind, id) \/ (kind = cap.kind /\ id = cap.id)
  BY AddsNamed
<1> QED BY <1>1, <1>2, <1>3

\* A capability dropped; a frame goes back to the allocator.
LEMMA DropsSafe ==
  ASSUME NEW t \in AllTables, NEW u, NEW p \in Procs, NEW c \in Slots,
         DropsOne(t, u, p, c), NEW st, NEW fr, TablesSafe(t, st, fr),
         NEW more, more = IF At(t, p, c).kind = "Frame" THEN fr \cup {At(t, p, c).id} ELSE fr
  PROVE  TablesSafe(u, st, more)
<1>1. /\ OnlyOne(u) /\ Useful(u) /\ LendersIn(u, st)
      /\ \A kind, id : Named(u, kind, id) => Named(t, kind, id)
      /\ \A kind, id : Named(t, kind, id) /\ ~Named(u, kind, id) =>
           kind = At(t, p, c).kind /\ id = At(t, p, c).id
      /\ At(t, p, c).kind \in UniqueKinds => ~Named(u, At(t, p, c).kind, At(t, p, c).id)
  BY DropsNames DEF TablesSafe
<1>2. ASSUME NEW r \in Procs, st[r] = "Empty" PROVE Bare(u, r)
  <2>1. Bare(t, r) /\ r # p
    BY <1>2 DEF TablesSafe, Bare, DropsOne
  <2>2. u[r].reserved = {} /\ SameBeyond(t, u, p, c, p, c)
    BY <2>1 DEF DropsOne, Bare
  <2> QED BY <2>1, <2>2 DEF Bare, SameBeyond
<1>3. ASSUME NEW f \in Frames
      PROVE  f \in more <=> ~Named(u, "Frame", f)
  <2>1. f \in fr <=> ~Named(t, "Frame", f)
    BY DEF TablesSafe
  <2> QED BY <1>1, <2>1 DEF UniqueKinds
<1> QED BY <1>1, <1>2, <1>3 DEF TablesSafe

\* A spawn: the child's slot has a process from now on.
LEMMA SpawnSafe ==
  ASSUME NEW t \in AllTables, NEW u, NEW p \in Procs, NEW q \in Procs, p # q,
         NEW c \in Slots \cup {None}, NEW e \in Endpoints, NEW given, NEW handle,
         given # None => c \in Slots,
         SpawnsFrom(t, u, p, c, q, e, given, handle),
         NEW st \in [Procs -> {"Empty", "Ready", "Blocked"}], NEW fr, TablesSafe(t, st, fr),
         st[p] = "Ready", NEW new, new = [st EXCEPT ![q] = "Ready"]
  PROVE  /\ TablesSafe(u, new, fr)
         /\ \A id : Named(u, "Reply", id) => Named(t, "Reply", id)
<1>1. /\ Budget \in Caps /\ Budget.kind = "CpuTime" /\ Budget.origin = None
      /\ Result(e) \in Caps /\ Result(e).kind = "Endpoint" /\ Result(e).origin = None
      /\ Handle(e) \in Caps /\ Handle(e).kind = "Endpoint" /\ Handle(e).origin = None
      /\ Result(e).rights = {"SEND"} /\ Handle(e).rights = {"RECV"}
  <2>1. e \in Nat \cap Ids("Endpoint")
    BY SizeAssumption DEF Endpoints, Ids
  <2>2. CpuBudget \in Nat \cap Ids("CpuTime")
    BY KernelAssumption DEF Ids
  <2>3. Budget \in Caps /\ Result(e) \in Caps /\ Handle(e) \in Caps
    BY <2>1, <2>2, CapType DEF Budget, Result, Handle, Kinds, Rights
  <2> QED BY <2>3 DEF Budget, Result, Handle, Cap
<1>3. TablesSafe(t, new, fr)
  <2>1. \A r \in Procs : st[r] # "Empty" => new[r] # "Empty"
    OBVIOUS
  <2>2. LendersIn(t, new)
    BY <2>1, AtType DEF TablesSafe, LendersIn
  <2> QED BY <2>1, <2>2 DEF TablesSafe
<1>4. new[p] # "Empty" /\ new[q] # "Empty"
  OBVIOUS
<1>5. PICK t1, t2, t3 \in AllTables :
        /\ IF given # None THEN MovesOne(t, t1, p, c, q, 2) ELSE t1 = t
        /\ AddsOne(t1, t2, q, 0, Budget)
        /\ AddsOne(t2, t3, q, 1, Result(e))
        /\ IF handle = None THEN u = t3
           ELSE handle \in Slots /\ AddsOne(t3, u, p, handle, Handle(e))
  BY DEF SpawnsFrom
<1>6. 0 \in Slots /\ 1 \in Slots /\ 2 \in Slots
  BY SizeAssumption DEF Slots
<1>7. /\ TablesSafe(t1, new, fr)
      /\ \A id : Named(t1, "Reply", id) => Named(t, "Reply", id)
  <2>1. CASE given # None
    BY <1>3, <1>4, <1>5, <1>6, <2>1, MovesSafe, MovesNames
  <2>2. CASE given = None
    BY <1>3, <1>5, <2>2
  <2> QED BY <2>1, <2>2
<1>8. /\ TablesSafe(t2, new, fr)
      /\ \A id : Named(t2, "Reply", id) => Named(t1, "Reply", id)
  BY <1>1, <1>4, <1>5, <1>6, <1>7, PlainAddsSafe
<1>9. /\ TablesSafe(t3, new, fr)
      /\ \A id : Named(t3, "Reply", id) => Named(t2, "Reply", id)
  BY <1>1, <1>4, <1>5, <1>6, <1>8, PlainAddsSafe
<1>10. /\ TablesSafe(u, new, fr)
       /\ \A id : Named(u, "Reply", id) => Named(t3, "Reply", id)
  <2>1. CASE handle = None
    BY <1>5, <1>9, <2>1
  <2>2. CASE handle # None
    BY <1>1, <1>4, <1>5, <1>9, <2>2, PlainAddsSafe
  <2> QED BY <2>1, <2>2
<1> QED BY <1>7, <1>8, <1>9, <1>10

\* A death: the frames of the process go back to the allocator.
LEMMA ForgetsSafe ==
  ASSUME NEW t \in AllTables, NEW u, NEW p \in Procs, Forgets(t, u, p),
         NEW st, NEW new, NEW fr, NEW freed, TablesSafe(t, st, fr),
         \A q \in Procs \ {p} : st[q] = "Empty" <=> new[q] = "Empty",
         freed = fr \cup {At(t, p, s).id : s \in {r \in Slots :
                            At(t, p, r) # None /\ At(t, p, r).kind = "Frame"}}
  PROVE  /\ TablesSafe(u, new, freed)
         /\ \A id : Named(u, "Reply", id) => Named(t, "Reply", id)
<1>1. /\ OnlyOne(u) /\ Useful(u) /\ LendersIn(u, new)
      /\ \A kind, id : Named(u, kind, id) <=>
           \E q \in Procs \ {p}, s \in Slots :
             At(t, q, s) # None /\ At(t, q, s).kind = kind /\ At(t, q, s).id = id
  BY ForgetsNames DEF TablesSafe
<1>2. ASSUME NEW r \in Procs, new[r] = "Empty" PROVE Bare(u, r)
  <2>1. CASE r = p
    BY <2>1 DEF Forgets
  <2>2. CASE r # p
    <3>1. Bare(t, r)
      BY <1>2, <2>2 DEF TablesSafe
    <3>2. u[r].reserved = {}
      BY <2>2, <3>1 DEF Forgets, Bare
    <3>3. \A s \in Slots : At(u, r, s) = None
      BY <2>2, <3>1, ForgetsSame DEF Bare
    <3> QED BY <3>2, <3>3 DEF Bare
  <2> QED BY <2>1, <2>2
<1>3. ASSUME NEW f \in Frames PROVE f \in freed <=> ~Named(u, "Frame", f)
  <2>1. f \in fr <=> ~Named(t, "Frame", f)
    BY DEF TablesSafe
  <2>2. ASSUME f \in fr PROVE ~Named(u, "Frame", f)
    BY <1>1, <2>1, <2>2 DEF Named
  <2>3. ASSUME NEW s \in Slots, At(t, p, s) # None, At(t, p, s).kind = "Frame",
               f = At(t, p, s).id
        PROVE  ~Named(u, "Frame", f)
    BY <1>1, <2>3 DEF TablesSafe, OnlyOne, UniqueKinds
  <2>4. ASSUME ~Named(u, "Frame", f), f \notin fr
        PROVE  \E s \in Slots : At(t, p, s) # None /\ At(t, p, s).kind = "Frame"
                                /\ f = At(t, p, s).id
    BY <1>1, <2>1, <2>4 DEF Named
  <2> QED BY <2>2, <2>3, <2>4
<1>4. \A id : Named(u, "Reply", id) => Named(t, "Reply", id)
  BY <1>1 DEF Named
<1> QED BY <1>1, <1>2, <1>3, <1>4 DEF TablesSafe

----------------------------------------------------------------------------
(* The wait queues.                                                        *)

\* One waiter, one place.
LEMMA OnePlace ==
  ASSUME NEW ep, NEW st, Once(ep, st), NEW d \in Endpoints, NEW f \in Endpoints,
         NEW k \in 1 .. Len(ep[d].queue), NEW m \in 1 .. Len(ep[f].queue),
         ep[d].queue[k] = ep[f].queue[m]
  PROVE  /\ st[ep[d].queue[k]] = "Blocked"
         /\ f = d /\ m = k
  BY DEF Once

\* The head waiter leaves, everyone else stays and waits once.
LEMMA DequeueFacts ==
  ASSUME TypeOK, NEW e \in Endpoints, eps[e].queue # <<>>, NEW st, Once(eps, st)
  PROVE  /\ Head(eps[e].queue) \in Procs
         /\ InQueue(eps, e, Head(eps[e].queue))
         /\ Once(Dequeue(e), st)
         /\ \A d \in Endpoints : ~InQueue(Dequeue(e), d, Head(eps[e].queue))
         /\ \A d \in Endpoints : \A q : InQueue(Dequeue(e), d, q) => InQueue(eps, d, q)
<1> DEFINE h == Head(eps[e].queue)
           new == Dequeue(e)
<1>1. DOMAIN eps = Endpoints /\ \A d \in Endpoints : eps[d] \in EndpointRecords /\ eps[d].queue \in Seq(Procs)
  BY DEF TypeOK, EndpointRecords
<1>2. /\ h \in Procs /\ h = eps[e].queue[1] /\ Len(eps[e].queue) \in Nat /\ Len(eps[e].queue) >= 1
      /\ Tail(eps[e].queue) \in Seq(Procs)
      /\ Len(Tail(eps[e].queue)) = Len(eps[e].queue) - 1
      /\ \A i \in 1 .. Len(eps[e].queue) - 1 : Tail(eps[e].queue)[i] = eps[e].queue[i + 1]
  BY <1>1
<1>3. /\ new[e].queue = Tail(eps[e].queue)
      /\ \A d \in Endpoints : d # e => new[d] = eps[d]
  BY <1>1 DEF Dequeue, EndpointRecords
<1>4. \A d \in Endpoints : Len(eps[d].queue) \in Nat
  BY <1>1
<1> HIDE DEF new, h
<1>10. Len(new[e].queue) = Len(eps[e].queue) - 1
  BY <1>2, <1>3
<1>11. \A d \in Endpoints : Len(new[d].queue) \in Nat
  BY <1>2, <1>3, <1>4, <1>10
<1>5. ASSUME NEW d \in Endpoints, NEW i \in 1 .. Len(new[d].queue)
      PROVE  \E k \in 1 .. Len(eps[d].queue) :
               k = (IF d = e THEN i + 1 ELSE i) /\ new[d].queue[i] = eps[d].queue[k]
  <2>1. i \in Nat /\ i >= 1 /\ i <= Len(new[d].queue)
    BY <1>11
  <2>2. CASE d = e
    <3>1. i \in 1 .. Len(eps[e].queue) - 1 /\ i + 1 \in 1 .. Len(eps[e].queue)
      BY <1>2, <1>10, <2>1, <2>2
    <3>2. new[d].queue[i] = eps[d].queue[i + 1]
      BY <1>2, <1>3, <2>2, <3>1
    <3> QED BY <2>2, <3>1, <3>2
  <2>3. CASE d # e
    BY <1>3, <2>3
  <2> QED BY <2>2, <2>3
<1>6. InQueue(eps, e, h)
  BY <1>2 DEF InQueue
<1>7. Once(new, st)
  <2> SUFFICES ASSUME NEW d \in Endpoints, NEW i \in 1 .. Len(new[d].queue)
               PROVE  /\ st[new[d].queue[i]] = "Blocked"
                      /\ \A f \in Endpoints : \A j \in 1 .. Len(new[f].queue) :
                           new[f].queue[j] = new[d].queue[i] => f = d /\ j = i
    BY DEF Once
  <2>1. PICK k \in 1 .. Len(eps[d].queue) :
          k = (IF d = e THEN i + 1 ELSE i) /\ new[d].queue[i] = eps[d].queue[k]
    BY <1>5
  <2>2. ASSUME NEW f \in Endpoints, NEW j \in 1 .. Len(new[f].queue),
               new[f].queue[j] = new[d].queue[i]
        PROVE  f = d /\ j = i
    <3>1. PICK m \in 1 .. Len(eps[f].queue) :
            m = (IF f = e THEN j + 1 ELSE j) /\ new[f].queue[j] = eps[f].queue[m]
      BY <1>5
    <3>5. eps[d].queue[k] = eps[f].queue[m]
      BY <2>1, <2>2, <3>1
    <3>2. f = d /\ m = k
      BY <3>5, OnePlace
    <3>3. Len(new[d].queue) \in Nat /\ Len(new[f].queue) \in Nat
      BY <1>11
    <3>4. i \in Int /\ j \in Int
      BY ONLY <3>3, i \in 1 .. Len(new[d].queue), j \in 1 .. Len(new[f].queue)
    <3> QED BY <2>1, <3>1, <3>2, <3>4
  <2> QED BY <2>1, <2>2 DEF Once
<1>8. ASSUME NEW d \in Endpoints, InQueue(new, d, h) PROVE FALSE
  <2>1. PICK i \in 1 .. Len(new[d].queue) : new[d].queue[i] = h
    BY <1>8 DEF InQueue
  <2>2. PICK k \in 1 .. Len(eps[d].queue) :
          k = (IF d = e THEN i + 1 ELSE i) /\ new[d].queue[i] = eps[d].queue[k]
    BY <1>5
  <2>5. Len(new[d].queue) \in Nat
    BY <1>11
  <2>3. i >= 1 /\ i \in Int
    BY ONLY <2>5, i \in 1 .. Len(new[d].queue)
  <2>6. eps[d].queue[k] = eps[e].queue[1] /\ 1 \in 1 .. Len(eps[e].queue)
    BY <1>2, <2>1, <2>2
  <2>4. d = e /\ k = 1
    BY <2>6, OnePlace
  <2> QED BY <2>2, <2>3, <2>4
<1>9. \A d \in Endpoints : \A q : InQueue(new, d, q) => InQueue(eps, d, q)
  BY <1>5 DEF InQueue
<1> QED BY <1>2, <1>6, <1>7, <1>8, <1>9 DEF new, h

\* A process that was running waits now, once.
LEMMA EnqueueFacts ==
  ASSUME TypeOK, NEW e \in Endpoints, NEW p \in Procs, NEW side,
         NEW st \in [Procs -> {"Empty", "Ready", "Blocked"}], Once(eps, st), st[p] = "Ready"
  PROVE  /\ Once(Enqueue(e, p, side), [st EXCEPT ![p] = "Blocked"])
         /\ \A d \in Endpoints : \A q :
              InQueue(Enqueue(e, p, side), d, q) => InQueue(eps, d, q) \/ (d = e /\ q = p)
         /\ \A d \in Endpoints : ~InQueue(eps, d, p)
<1> DEFINE new == Enqueue(e, p, side)
           st2 == [st EXCEPT ![p] = "Blocked"]
<1>1. DOMAIN eps = Endpoints /\ \A d \in Endpoints : eps[d] \in EndpointRecords /\ eps[d].queue \in Seq(Procs)
  BY DEF TypeOK, EndpointRecords
<1>2. /\ \A d \in Endpoints : Len(eps[d].queue) \in Nat
      /\ Len(Append(eps[e].queue, p)) = Len(eps[e].queue) + 1
      /\ \A i \in 1 .. Len(eps[e].queue) + 1 :
           Append(eps[e].queue, p)[i] = IF i = Len(eps[e].queue) + 1 THEN p ELSE eps[e].queue[i]
  BY <1>1
<1>3. /\ new[e].queue = Append(eps[e].queue, p)
      /\ \A d \in Endpoints : d # e => new[d] = eps[d]
  BY <1>1 DEF Enqueue, EndpointRecords
<1>4. \A d \in Endpoints : \A i \in 1 .. Len(new[d].queue) :
        \/ i \in 1 .. Len(eps[d].queue) /\ new[d].queue[i] = eps[d].queue[i]
        \/ d = e /\ i = Len(eps[e].queue) + 1 /\ new[d].queue[i] = p
  BY <1>2, <1>3
<1>5. \A d \in Endpoints : \A i \in 1 .. Len(eps[d].queue) : eps[d].queue[i] # p
  BY DEF Once
<1>6. \A d \in Endpoints : \A i \in 1 .. Len(eps[d].queue) : eps[d].queue[i] \in Procs
  BY <1>1
<1> HIDE DEF new
<1>7. ASSUME NEW d \in Endpoints, NEW i \in 1 .. Len(new[d].queue)
      PROVE  /\ st2[new[d].queue[i]] = "Blocked"
             /\ \A f \in Endpoints : \A j \in 1 .. Len(new[f].queue) :
                  new[f].queue[j] = new[d].queue[i] => f = d /\ j = i
  <2>1. CASE i \in 1 .. Len(eps[d].queue) /\ new[d].queue[i] = eps[d].queue[i]
    BY <1>4, <1>5, <1>6, <2>1 DEF Once
  <2>2. CASE d = e /\ i = Len(eps[e].queue) + 1 /\ new[d].queue[i] = p
    BY <1>4, <1>5, <2>2
  <2> QED BY <1>4, <2>1, <2>2
<1>8. Once(new, st2)
  BY <1>7 DEF Once
<1>9. \A d \in Endpoints : \A q : InQueue(new, d, q) => InQueue(eps, d, q) \/ (d = e /\ q = p)
  BY <1>4 DEF InQueue
<1> QED BY <1>5, <1>8, <1>9 DEF new, InQueue

\* A process in no queue may run or block without disturbing one.
LEMMA RouseOnce ==
  ASSUME NEW ep, NEW st \in [Procs -> {"Empty", "Ready", "Blocked"}], Once(ep, st),
         \A d \in Endpoints : \A i \in 1 .. Len(ep[d].queue) : ep[d].queue[i] \in Procs,
         NEW h \in Procs, \A d \in Endpoints : ~InQueue(ep, d, h), NEW x
  PROVE  Once(ep, [st EXCEPT ![h] = x])
  BY DEF Once, InQueue

\* Only processes wait.
LEMMA WaitersAreProcs ==
  ASSUME NEW ep \in [Endpoints -> EndpointRecords]
  PROVE  \A d \in Endpoints : \A i \in 1 .. Len(ep[d].queue) : ep[d].queue[i] \in Procs
<1> SUFFICES ASSUME NEW d \in Endpoints, NEW i \in 1 .. Len(ep[d].queue)
             PROVE  ep[d].queue[i] \in Procs
  OBVIOUS
<1>1. ep[d].queue \in Seq(Procs)
  BY DEF EndpointRecords
<1> QED BY <1>1

\* The head waiter, seen from the rest of the state.
LEMMA HeadLeaves ==
  ASSUME TypeOK, Once(eps, state), Pinned(caps, state, eps),
         NEW e \in Endpoints, eps[e].queue # <<>>, NEW h, h = Head(eps[e].queue)
  PROVE  /\ h \in Procs /\ state[h] = "Blocked" /\ ~Named(caps, "Reply", h)
         /\ Once(Dequeue(e), state)
         /\ Once(Dequeue(e), [state EXCEPT ![h] = "Ready"])
         /\ \A d \in Endpoints : ~InQueue(Dequeue(e), d, h)
         /\ \A d \in Endpoints : \A q : InQueue(Dequeue(e), d, q) => InQueue(eps, d, q)
<1>1. /\ h \in Procs /\ InQueue(eps, e, h) /\ Once(Dequeue(e), state)
      /\ \A d \in Endpoints : ~InQueue(Dequeue(e), d, h)
      /\ \A d \in Endpoints : \A q : InQueue(Dequeue(e), d, q) => InQueue(eps, d, q)
  BY DequeueFacts
<1>2. state[h] = "Blocked"
  BY <1>1 DEF Once, InQueue
<1>3. ~Named(caps, "Reply", h)
  BY <1>1 DEF Pinned
<1>4. Dequeue(e) \in [Endpoints -> EndpointRecords]
  BY QueueTypes, <1>1
<1>5. \A d \in Endpoints : \A i \in 1 .. Len(Dequeue(e)[d].queue) :
        Dequeue(e)[d].queue[i] \in Procs
  BY <1>4, WaitersAreProcs
<1>6. Once(Dequeue(e), [state EXCEPT ![h] = "Ready"])
  BY <1>1, <1>5, RouseOnce DEF TypeOK
<1> QED BY <1>1, <1>2, <1>3, <1>6

\* Queues that only lose waiters.
LEMMA FewerOnce ==
  ASSUME NEW ep, NEW new, NEW st, Once(ep, st),
         \A d \in Endpoints : new[d].queue = ep[d].queue \/ new[d].queue = <<>>
  PROVE  /\ Once(new, st)
         /\ \A d \in Endpoints : \A q : InQueue(new, d, q) => InQueue(ep, d, q)
<1>1. \A d \in Endpoints : \A i \in 1 .. Len(new[d].queue) : new[d].queue = ep[d].queue
  BY Len(<<>>) = 0
<1> QED BY <1>1 DEF Once, InQueue

\* Dropping references wakes nobody.
LEMMA DroppedQueue ==
  ASSUME NEW ep \in EndpointRecords, NEW n, NEW m
  PROVE  Dropped(ep, n, m).queue = ep.queue
  BY DEF Dropped, EmptyEndpoint, EndpointRecords

----------------------------------------------------------------------------
(* The pieces keep the tables safe.                                        *)

\* The optional transfer of a send.
LEMMA DeliverSafe ==
  ASSUME caps \in AllTables, NEW from \in Procs, NEW to \in Procs, from # to,
         NEW c \in Slots \cup {None}, Deliver(from, c, to),
         NEW st, NEW fr, TablesSafe(caps, st, fr), st[from] # "Empty", st[to] # "Empty"
  PROVE  /\ TablesSafe(caps', st, fr)
         /\ \A id : Named(caps', "Reply", id) => Named(caps, "Reply", id)
<1>1. CASE ~Moves(from, c)
  BY <1>1 DEF Deliver
<1>2. CASE Moves(from, c)
  <2>1. c \in Slots /\ CapAt(from, c) # None /\ Transfer(from, c, to)
    BY <1>2 DEF Moves, Deliver
  <2>2. ASSUME NEW q \in {from, to}, NEW l \in Slots, MovesOne(caps, caps', from, c, q, l)
        PROVE  /\ TablesSafe(caps', st, fr)
               /\ \A id : Named(caps', "Reply", id) => Named(caps, "Reply", id)
    BY <2>1, <2>2, MovesSafe, MovesNames
  <2>3. ASSUME DropsOne(caps, caps', from, c), LendReservesHome(CapAt(from, c))
        PROVE  /\ TablesSafe(caps', st, fr)
               /\ \A id : Named(caps', "Reply", id) => Named(caps, "Reply", id)
    <3>1. At(caps, from, c).kind # "Frame"
      BY <2>3 DEF LendReservesHome, ReclaimableKinds, At, CapAt
    <3>2. fr = IF At(caps, from, c).kind = "Frame" THEN fr \cup {At(caps, from, c).id} ELSE fr
      BY <3>1
    <3>3. TablesSafe(caps', st, fr)
      BY <2>1, <2>3, <3>2, DropsSafe, Zenon
    <3> QED BY <2>1, <2>3, <3>3, DropsNames
  <2> QED BY <2>1, <2>2, <2>3, TransferCells
<1> QED BY <1>1, <1>2

\* The reply capability a server is given.
LEMMA MintSafe ==
  ASSUME caps \in AllTables, NEW server \in Procs, NEW caller \in Procs,
         MintReply(server, caller), ~Named(caps, "Reply", caller),
         NEW st, NEW fr, TablesSafe(caps, st, fr), st[server] # "Empty"
  PROVE  /\ TablesSafe(caps', st, fr)
         /\ \A id : Named(caps', "Reply", id) => Named(caps, "Reply", id) \/ id = caller
<1> DEFINE cap == Cap("Reply", caller, {})
           l   == InstallSlot(caps[server])
<1>1. caps' = [caps EXCEPT ![server] = Put(@, l, cap)]
  BY DEF MintReply
<1>2. cap \in Caps /\ cap.kind = "Reply" /\ cap.id = caller /\ cap.origin = None
  <2>1. cap \in Caps
    BY CapType, SizeAssumption DEF Kinds, Rights, Procs, Ids
  <2> QED BY <2>1 DEF Cap
<1> HIDE DEF cap, l
<1>3. CASE l = None
  <2>1. caps' = caps
    BY <1>1, <1>3 DEF Put, AllTables
  <2> QED BY <2>1
<1>4. CASE l # None
  <2>1. l \in Slots /\ AddsOne(caps, caps', server, l, cap)
    BY <1>1, <1>4, InstallCells DEF l
  <2>2. cap.kind # "Frame"
    BY <1>2
  <2>3. /\ cap.kind \in UniqueKinds => ~Named(caps, cap.kind, cap.id)
        /\ cap.kind = "Endpoint" => cap.rights \cap {"SEND", "RECV"} # {}
    BY <1>2
  <2>4. TablesSafe(caps', st, fr)
    BY <1>2, <2>1, <2>2, <2>3, AddsSafe, Zenon
  <2> QED BY <1>2, <2>1, <2>4, AddsNamed
<1> QED BY <1>3, <1>4

\* A borrowed capability leaves for home.
LEMMA SendHomeSafe ==
  ASSUME caps \in AllTables, NEW p \in Procs, NEW s \in Slots, CapAt(p, s) # None,
         ReleaseAction(CapAt(p, s)) = "ReclaimTo", SendHome(p, s),
         NEW st, NEW fr, TablesSafe(caps, st, fr)
  PROVE  /\ TablesSafe(caps', st, fr)
         /\ \A id : Named(caps', "Reply", id) => Named(caps, "Reply", id)
<1>1. /\ CapAt(p, s).kind \in ReclaimableKinds /\ CapAt(p, s).origin # None
  BY DEF ReleaseAction
<1>2. /\ st[CapAt(p, s).origin.lender] # "Empty"
      /\ CapAt(p, s).origin.lender # p
      /\ CapAt(p, s).origin.lender \in Procs
  BY <1>1, AtType DEF TablesSafe, LendersIn, At, CapAt
<1>3. ASSUME NEW l \in Slots, MovesOne(caps, caps', p, s, CapAt(p, s).origin.lender, l)
      PROVE  /\ TablesSafe(caps', st, fr)
             /\ \A id : Named(caps', "Reply", id) => Named(caps, "Reply", id)
  BY <1>2, <1>3, MovesSafe, MovesNames
<1>4. ASSUME DropsOne(caps, caps', p, s)
      PROVE  /\ TablesSafe(caps', st, fr)
             /\ \A id : Named(caps', "Reply", id) => Named(caps, "Reply", id)
  <2>1. At(caps, p, s).kind # "Frame"
    BY <1>1 DEF ReclaimableKinds, At, CapAt
  <2>2. fr = IF At(caps, p, s).kind = "Frame" THEN fr \cup {At(caps, p, s).id} ELSE fr
    BY <2>1
  <2>3. TablesSafe(caps', st, fr)
    BY <1>4, <2>2, DropsSafe, Zenon
  <2> QED BY <1>4, <2>3, DropsNames
<1> QED BY <1>1, <1>2, <1>3, <1>4, SendHomeCells

\* What starting q with the capability given, the child's endpoint e and the
\* parent's handle on it does to the state.
ChildStarts(p, c, e, q, given, handle) ==
  /\ FirstFreeEndpoint(e) /\ state[q] = "Empty"
  /\ given # None => c \in Slots
  /\ SpawnsFrom(caps, caps', p, c, q, e, given, handle)
  /\ eps' = [eps EXCEPT ![e] =
       [EmptyEndpoint EXCEPT !.in_use = TRUE, !.senders = 1,
          !.receivers = IF handle = None THEN 0 ELSE 1]]
  /\ state' = [state EXCEPT ![q] = "Ready"]
  /\ UNCHANGED <<pending, landing, free, exiting>>

\* A child starts: what happens to the tables, and that no queue gains by it.
LEMMA SpawnChildShape ==
  ASSUME caps \in AllTables, TypeOK, TablesSafe(caps, state, free),
         NEW p \in Procs, state[p] = "Ready",
         NEW c \in Slots \cup {None}, SpawnChild(p, c)
  PROVE  \E e \in Endpoints, q \in Procs : \E given, handle :
           ChildStarts(p, c, e, q, given, handle)
<1> DEFINE cap    == IF Moves(p, c) THEN CapAt(p, c) ELSE None
           left   == IF cap = None THEN caps[p] ELSE RevokeForLend(caps[p], c)
           grant  == IF cap = None \/ cap.origin # None THEN cap
                     ELSE [cap EXCEPT !.origin = [lender |-> p, home |-> c]]
           handle == InstallSlot(left)
<1>1. PICK e \in Endpoints, q \in Procs :
        /\ FirstFreeEndpoint(e) /\ FirstEmptySlot(q)
        /\ caps' = [caps EXCEPT
             ![p] = Put(left, handle, Cap("Endpoint", e, {"RECV"})),
             ![q] = ChildTable(e, grant)]
        /\ eps' = [eps EXCEPT ![e] =
             [EmptyEndpoint EXCEPT !.in_use = TRUE, !.senders = 1,
                !.receivers = IF handle = None THEN 0 ELSE 1]]
        /\ state' = [state EXCEPT ![q] = "Ready"]
        /\ UNCHANGED <<pending, landing, free, exiting>>
  BY DEF SpawnChild
<1>2. state[q] = "Empty" /\ p # q
  BY <1>1 DEF FirstEmptySlot
<1>3. caps[q] = EmptyTable
  BY <1>2, BareIsEmpty DEF TablesSafe
<1>4. cap # None => c \in Slots
  BY DEF Moves
<1>5. cap # None /\ cap.origin # None => cap.origin.lender # q
  <2>1. ASSUME cap # None, cap.origin # None PROVE cap.origin.lender # q
    <3>1. c \in Slots /\ cap = At(caps, p, c)
      BY <2>1 DEF Moves, At, CapAt
    <3>2. state[cap.origin.lender] # "Empty"
      BY <2>1, <3>1 DEF TablesSafe, LendersIn
    <3> QED BY <1>2, <3>2
  <2> QED BY <2>1
<1>6. cap = IF Moves(p, c) THEN CapAt(p, c) ELSE None
  OBVIOUS
<1>7. left = IF cap = None THEN caps[p] ELSE RevokeForLend(caps[p], c)
  OBVIOUS
<1>8. grant = IF cap = None \/ cap.origin # None THEN cap
              ELSE [cap EXCEPT !.origin = [lender |-> p, home |-> c]]
  OBVIOUS
<1>9. handle = InstallSlot(left)
  OBVIOUS
<1> HIDE DEF cap, left, grant, handle
<1>10. caps' = [caps EXCEPT
         ![p] = Put(left, InstallSlot(left), Cap("Endpoint", e, {"RECV"})),
         ![q] = ChildTable(e, grant)]
  BY <1>1, <1>9
<1>11. SpawnsFrom(caps, caps', p, c, q, e, cap, handle)
  BY <1>2, <1>3, <1>5, <1>6, <1>7, <1>8, <1>9, <1>10, SpawnChildCells
<1>12. ChildStarts(p, c, e, q, cap, handle)
  BY ONLY <1>1, <1>2, <1>4, <1>9, <1>11 DEF ChildStarts
<1> QED BY <1>12

\* A charge to the CPU budget.
LEMMA ChargeSafe ==
  ASSUME caps \in AllTables, NEW p \in Procs, NEW s \in Slots, NEW amount,
         CapAt(p, s) # None, CapAt(p, s).kind = "CpuTime",
         CapAt(p, s).id - amount \in Nat,
         caps' = [caps EXCEPT ![p].slots[s].id = @ - amount],
         NEW st, NEW fr, TablesSafe(caps, st, fr)
  PROVE  /\ TablesSafe(caps', st, fr)
         /\ \A id : Named(caps', "Reply", id) => Named(caps, "Reply", id)
<1>1. /\ \A r \in Procs, z \in Slots : ~(r = p /\ z = s) => At(caps', r, z) = At(caps, r, z)
      /\ \A r \in Procs : caps'[r].reserved = caps[r].reserved
  BY DEF At, AllTables, GoodTables, Tables
<1>2. /\ At(caps', p, s) # None /\ At(caps', p, s).kind = "CpuTime"
      /\ At(caps', p, s).origin = At(caps, p, s).origin
  <2>1. At(caps, p, s) \in CapRecords
    BY AtType DEF At, CapAt, Caps
  <2>2. At(caps', p, s) = [At(caps, p, s) EXCEPT !.id = @ - amount]
    BY DEF At, AllTables, GoodTables, Tables
  <2>3. At(caps', p, s).kind = "CpuTime" /\ At(caps', p, s).origin = At(caps, p, s).origin
    BY <2>1, <2>2 DEF CapRecords, At, CapAt
  <2>4. [At(caps, p, s) EXCEPT !.id = @ - amount] \in CapRecords
    BY <2>1 DEF CapRecords, At, CapAt
  <2>5. At(caps', p, s) # None
    BY <2>2, <2>4, NoneAssumption
  <2> QED BY <2>3, <2>5
<1>3. At(caps, p, s) # None /\ At(caps, p, s).kind = "CpuTime"
  BY DEF At, CapAt
<1>4. "CpuTime" \notin UniqueKinds /\ "CpuTime" # "Endpoint"
  BY DEF UniqueKinds, ReclaimableKinds
<1>5. \A kind, id : kind # "CpuTime" => (Named(caps', kind, id) <=> Named(caps, kind, id))
  <2> SUFFICES ASSUME NEW kind, NEW id, kind # "CpuTime"
               PROVE  Named(caps', kind, id) <=> Named(caps, kind, id)
    OBVIOUS
  <2>1. \A r \in Procs, z \in Slots :
          At(caps', r, z) # None /\ At(caps', r, z).kind = kind /\ At(caps', r, z).id = id
          <=> At(caps, r, z) # None /\ At(caps, r, z).kind = kind /\ At(caps, r, z).id = id
    BY <1>1, <1>2, <1>3
  <2> QED BY <2>1 DEF Named
<1>6. OnlyOne(caps')
  BY <1>1, <1>2, <1>3, <1>4 DEF OnlyOne, TablesSafe
<1>7. Useful(caps')
  BY <1>1, <1>2, <1>3, <1>4 DEF Useful, TablesSafe
<1>8. LendersIn(caps', st)
  <2>1. \A r \in Procs, z \in Slots : /\ At(caps', r, z) # None <=> At(caps, r, z) # None
                                     /\ At(caps', r, z).origin = At(caps, r, z).origin
    BY <1>1, <1>2, <1>3
  <2>2. LendersIn(caps, st)
    BY DEF TablesSafe
  <2> SUFFICES ASSUME NEW r \in Procs, NEW z \in Slots,
                      At(caps', r, z) # None, At(caps', r, z).origin # None
               PROVE  /\ st[At(caps', r, z).origin.lender] # "Empty"
                      /\ At(caps', r, z).origin.lender # r
    BY DEF LendersIn
  <2>3. At(caps, r, z) # None /\ At(caps', r, z).origin = At(caps, r, z).origin
    BY <2>1
  <2>4. /\ st[At(caps, r, z).origin.lender] # "Empty"
        /\ At(caps, r, z).origin.lender # r
    BY <2>2, <2>3 DEF LendersIn
  <2> QED BY ONLY <2>3, <2>4
<1>9. \A r \in Procs : st[r] = "Empty" => Bare(caps', r)
  BY <1>1, <1>2, <1>3 DEF Bare, TablesSafe
<1>10. \A f \in Frames : f \in fr <=> ~Named(caps', "Frame", f)
  BY <1>5 DEF TablesSafe
<1> QED BY <1>5, <1>6, <1>7, <1>8, <1>9, <1>10 DEF TablesSafe

----------------------------------------------------------------------------
(* Every action keeps the invariant.                                       *)

\* What has to be shown of a step.
LEMMA Inv3Next ==
  ASSUME Inv1', TablesSafe(caps', state', free'), Once(eps', state'),
         Pinned(caps', state', eps'), exiting' # None => state'[exiting'] = "Ready"
  PROVE  Inv3'
  BY DEF Inv3, TablesSafe, Once, Pinned, ExitingReady, OnlyOne, Useful, LendersIn,
         Bare, Named, At, InQueue

\* A running process blocks on an endpoint.
LEMMA BlocksInv3 ==
  ASSUME Inv3, Inv1', NEW p \in Procs, state[p] = "Ready", NEW e \in Endpoints,
         NEW side \in BOOLEAN, eps' = Enqueue(e, p, side),
         state' = [state EXCEPT ![p] = "Blocked"],
         caps' = caps, free' = free, exiting' = None
  PROVE  Inv3'
<1>1. caps \in AllTables /\ TypeOK /\ state \in [Procs -> {"Empty", "Ready", "Blocked"}]
  BY Inv3Types DEF Inv3
<1>2. /\ Once(eps', state')
      /\ \A d \in Endpoints : \A q : InQueue(eps', d, q) => InQueue(eps, d, q) \/ q = p
  BY <1>1, EnqueueFacts DEF Inv3
<1>3. TablesSafe(caps', state', free')
  <2>1. TablesSafe(caps, state, free) /\ \A r \in Procs : state[r] = "Empty" <=> state'[r] = "Empty"
    BY <1>1 DEF Inv3
  <2> QED BY <1>1, <2>1, StateSafe
<1>4. Pinned(caps', state', eps')
  BY <1>1, <1>2 DEF Inv3, Pinned
<1> QED BY <1>2, <1>3, <1>4, Inv3Next

\* A transfer between a running process and the head waiter of a queue.
LEMMA MeetsInv3 ==
  ASSUME Inv3, Inv1', NEW p \in Procs, state[p] = "Ready", NEW e \in Endpoints,
         eps[e].queue # <<>>, NEW h, h = Head(eps[e].queue), eps' = Dequeue(e),
         NEW c \in Slots \cup {None}, Deliver(p, c, h) \/ Deliver(h, c, p),
         state' = [state EXCEPT ![h] = "Ready"], free' = free, exiting' = None
  PROVE  Inv3'
<1>1. caps \in AllTables /\ TypeOK /\ state \in [Procs -> {"Empty", "Ready", "Blocked"}]
  BY Inv3Types DEF Inv3
<1>2. /\ h \in Procs /\ state[h] = "Blocked" /\ ~Named(caps, "Reply", h)
      /\ Once(eps', state')
      /\ \A d \in Endpoints : \A q : InQueue(eps', d, q) => InQueue(eps, d, q)
  BY <1>1, HeadLeaves DEF Inv3
<1>3. /\ TablesSafe(caps', state, free)
      /\ \A id : Named(caps', "Reply", id) => Named(caps, "Reply", id)
  <2>1. /\ TablesSafe(caps, state, free) /\ p # h
        /\ state[p] # "Empty" /\ state[h] # "Empty"
    BY <1>2 DEF Inv3
  <2> QED BY <1>1, <1>2, <2>1, DeliverSafe
<1>4. TablesSafe(caps', state', free')
  <2>1. \A r \in Procs : state[r] = "Empty" <=> state'[r] = "Empty"
    BY <1>1, <1>2
  <2>2. caps' \in AllTables
    BY TablesGood DEF AllTables, Inv1, TypeOK, ReservedEmpty, CapAt, GoodTables
  <2> QED BY <1>3, <2>1, <2>2, StateSafe
<1>5. Pinned(caps', state', eps')
  BY <1>1, <1>2, <1>3 DEF Inv3, Pinned
<1> QED BY <1>2, <1>4, <1>5, Inv3Next

\* The IPC gate.
LEMMA GateInv3 ==
  ASSUME Inv3, NEW p \in Procs, Send(p) \/ Recv(p) \/ Call(p) \/ Reply(p)
  PROVE  Inv3'
<1>1. /\ caps \in AllTables /\ TypeOK /\ state \in [Procs -> {"Empty", "Ready", "Blocked"}]
      /\ Inv1' /\ state[p] = "Ready" /\ exiting = None
  BY Inv3Types, GateInv1 DEF Inv3, Send, Recv, Call, Reply, CanCall
<1>2. ASSUME NEW s \in Slots, NEW c \in Slots \cup {None}, SendRendezvous(p, s, c)
      PROVE  Inv3'
  <2>1. PICK e \in Endpoints :
          /\ eps[e].queue # <<>>
          /\ Deliver(p, c, Head(eps[e].queue))
          /\ state' = [state EXCEPT ![Head(eps[e].queue)] = "Ready"]
          /\ eps' = Dequeue(e)
          /\ UNCHANGED <<pending, landing, free, exiting>>
    BY <1>2 DEF SendRendezvous, Waiting
  <2> QED BY <1>1, <2>1, MeetsInv3
<1>3. ASSUME NEW s \in Slots, NEW c \in Slots \cup {None}, SendBlocks(p, s, c)
      PROVE  Inv3'
  BY <1>1, <1>3, BlocksInv3 DEF SendBlocks
<1>4. ASSUME NEW e \in Endpoints, RecvCall(p, e) PROVE Inv3'
  <2> DEFINE h == Head(eps[e].queue)
  <2>1. /\ eps[e].queue # <<>> /\ MintReply(p, h) /\ eps' = Dequeue(e)
        /\ UNCHANGED <<state, free, exiting>>
    BY <1>4 DEF RecvCall, Waiting
  <2>2. /\ h \in Procs /\ state[h] = "Blocked" /\ ~Named(caps, "Reply", h)
        /\ Once(eps', state)
        /\ \A d \in Endpoints : ~InQueue(eps', d, h)
        /\ \A d \in Endpoints : \A q : InQueue(eps', d, q) => InQueue(eps, d, q)
    BY <1>1, <2>1, HeadLeaves DEF Inv3
  <2>3. /\ TablesSafe(caps', state, free)
        /\ \A id : Named(caps', "Reply", id) => Named(caps, "Reply", id) \/ id = h
    <3>1. TablesSafe(caps, state, free) /\ state[p] # "Empty"
      BY <1>1 DEF Inv3
    <3> QED BY <1>1, <2>1, <2>2, <3>1, MintSafe
  <2> HIDE DEF h
  <2>4. Pinned(caps', state', eps')
    BY <2>1, <2>2, <2>3 DEF Inv3, Pinned
  <2> QED BY <1>1, <2>1, <2>2, <2>3, <2>4, Inv3Next
<1>5. ASSUME NEW e \in Endpoints, RecvSend(p, e) PROVE Inv3'
  <2>1. /\ eps[e].queue # <<>>
        /\ Deliver(Head(eps[e].queue), pending[Head(eps[e].queue)].cap, p)
        /\ eps' = Dequeue(e)
        /\ state' = [state EXCEPT ![Head(eps[e].queue)] = "Ready"]
        /\ UNCHANGED <<free, exiting>>
    BY <1>5 DEF RecvSend, Waiting
  <2>2. pending[Head(eps[e].queue)].cap \in Slots \cup {None}
    BY <1>1, <2>1, QueueTypes DEF TypeOK, PendingRecords
  <2> QED BY <1>1, <2>1, <2>2, MeetsInv3
<1>6. ASSUME NEW e \in Endpoints, RecvPeerDied(p, e) PROVE Inv3'
  BY <1>1, <1>6, Inv3Next DEF RecvPeerDied, Inv3
<1>7. ASSUME NEW e \in Endpoints, RecvBlocks(p, e) PROVE Inv3'
  BY <1>1, <1>7, BlocksInv3 DEF RecvBlocks
<1>8. ASSUME NEW e \in Endpoints, CallRendezvous(p, e) PROVE Inv3'
  <2> DEFINE h  == Head(eps[e].queue)
             st == [state EXCEPT ![h] = "Ready"]
  <2>1. /\ eps[e].queue # <<>> /\ MintReply(h, p) /\ eps' = Dequeue(e)
        /\ state' = [st EXCEPT ![p] = "Blocked"]
        /\ UNCHANGED <<free, exiting>>
    BY <1>8 DEF CallRendezvous, Waiting
  <2>2. /\ h \in Procs /\ state[h] = "Blocked" /\ ~Named(caps, "Reply", h)
        /\ Once(eps', st)
        /\ \A d \in Endpoints : \A q : InQueue(eps', d, q) => InQueue(eps, d, q)
    BY <1>1, <2>1, HeadLeaves DEF Inv3
  <2>3. ~Named(caps, "Reply", p) /\ \A d \in Endpoints : ~InQueue(eps, d, p)
    BY <1>1 DEF Inv3, Pinned, Once, InQueue
  <2>4. /\ TablesSafe(caps', state, free)
        /\ \A id : Named(caps', "Reply", id) => Named(caps, "Reply", id) \/ id = p
    <3>1. TablesSafe(caps, state, free) /\ state[h] # "Empty"
      BY <2>2 DEF Inv3
    <3> QED BY <1>1, <2>1, <2>2, <2>3, <3>1, MintSafe
  <2> HIDE DEF h
  <2>5. st \in [Procs -> {"Empty", "Ready", "Blocked"}]
    BY <1>1, <2>2
  <2>6. Once(eps', state')
    <3>1. \A d \in Endpoints : \A i \in 1 .. Len(eps'[d].queue) : eps'[d].queue[i] \in Procs
      BY <1>1, WaitersAreProcs DEF Inv1, TypeOK
    <3>2. \A d \in Endpoints : ~InQueue(eps', d, p)
      BY <2>2, <2>3
    <3> HIDE DEF st
    <3> QED BY <2>1, <2>2, <2>5, <3>1, <3>2, RouseOnce
  <2>7. TablesSafe(caps', state', free')
    <3>1. \A r \in Procs : state[r] = "Empty" <=> state'[r] = "Empty"
      BY <1>1, <2>1, <2>2
    <3>2. caps' \in AllTables
      BY <1>1 DEF AllTables, Inv1, TypeOK, ReservedEmpty, CapAt, GoodTables
    <3> QED BY <2>1, <2>4, <3>1, <3>2, StateSafe
  <2>8. Pinned(caps', state', eps')
    <3>1. ASSUME NEW id, Named(caps', "Reply", id)
          PROVE  /\ id \in Procs /\ state'[id] = "Blocked"
                 /\ \A d \in Endpoints : ~InQueue(eps', d, id)
      <4>1. CASE id = p
        BY <2>1, <2>2, <2>3, <2>5, <4>1
      <4>2. CASE id # p
        <5>1. Named(caps, "Reply", id) /\ id # h
          BY <2>2, <2>4, <3>1, <4>2
        <5>2. id \in Procs /\ state[id] = "Blocked" /\ \A d \in Endpoints : ~InQueue(eps, d, id)
          BY <5>1 DEF Inv3, Pinned
        <5>3. state'[id] = state[id]
          BY <1>1, <2>1, <4>2, <5>1, <5>2
        <5> QED BY <2>2, <5>2, <5>3
      <4> QED BY <4>1, <4>2
    <3> QED BY <3>1 DEF Pinned
  <2> QED BY <1>1, <2>1, <2>6, <2>7, <2>8, Inv3Next
<1>9. ASSUME NEW e \in Endpoints, CallBlocks(p, e) PROVE Inv3'
  BY <1>1, <1>9, BlocksInv3 DEF CallBlocks
<1>10. ASSUME Reply(p) PROVE Inv3'
  <2>1. PICK s \in Slots :
          /\ At(caps, p, s) # None /\ At(caps, p, s).kind = "Reply"
          /\ state' = [state EXCEPT ![At(caps, p, s).id] = "Ready"]
          /\ caps' = [caps EXCEPT ![p] = Revoke(@, s)]
          /\ UNCHANGED <<maps, eps, pending, landing, free, exiting>>
    BY <1>10 DEF Reply, Holds, At, CapAt
  <2> DEFINE id == At(caps, p, s).id
  <2>2. Named(caps, "Reply", id)
    BY <2>1 DEF Named
  <2>3. id \in Procs /\ state[id] = "Blocked" /\ \A d \in Endpoints : ~InQueue(eps, d, id)
    BY <2>2 DEF Inv3, Pinned
  <2>4. DropsOne(caps, caps', p, s)
    BY <1>1, <2>1, RevokeCells
  <2>5. /\ TablesSafe(caps', state, free)
        /\ \A k, i : Named(caps', k, i) => Named(caps, k, i)
        /\ ~Named(caps', "Reply", id)
    <3>1. free = IF At(caps, p, s).kind = "Frame" THEN free \cup {At(caps, p, s).id} ELSE free
      BY <2>1
    <3>2. TablesSafe(caps, state, free) /\ OnlyOne(caps)
      BY DEF Inv3, TablesSafe
    <3>3. TablesSafe(caps', state, free)
      BY <1>1, <2>4, <3>1, <3>2, DropsSafe, Zenon
    <3>4. "Reply" \in UniqueKinds
      BY DEF UniqueKinds
    <3>5. /\ \A k, i : Named(caps', k, i) => Named(caps, k, i)
          /\ OnlyOne(caps) /\ At(caps, p, s).kind \in UniqueKinds
               => ~Named(caps', At(caps, p, s).kind, At(caps, p, s).id)
      BY <1>1, <2>4, DropsNames, Zenon
    <3>6. ~Named(caps', "Reply", id)
      BY <2>1, <3>2, <3>4, <3>5
    <3> QED BY <3>3, <3>5, <3>6
  <2> HIDE DEF id
  <2>6. state' = [state EXCEPT ![id] = "Ready"] /\ eps' = eps /\ free' = free /\ exiting' = None
    BY <1>1, <2>1 DEF id
  <2>7. Once(eps', state')
    <3>1. \A d \in Endpoints : \A i \in 1 .. Len(eps[d].queue) : eps[d].queue[i] \in Procs
      BY <1>1, WaitersAreProcs DEF TypeOK
    <3> QED BY <1>1, <2>3, <2>6, <3>1, RouseOnce DEF Inv3
  <2>8. TablesSafe(caps', state', free')
    <3>1. \A r \in Procs : state[r] = "Empty" <=> state'[r] = "Empty"
      BY <1>1, <2>3, <2>6
    <3>2. caps' \in AllTables
      BY <1>1 DEF AllTables, Inv1, TypeOK, ReservedEmpty, CapAt, GoodTables
    <3> QED BY <2>5, <2>6, <3>1, <3>2, StateSafe
  <2>9. Pinned(caps', state', eps')
    BY <1>1, <2>3, <2>5, <2>6 DEF Inv3, Pinned
  <2> QED BY <1>1, <2>6, <2>7, <2>8, <2>9, Inv3Next
<1>11. ASSUME Send(p) PROVE Inv3'
  BY <1>2, <1>3, <1>11 DEF Send
<1>12. ASSUME Recv(p) PROVE Inv3'
  BY <1>4, <1>5, <1>6, <1>7, <1>12 DEF Recv
<1>13. ASSUME Call(p) PROVE Inv3'
  BY <1>8, <1>9, <1>13 DEF Call
<1> QED BY <1>10, <1>11, <1>12, <1>13

\* A step that leaves every process where it is, and wakes nobody.
LEMMA QuietInv3 ==
  ASSUME Inv3, Inv1', TablesSafe(caps', state, free'), state' = state,
         \A id : Named(caps', "Reply", id) => Named(caps, "Reply", id),
         \A d \in Endpoints : eps'[d].queue = eps[d].queue,
         exiting' # None => state[exiting'] = "Ready"
  PROVE  Inv3'
<1>1. Once(eps', state')
  BY DEF Inv3, Once
<1>2. Pinned(caps', state', eps')
  BY DEF Inv3, Pinned, InQueue
<1> QED BY <1>1, <1>2, Inv3Next

\* Memory, the CPU budget and voluntary release.
LEMMA SyscallInv3 ==
  ASSUME Inv3, NEW p \in Procs,
         FrameAlloc(p) \/ FrameMap(p) \/ FbMap(p) \/ CpuCharge(p) \/ CapRelease(p)
  PROVE  Inv3'
<1>1. /\ caps \in AllTables /\ TypeOK /\ Inv1' /\ state[p] = "Ready" /\ exiting = None
      /\ TablesSafe(caps, state, free)
  BY Inv3Types, SyscallInv1
     DEF Inv3, FrameAlloc, FrameMap, FbMap, Map, CpuCharge, CapRelease, CanCall
<1>2. ASSUME FrameAlloc(p) PROVE Inv3'
  <2>1. PICK f \in free :
          /\ caps' = [caps EXCEPT ![p] =
               Put(@, InstallSlot(@), Cap("Frame", f, {"READ", "WRITE", "MAP"}))]
          /\ free' = free \ {f}
          /\ InstallSlot(caps[p]) # None
          /\ UNCHANGED <<state, eps, exiting>>
    BY <1>2 DEF FrameAlloc
  <2> DEFINE cap == Cap("Frame", f, {"READ", "WRITE", "MAP"})
             l   == InstallSlot(caps[p])
  <2>2. f \in Frames /\ f \in Nat
    BY <1>1 DEF TypeOK, Frames
  <2>3. cap \in Caps
    BY <2>2, CapType DEF Kinds, Rights, Ids
  <2>4. cap.kind = "Frame" /\ cap.id = f /\ cap.origin = None
    BY DEF Cap
  <2>5. ~Named(caps, "Frame", f)
    BY <1>1, <2>2 DEF TablesSafe
  <2>6. l \in Slots /\ AddsOne(caps, caps', p, l, cap)
    <3> HIDE DEF cap
    <3> QED BY <1>1, <2>1, InstallCells DEF cap
  <2> HIDE DEF cap, l
  <2>7. free' = IF cap.kind = "Frame" THEN free \ {cap.id} ELSE free
    BY <2>1, <2>4
  <2>8. /\ cap.kind \in UniqueKinds => ~Named(caps, cap.kind, cap.id)
        /\ cap.kind = "Endpoint" => cap.rights \cap {"SEND", "RECV"} # {}
        /\ state[p] # "Empty"
    BY <1>1, <2>4, <2>5
  <2>9. TablesSafe(caps', state, free')
    <3>1. free' = free \ {cap.id} /\ ~Named(caps, "Frame", cap.id)
      BY <2>1, <2>4, <2>5
    <3> QED BY <1>1, <2>3, <2>4, <2>6, <2>8, <3>1, FrameAddsSafe, Zenon
  <2>10. \A id : Named(caps', "Reply", id) => Named(caps, "Reply", id)
    BY <1>1, <2>3, <2>4, <2>6, AddsNamed
  <2> QED BY <1>1, <2>1, <2>9, <2>10, QuietInv3
<1>3. ASSUME NEW kind, NEW limit, Map(p, kind, limit) PROVE Inv3'
  <2>1. UNCHANGED <<state, caps, eps, free, exiting>>
    BY <1>3 DEF Map
  <2> QED BY <1>1, <2>1, QuietInv3
<1>4. ASSUME CpuCharge(p) PROVE Inv3'
  <2>1. PICK s \in Slots, amount \in 1 .. CpuBudget :
          /\ CapAt(p, s) # None /\ CapAt(p, s).kind = "CpuTime"
          /\ amount <= CapAt(p, s).id
          /\ caps' = [caps EXCEPT ![p].slots[s].id = @ - amount]
    BY <1>4 DEF CpuCharge, Holds
  <2>2. UNCHANGED <<state, eps, free, exiting>>
    BY <1>4 DEF CpuCharge
  <2>3. CapAt(p, s).id - amount \in Nat
    <3>1. CapAt(p, s).id \in Nat
      BY <1>1, <2>1, AtType DEF At, CapAt, Caps, CapRecords
    <3> QED BY <2>1, <3>1, KernelAssumption
  <2>4. /\ TablesSafe(caps', state, free)
        /\ \A id : Named(caps', "Reply", id) => Named(caps, "Reply", id)
    BY <1>1, <2>1, <2>3, ChargeSafe
  <2> QED BY <1>1, <2>2, <2>4, QuietInv3
<1>5. ASSUME CapRelease(p) PROVE Inv3'
  <2>1. PICK s \in Slots : CapAt(p, s) # None /\ (ReleaseHome(p, s) \/ ReleaseOwn(p, s))
    BY <1>5 DEF CapRelease
  <2>2. UNCHANGED <<state, exiting>>
    BY <1>5 DEF CapRelease
  <2>3. CASE ReleaseHome(p, s)
    <3>1. /\ ReleaseAction(CapAt(p, s)) = "ReclaimTo" /\ SendHome(p, s)
          /\ UNCHANGED <<eps, free>>
      BY <2>3 DEF ReleaseHome
    <3>2. /\ TablesSafe(caps', state, free)
          /\ \A id : Named(caps', "Reply", id) => Named(caps, "Reply", id)
      BY <1>1, <2>1, <3>1, SendHomeSafe
    <3> QED BY <1>1, <2>2, <3>1, <3>2, QuietInv3
  <2>4. CASE ReleaseOwn(p, s)
    <3>1. DropsOne(caps, caps', p, s)
      BY <1>1, <2>1, <2>4, RevokeCells DEF ReleaseOwn, At, CapAt
    <3>2. free' = IF At(caps, p, s).kind = "Frame" THEN free \cup {At(caps, p, s).id} ELSE free
      <4>1. At(caps, p, s).kind \in Kinds
        BY <1>1, <2>1, AtType DEF At, CapAt, Caps, CapRecords
      <4>2. ReleaseAction(At(caps, p, s)) = "FreeFrame" <=> At(caps, p, s).kind = "Frame"
        BY <4>1 DEF ReleaseAction, ReclaimableKinds, Kinds
      <4>3. free' = IF ReleaseAction(At(caps, p, s)) = "FreeFrame"
                    THEN free \cup {At(caps, p, s).id} ELSE free
        BY <2>4 DEF ReleaseOwn, At, CapAt
      <4> QED BY <4>2, <4>3
    <3>3. TablesSafe(caps', state, free')
      BY <1>1, <3>1, <3>2, DropsSafe
    <3>4. \A id : Named(caps', "Reply", id) => Named(caps, "Reply", id)
      BY <1>1, <3>1, DropsNames
    <3>5. \A d \in Endpoints : eps'[d].queue = eps[d].queue
      <4> DEFINE cap == CapAt(p, s)
                 ep  == Dropped(eps[cap.id], Has(cap, "SEND"), Has(cap, "RECV"))
      <4>1. eps' = eps \/ eps' = [eps EXCEPT ![cap.id] = ep]
        BY <2>4 DEF ReleaseOwn
      <4>2. cap.id \in Endpoints => ep.queue = eps[cap.id].queue
        BY <1>1, DroppedQueue DEF TypeOK
      <4> HIDE DEF cap, ep
      <4> QED BY <1>1, <4>1, <4>2 DEF TypeOK
    <3> QED BY <1>1, <2>2, <3>3, <3>4, <3>5, QuietInv3
  <2> QED BY <2>1, <2>3, <2>4
<1> QED BY <1>2, <1>3, <1>4, <1>5 DEF FrameMap, FbMap

\* Spawning, whether the child starts or not.
LEMMA SpawnInv3 ==
  ASSUME Inv3, NEW p \in Procs, Spawn(p)
  PROVE  Inv3'
<1>1. /\ caps \in AllTables /\ TypeOK /\ state \in [Procs -> {"Empty", "Ready", "Blocked"}]
      /\ Inv1' /\ state[p] = "Ready" /\ exiting = None /\ TablesSafe(caps, state, free)
  BY Inv3Types, SpawnInv1 DEF Inv3, Spawn, CanCall
<1>2. ASSUME NEW c \in Slots \cup {None}, SpawnFails(p, c) PROVE Inv3'
  <2>1. PICK l \in Slots : MovesOne(caps, caps', p, c, p, l) /\ c \in Slots
    BY <1>1, <1>2, SpawnFailsCells
  <2>2. UNCHANGED <<state, eps, free, exiting>>
    BY <1>2 DEF SpawnFails
  <2>3. /\ TablesSafe(caps', state, free)
        /\ \A id : Named(caps', "Reply", id) => Named(caps, "Reply", id)
    BY <1>1, <2>1, MovesSafe, MovesNames
  <2> QED BY <1>1, <2>2, <2>3, QuietInv3
<1>3. ASSUME NEW c \in Slots \cup {None}, SpawnChild(p, c) PROVE Inv3'
  <2>0. PICK e \in Endpoints, q \in Procs : \E given, handle :
          ChildStarts(p, c, e, q, given, handle)
    BY <1>1, <1>3, SpawnChildShape
  <2>1. PICK given, handle :
          /\ FirstFreeEndpoint(e) /\ state[q] = "Empty"
          /\ given # None => c \in Slots
          /\ SpawnsFrom(caps, caps', p, c, q, e, given, handle)
          /\ eps' = [eps EXCEPT ![e] =
               [EmptyEndpoint EXCEPT !.in_use = TRUE, !.senders = 1,
                  !.receivers = IF handle = None THEN 0 ELSE 1]]
          /\ state' = [state EXCEPT ![q] = "Ready"]
          /\ UNCHANGED <<pending, landing, free, exiting>>
    BY <2>0 DEF ChildStarts
  <2>7. \A d \in Endpoints : eps'[d].queue = eps[d].queue \/ eps'[d].queue = <<>>
    BY <1>1, <2>1 DEF TypeOK, EmptyEndpoint
  <2>2. p # q
    BY <1>1, <2>1
  <2>3. /\ TablesSafe(caps', state', free')
        /\ \A id : Named(caps', "Reply", id) => Named(caps, "Reply", id)
    BY <1>1, <2>1, <2>2, SpawnSafe
  <2>4. /\ Once(eps', state)
        /\ \A d \in Endpoints : \A r : InQueue(eps', d, r) => InQueue(eps, d, r)
    BY <2>7, FewerOnce DEF Inv3
  <2>5. Once(eps', state')
    <3>1. \A d \in Endpoints : ~InQueue(eps', d, q)
      BY <2>1, <2>4 DEF Once, InQueue
    <3>2. \A d \in Endpoints : \A i \in 1 .. Len(eps'[d].queue) : eps'[d].queue[i] \in Procs
      BY <1>1, WaitersAreProcs DEF Inv1, TypeOK
    <3> QED BY <1>1, <2>1, <2>4, <3>1, <3>2, RouseOnce
  <2>6. Pinned(caps', state', eps')
    BY <1>1, <2>1, <2>3, <2>4 DEF Inv3, Pinned
  <2> QED BY <1>1, <2>1, <2>3, <2>5, <2>6, Inv3Next
<1> QED BY <1>2, <1>3 DEF Spawn

\* What a death does to a queue: nothing, or everyone is woken.
LEMMA AfterQueue ==
  ASSUME TypeOK, NEW p \in Procs, NEW e \in Endpoints
  PROVE  EndpointAfter(p, e).queue =
           IF DeathStrandsPeers(p, e) THEN <<>> ELSE eps[e].queue
<1> DEFINE ep == IF DeathStrandsPeers(p, e) THEN [eps[e] EXCEPT !.queue = <<>>] ELSE eps[e]
<1>1. eps[e] \in EndpointRecords
  BY DEF TypeOK
<1>2. [eps[e] EXCEPT !.queue = <<>>] \in EndpointRecords
  <2>1. <<>> \in Seq(Procs)
    OBVIOUS
  <2> QED BY <1>1, <2>1 DEF EndpointRecords
<1>3. ep \in EndpointRecords /\ ep.queue = IF DeathStrandsPeers(p, e) THEN <<>> ELSE eps[e].queue
  BY <1>1, <1>2 DEF EndpointRecords
<1>4. \/ EndpointAfter(p, e) = ep
      \/ EndpointAfter(p, e) = Dropped(ep, Cardinality(Reaching(caps[p], e, "SEND")),
                                           Cardinality(Reaching(caps[p], e, "RECV")))
  BY DEF EndpointAfter
<1> HIDE DEF ep
<1> QED BY <1>3, <1>4, DroppedQueue

\* Death, step by step.
LEMMA DeathInv3 ==
  ASSUME Inv3, NEW p \in Procs, Exit(p) \/ ReclaimLentCap(p) \/ FinishExit(p)
  PROVE  Inv3'
<1>1. /\ caps \in AllTables /\ TypeOK /\ state \in [Procs -> {"Empty", "Ready", "Blocked"}]
      /\ Inv1' /\ TablesSafe(caps, state, free)
  BY Inv3Types, DeathInv1 DEF Inv3
<1>2. ASSUME Exit(p) PROVE Inv3'
  BY <1>1, <1>2, QuietInv3 DEF Exit, CanCall
<1>3. ASSUME ReclaimLentCap(p) PROVE Inv3'
  <2>1. PICK s \in BorrowedSlots(caps[p]) : SendHome(p, s)
    BY <1>3 DEF ReclaimLentCap
  <2>2. UNCHANGED <<state, eps, free, exiting>>
    BY <1>3 DEF ReclaimLentCap
  <2>3. s \in Slots /\ CapAt(p, s) # None /\ ReleaseAction(CapAt(p, s)) = "ReclaimTo"
    BY DEF BorrowedSlots, CapAt
  <2>4. /\ TablesSafe(caps', state, free)
        /\ \A id : Named(caps', "Reply", id) => Named(caps, "Reply", id)
    BY <1>1, <2>1, <2>3, SendHomeSafe
  <2> QED BY <1>1, <2>2, <2>4, QuietInv3 DEF Inv3, ExitingReady
<1>4. ASSUME FinishExit(p) PROVE Inv3'
  <2>1. Forgets(caps, caps', p) /\ state[p] = "Ready" /\ exiting' = None
    BY <1>1, <1>4, FinishExitCells, NoneApart DEF FinishExit, Inv3, ExitingReady
  <2>2. state' = [q \in Procs |-> IF q = p THEN "Empty"
                                  ELSE IF q \in Woken(p) THEN "Ready" ELSE state[q]]
    BY <1>4 DEF FinishExit
  <2>3. ASSUME NEW e \in Endpoints, NEW q, InQueue(eps, e, q)
        PROVE  q \in Procs /\ state[q] = "Blocked" /\ q # p /\ ~Named(caps, "Reply", q)
    <3>1. q \in Procs
      BY <1>1, <2>3, WaitersAreProcs DEF InQueue, TypeOK
    <3>2. state[q] = "Blocked"
      BY <2>3 DEF Inv3, Once, InQueue
    <3> QED BY <2>1, <2>3, <3>1, <3>2 DEF Inv3, Pinned
  <2>4. \A q \in OwedReply(p) : q \in Procs /\ state[q] = "Blocked" /\ Named(caps, "Reply", q)
    BY DEF OwedReply, Holds, Named, At, CapAt
  <2>5. \A q \in Stranded(p) : /\ q \in Procs
                               /\ \E e \in Endpoints : DeathStrandsPeers(p, e) /\ InQueue(eps, e, q)
    BY DEF Stranded, InQueue
  <2>6. \A q \in Woken(p) : state[q] = "Blocked"
    BY <2>3, <2>4, <2>5 DEF Woken
  <2>7. /\ TablesSafe(caps', state', free')
        /\ \A id : Named(caps', "Reply", id) =>
             \E q \in Procs \ {p}, s \in Slots :
               At(caps, q, s) # None /\ At(caps, q, s).kind = "Reply" /\ At(caps, q, s).id = id
    <3>1. \A q \in Procs \ {p} : state[q] = "Empty" <=> state'[q] = "Empty"
      BY <1>1, <2>2, <2>6
    <3>2. free' = free \cup {At(caps, p, s).id : s \in {r \in Slots :
                               At(caps, p, r) # None /\ At(caps, p, r).kind = "Frame"}}
      BY <1>4 DEF FinishExit, Holds, At, CapAt
    <3>3. TablesSafe(caps', state', free')
      BY <1>1, <2>1, <3>1, <3>2, ForgetsSafe
    <3> QED BY <1>1, <2>1, <3>3, ForgetsNames
  <2>8. \A e \in Endpoints : eps'[e].queue =
          IF DeathStrandsPeers(p, e) THEN <<>> ELSE eps[e].queue
    BY <1>1, <1>4, AfterQueue DEF FinishExit
  <2>9. /\ Once(eps', state)
        /\ \A d \in Endpoints : \A q : InQueue(eps', d, q) => InQueue(eps, d, q)
    BY <2>8, FewerOnce DEF Inv3
  <2>10. ASSUME NEW e \in Endpoints, NEW q, InQueue(eps', e, q)
         PROVE  state'[q] = "Blocked"
    <3>1. InQueue(eps, e, q) /\ ~DeathStrandsPeers(p, e)
      <4>1. ASSUME DeathStrandsPeers(p, e) PROVE FALSE
        <5>1. eps'[e].queue = <<>>
          BY <2>8, <4>1
        <5>2. Len(eps'[e].queue) = 0
          BY <5>1
        <5> QED BY <2>10, <5>2 DEF InQueue
      <4> QED BY <2>9, <2>10, <4>1
    <3>2. q \in Procs /\ state[q] = "Blocked" /\ q # p /\ ~Named(caps, "Reply", q)
      BY <2>3, <3>1
    <3>3. q \notin Stranded(p)
      <4>1. ASSUME NEW d \in Endpoints, InQueue(eps, d, q) PROVE d = e
        BY <3>1, <4>1 DEF Inv3, Once, InQueue
      <4> QED BY <2>5, <3>1, <4>1
    <3>4. q \notin Woken(p)
      BY <2>4, <3>2, <3>3 DEF Woken
    <3> QED BY <2>2, <3>2, <3>4
  <2>11. Once(eps', state')
    BY <2>9, <2>10 DEF Once, InQueue
  <2>12. Pinned(caps', state', eps')
    <3>1. ASSUME NEW id, Named(caps', "Reply", id)
          PROVE  /\ id \in Procs /\ state'[id] = "Blocked"
                 /\ \A e \in Endpoints : ~InQueue(eps', e, id)
      <4>1. PICK q \in Procs \ {p}, s \in Slots :
              At(caps, q, s) # None /\ At(caps, q, s).kind = "Reply" /\ At(caps, q, s).id = id
        BY <2>7, <3>1
      <4>2. Named(caps, "Reply", id)
        BY <4>1 DEF Named
      <4>3. id \in Procs /\ state[id] = "Blocked" /\ \A e \in Endpoints : ~InQueue(eps, e, id)
        BY <4>2 DEF Inv3, Pinned
      <4>4. id \notin Stranded(p)
        BY <2>5, <4>3
      <4>5. id \notin OwedReply(p)
        <5>1. ASSUME NEW r \in Slots, At(caps, p, r) # None, At(caps, p, r).kind = "Reply",
                     At(caps, p, r).id = id
              PROVE  FALSE
          BY <1>1, <4>1, <5>1 DEF TablesSafe, OnlyOne, UniqueKinds
        <5> QED BY <5>1 DEF OwedReply, Holds, At, CapAt
      <4>6. id # p /\ id \notin Woken(p)
        BY <2>1, <4>3, <4>4, <4>5 DEF Woken
      <4> QED BY <2>2, <2>9, <4>3, <4>6
    <3> QED BY <3>1 DEF Pinned
  <2> QED BY <1>1, <2>1, <2>7, <2>11, <2>12, Inv3Next
<1> QED BY <1>2, <1>3, <1>4

\* What `run` put in a slot: the budget, a grant, or nothing.
LEMMA BootCells ==
  ASSUME Init, NEW p \in Procs, NEW s \in Slots, At(caps, p, s) # None
  PROVE  /\ p \in DOMAIN BootGrants /\ state[p] = "Ready"
         /\ \/ s = 0 /\ At(caps, p, s) = Budget
            \/ s \in 1 .. Len(BootGrants[p]) /\ At(caps, p, s) = BootGrants[p][s]
<1>1. At(caps, p, s) = BootTable(p).slots[s] /\ state[p] =
        IF p \in DOMAIN BootGrants THEN "Ready" ELSE "Empty"
  BY DEF Init, At
<1>2. p \in DOMAIN BootGrants
  BY <1>1 DEF BootTable, EmptyTable
<1>3. At(caps, p, s) = IF s = 0 THEN Budget
                       ELSE IF s <= Len(BootGrants[p]) THEN BootGrants[p][s] ELSE None
  BY <1>1, <1>2 DEF BootTable, EmptyTable, Budget
<1>4. Len(BootGrants[p]) \in Nat
  BY <1>2, BootAssumption
<1> QED BY <1>1, <1>2, <1>3, <1>4, SizeAssumption DEF Slots

\* The boot state.
LEMMA InitInv3 == Init => Inv3
<1> SUFFICES ASSUME Init PROVE Inv3
  OBVIOUS
<1>1. Inv1
  BY InitInv1
<1>2. Budget.kind = "CpuTime" /\ Budget.origin = None
  BY DEF Budget, Cap
<1>3. ASSUME NEW p \in Procs, NEW s \in Slots, At(caps, p, s) # None
      PROVE  /\ At(caps, p, s).origin = None
             /\ At(caps, p, s).kind \in ReclaimableKinds \cup {"Endpoint", "CpuTime"}
             /\ At(caps, p, s).kind = "Endpoint" => At(caps, p, s).rights \cap {"SEND", "RECV"} # {}
  BY <1>2, <1>3, BootCells, BootAssumption DEF ReclaimableKinds
<1>4. OnlyOne(caps)
  <2> SUFFICES ASSUME NEW p \in Procs, NEW q \in Procs, NEW s \in Slots, NEW r \in Slots,
                      At(caps, p, s) # None, At(caps, q, r) # None,
                      At(caps, p, s).kind \in UniqueKinds,
                      At(caps, q, r).kind = At(caps, p, s).kind,
                      At(caps, q, r).id = At(caps, p, s).id
               PROVE  p = q /\ s = r
    BY DEF OnlyOne
  <2>1. At(caps, p, s).kind \in ReclaimableKinds /\ At(caps, p, s).kind # "CpuTime"
    BY <1>3 DEF UniqueKinds, ReclaimableKinds
  <2>2. /\ p \in DOMAIN BootGrants /\ s \in 1 .. Len(BootGrants[p])
        /\ At(caps, p, s) = BootGrants[p][s]
    BY <1>2, <2>1, BootCells
  <2>3. /\ q \in DOMAIN BootGrants /\ r \in 1 .. Len(BootGrants[q])
        /\ At(caps, q, r) = BootGrants[q][r]
    BY <1>2, <2>1, BootCells
  <2> QED BY <2>1, <2>2, <2>3, BootAssumption
<1>5. Useful(caps) /\ LendersIn(caps, state)
  BY <1>3 DEF Useful, LendersIn
<1>6. ASSUME NEW r \in Procs, state[r] = "Empty" PROVE Bare(caps, r)
  <2>1. r \notin DOMAIN BootGrants
    BY <1>6 DEF Init
  <2>2. caps[r] = EmptyTable
    BY <2>1 DEF Init, BootTable
  <2> QED BY <2>2 DEF Bare, At, EmptyTable
<1>7. \A id : ~Named(caps, "Frame", id) /\ ~Named(caps, "Reply", id)
  BY <1>3 DEF Named, ReclaimableKinds
<1>8. TablesSafe(caps, state, free)
  BY <1>4, <1>5, <1>6, <1>7 DEF TablesSafe, Init
<1>9. \A e \in Endpoints : eps[e].queue = <<>>
  BY DEF Init, BootEndpoint, EmptyEndpoint
<1>10. Once(eps, state)
  BY <1>9, Len(<<>>) = 0 DEF Once
<1>11. Pinned(caps, state, eps) /\ ExitingReady
  BY <1>7 DEF Pinned, ExitingReady, Init
<1> QED BY <1>1, <1>8, <1>10, <1>11 DEF Inv3

\* The third invariant is inductive.
LEMMA Inv3Inductive == Inv3 /\ [Next]_vars => Inv3'
<1> SUFFICES ASSUME Inv3, [Next]_vars PROVE Inv3'
  OBVIOUS
<1>1. CASE UNCHANGED vars
  <2>1. Inv1'
    BY <1>1 DEF Inv3, Inv1, TypeOK, ReservedEmpty, CapAt, vars
  <2> QED BY <1>1, <2>1, Inv3Next DEF Inv3, ExitingReady, vars
<1>2. CASE Next
  BY <1>2, GateInv3, SyscallInv3, SpawnInv3, DeathInv3 DEF Next
<1> QED BY <1>1, <1>2

\* A disk range, an input source and a screen band have one holder, who never
\* owes it to itself nor to a process that is gone: however a capability is
\* lent on, bounced, handed back, released or reclaimed by a death
\* (capability.rs, lent_to; scheduler.rs, reclaim_lent_caps).
THEOREM LoansStaySound == Spec => []LoansSound
<1>1. Inv3 => LoansSound
  BY DEF Inv3, TablesSafe, OnlyOne, UniqueKinds, LendersIn, LoansSound, OneHolder,
         LendersLive, At, CapAt
<1> QED BY InitInv3, Inv3Inductive, <1>1, PTL DEF Spec

\* A frame is in the allocator or in one slot of one table: no frame leaks and
\* none is handed out twice (syscall.rs, sys_frame_alloc, sys_cap_release;
\* process.rs, teardown).
THEOREM FramesStayOwned == Spec => []FramesOwned
<1>1. Inv3 => FramesOwned
  <2> SUFFICES ASSUME Inv3 PROVE FramesConserved /\ FramesUnshared
    BY DEF FramesOwned
  <2>1. FramesConserved
    BY DEF Inv3, TablesSafe, Named, FramesConserved, Holds, At, CapAt
  <2>2. FramesUnshared
    BY DEF Inv3, TablesSafe, OnlyOne, UniqueKinds, FramesUnshared, Holds, At, CapAt
  <2> QED BY <2>1, <2>2
<1> QED BY InitInv3, Inv3Inductive, <1>1, PTL DEF Spec

\* A reply capability pins its caller: until it is used or lost, the caller
\* stays Blocked, in no queue, and nobody else can answer it (ipc.rs, ipc_reply).
THEOREM RepliesStayPinned == Spec => []ReplyPinned
<1>1. Inv3 => ReplyPinned
  <2> SUFFICES ASSUME Inv3, NEW p \in Procs, NEW s \in Slots, Holds(p, s, "Reply")
               PROVE  /\ CapAt(p, s).id \in Procs
                      /\ state[CapAt(p, s).id] = "Blocked"
                      /\ \A e \in Endpoints : ~Queued(e, CapAt(p, s).id)
                      /\ \A q \in Procs, r \in Slots :
                           Holds(q, r, "Reply") /\ CapAt(q, r).id = CapAt(p, s).id
                             => q = p /\ r = s
    BY DEF ReplyPinned
  <2>1. Named(caps, "Reply", CapAt(p, s).id)
    BY DEF Named, Holds, At, CapAt
  <2>2. /\ CapAt(p, s).id \in Procs /\ state[CapAt(p, s).id] = "Blocked"
        /\ \A e \in Endpoints : ~InQueue(eps, e, CapAt(p, s).id)
    BY <2>1 DEF Inv3, Pinned
  <2>3. \A q \in Procs, r \in Slots :
          Holds(q, r, "Reply") /\ CapAt(q, r).id = CapAt(p, s).id => q = p /\ r = s
    BY DEF Inv3, TablesSafe, OnlyOne, UniqueKinds, Holds, At, CapAt
  <2> QED BY <2>2, <2>3 DEF Queued, InQueue
<1> QED BY InitInv3, Inv3Inductive, <1>1, PTL DEF Spec

----------------------------------------------------------------------------
(* The endpoints.                                                          *)

\* How many capabilities reach e with the right.
Count(t, e, right) == Cardinality(Referents(t, e, right))

\* The side the waiters of e are on, and the side they wait for.
SideOf(ep, e)  == IF ep[e].are_senders THEN "SEND" ELSE "RECV"
PeersOf(ep, e) == IF ep[e].are_senders THEN ep[e].receivers ELSE ep[e].senders

\* The counts are those of the tables, and an endpoint lives while one is not 0.
Counted(t, ep) == \A e \in Endpoints :
  /\ ep[e].senders = Count(t, e, "SEND")
  /\ ep[e].receivers = Count(t, e, "RECV")
  /\ ep[e].in_use <=> ep[e].senders > 0 \/ ep[e].receivers > 0

\* Whoever waits can reach what it waits on.
Reach(t, ep) == \A e \in Endpoints, q \in Procs :
  InQueue(ep, e, q) => Reaching(t[q], e, SideOf(ep, e)) # {}

\* Whoever waits has a peer, as long as programs do not release endpoints.
Peered(ep) == "Endpoint" \notin ReleaseKinds =>
  \A e \in Endpoints : ep[e].queue # <<>> => PeersOf(ep, e) > 0

\* The fourth inductive invariant.
Inv4 == Inv3 /\ Counted(caps, eps) /\ Reach(caps, eps) /\ Peered(eps)

\* The tables u count as t does.
SameCounts(t, u) == \A e, right : Count(u, e, right) = Count(t, e, right)

\* What another process than p can reach, it still can.
KeptBut(t, u, p) == \A w \in Procs \ {p} : \A e, right :
  Reaching(t[w], e, right) # {} => Reaching(u[w], e, right) # {}

\* A step gives the invariant when these hold.
LEMMA Inv4Next ==
  ASSUME Inv3', Counted(caps', eps'), Reach(caps', eps'), Peered(eps')
  PROVE  Inv4'
  BY DEF Inv4, Counted, Reach, Peered, Count, SideOf, PeersOf, InQueue, Referents, Reaching

----------------------------------------------------------------------------
(* The pieces of a state change and the counts.                            *)

\* A capability that is not an endpoint's does not count.
LEMMA OthersDoNotCount ==
  ASSUME NEW cap, cap.kind # "Endpoint", NEW e, NEW right
  PROVE  ~Reaches(cap, e, right) /\ Counts(cap, e, right) = 0
  BY DEF Reaches, Counts

\* A move.
LEMMA MoveCounts ==
  ASSUME NEW t \in AllTables, NEW u, NEW p \in Procs, NEW c \in Slots,
         NEW q \in Procs, NEW l \in Slots, MovesOne(t, u, p, c, q, l)
  PROVE  SameCounts(t, u) /\ KeptBut(t, u, p)
<1>1. SameCounts(t, u)
  BY MovesCount DEF SameCounts, Count
<1>2. KeptBut(t, u, p)
  <2> SUFFICES ASSUME NEW w \in Procs \ {p}, NEW e, NEW right, Reaching(t[w], e, right) # {}
               PROVE  Reaching(u[w], e, right) # {}
    BY DEF KeptBut
  <2>1. PICK s \in Slots : /\ At(t, w, s) # None /\ At(t, w, s).kind = "Endpoint"
                           /\ At(t, w, s).id = e /\ right \in At(t, w, s).rights
    BY DEF Reaching, At
  <2>2. At(u, w, s) = At(t, w, s)
    BY <2>1 DEF MovesOne, SameBeyond
  <2> QED BY <2>1, <2>2 DEF Reaching, At
<1> QED BY <1>1, <1>2

\* A capability that does not count is minted.
LEMMA AddCounts ==
  ASSUME NEW t \in AllTables, NEW u, NEW q \in Procs, NEW l \in Slots,
         NEW cap, AddsOne(t, u, q, l, cap), NEW p
  PROVE  /\ cap.kind # "Endpoint" => SameCounts(t, u)
         /\ KeptBut(t, u, p)
<1>1. ASSUME cap.kind # "Endpoint" PROVE SameCounts(t, u)
  <2> SUFFICES ASSUME NEW e, NEW right PROVE Count(u, e, right) = Count(t, e, right)
    BY DEF SameCounts
  <2>1. Counts(cap, e, right) = 0
    BY <1>1, OthersDoNotCount
  <2>2. Count(u, e, right) = Count(t, e, right) + Counts(cap, e, right)
    BY AddsCount DEF Count
  <2>3. Count(t, e, right) \in Nat
    BY ReferentsAt DEF Count
  <2> QED BY <2>1, <2>2, <2>3
<1>2. KeptBut(t, u, p)
  <2> SUFFICES ASSUME NEW w \in Procs \ {p}, NEW e, NEW right, Reaching(t[w], e, right) # {}
               PROVE  Reaching(u[w], e, right) # {}
    BY DEF KeptBut
  <2>1. PICK s \in Slots : /\ At(t, w, s) # None /\ At(t, w, s).kind = "Endpoint"
                           /\ At(t, w, s).id = e /\ right \in At(t, w, s).rights
    BY DEF Reaching, At
  <2>2. At(u, w, s) = At(t, w, s)
    BY <2>1 DEF AddsOne, SameBeyond
  <2> QED BY <2>1, <2>2 DEF Reaching, At
<1> QED BY <1>1, <1>2

\* A capability is dropped.
LEMMA DropCounts ==
  ASSUME NEW t \in AllTables, NEW u, NEW p \in Procs, NEW c \in Slots,
         DropsOne(t, u, p, c)
  PROVE  /\ At(t, p, c).kind # "Endpoint" => SameCounts(t, u)
         /\ KeptBut(t, u, p)
<1>1. ASSUME NEW e, NEW right
      PROVE  /\ Count(t, e, right) = Count(u, e, right) + Counts(At(t, p, c), e, right)
             /\ Count(u, e, right) \in Nat
  BY DropsCount, ReferentsAt DEF Count
<1>2. ASSUME At(t, p, c).kind # "Endpoint" PROVE SameCounts(t, u)
  <2> SUFFICES ASSUME NEW e, NEW right PROVE Count(u, e, right) = Count(t, e, right)
    BY DEF SameCounts
  <2>1. Counts(At(t, p, c), e, right) = 0
    BY <1>2, OthersDoNotCount
  <2> QED BY <1>1, <2>1
<1>3. KeptBut(t, u, p)
  <2> SUFFICES ASSUME NEW w \in Procs \ {p}, NEW e, NEW right, Reaching(t[w], e, right) # {}
               PROVE  Reaching(u[w], e, right) # {}
    BY DEF KeptBut
  <2>1. PICK s \in Slots : /\ At(t, w, s) # None /\ At(t, w, s).kind = "Endpoint"
                           /\ At(t, w, s).id = e /\ right \in At(t, w, s).rights
    BY DEF Reaching, At
  <2>2. At(u, w, s) = At(t, w, s)
    BY <2>1 DEF DropsOne, SameBeyond
  <2> QED BY <2>1, <2>2 DEF Reaching, At
<1> QED BY <1>1, <1>2, <1>3

\* And with it, what it counted.
LEMMA DropCount ==
  ASSUME NEW t \in AllTables, NEW u, NEW p \in Procs, NEW c \in Slots,
         DropsOne(t, u, p, c), NEW e, NEW right, NEW k, k = Counts(At(t, p, c), e, right)
  PROVE  Count(u, e, right) \in Nat /\ Count(t, e, right) = Count(u, e, right) + k
  BY DropsCount, ReferentsAt DEF Count

\* The optional transfer of a send: what it loses is no endpoint.
LEMMA DeliverCounts ==
  ASSUME caps \in AllTables, NEW from \in Procs, NEW to \in Procs, from # to,
         NEW c \in Slots \cup {None}, Deliver(from, c, to)
  PROVE  SameCounts(caps, caps') /\ KeptBut(caps, caps', from)
<1>1. CASE ~Moves(from, c)
  BY <1>1 DEF Deliver, SameCounts, KeptBut
<1>2. CASE Moves(from, c)
  <2>1. c \in Slots /\ CapAt(from, c) # None /\ Transfer(from, c, to)
    BY <1>2 DEF Moves, Deliver
  <2>2. ASSUME DropsOne(caps, caps', from, c), LendReservesHome(CapAt(from, c))
        PROVE  SameCounts(caps, caps') /\ KeptBut(caps, caps', from)
    <3>1. At(caps, from, c).kind # "Endpoint"
      BY <2>2 DEF LendReservesHome, ReclaimableKinds, At, CapAt
    <3> QED BY <2>1, <2>2, <3>1, DropCounts
  <2>3. ASSUME NEW q \in {from, to}, NEW l \in Slots, MovesOne(caps, caps', from, c, q, l)
        PROVE  SameCounts(caps, caps') /\ KeptBut(caps, caps', from)
    BY <2>1, <2>3, MoveCounts
  <2> QED BY <2>1, <2>2, <2>3, TransferCells
<1> QED BY <1>1, <1>2

\* A minted reply capability.
LEMMA MintCounts ==
  ASSUME caps \in AllTables, NEW server \in Procs, NEW caller \in Procs,
         MintReply(server, caller), NEW p
  PROVE  SameCounts(caps, caps') /\ KeptBut(caps, caps', p)
<1> DEFINE cap == Cap("Reply", caller, {})
           l   == InstallSlot(caps[server])
<1>1. caps' = [caps EXCEPT ![server] = Put(@, l, cap)]
  BY DEF MintReply
<1>2. cap.kind # "Endpoint"
  BY DEF Cap
<1> HIDE DEF cap, l
<1>3. CASE l = None
  <2>1. caps' = caps
    BY <1>1, <1>3 DEF Put, AllTables
  <2> QED BY <2>1 DEF SameCounts, KeptBut
<1>4. CASE l # None
  <2>1. l \in Slots /\ AddsOne(caps, caps', server, l, cap)
    BY <1>1, <1>4, InstallCells DEF l
  <2> QED BY <1>2, <2>1, AddCounts
<1> QED BY <1>3, <1>4

\* A borrowed capability leaves for home: it is no endpoint.
LEMMA SendHomeCounts ==
  ASSUME caps \in AllTables, NEW p \in Procs, NEW s \in Slots, CapAt(p, s) # None,
         ReleaseAction(CapAt(p, s)) = "ReclaimTo", SendHome(p, s),
         LendersIn(caps, state)
  PROVE  SameCounts(caps, caps') /\ KeptBut(caps, caps', p)
<1>1. CapAt(p, s).kind \in ReclaimableKinds /\ CapAt(p, s).origin # None
  BY DEF ReleaseAction
<1>2. CapAt(p, s).origin.lender # p /\ CapAt(p, s).origin.lender \in Procs
  BY <1>1, AtType DEF LendersIn, At, CapAt
<1>3. ASSUME NEW l \in Slots, MovesOne(caps, caps', p, s, CapAt(p, s).origin.lender, l)
      PROVE  SameCounts(caps, caps') /\ KeptBut(caps, caps', p)
  BY <1>2, <1>3, MoveCounts
<1>4. ASSUME DropsOne(caps, caps', p, s)
      PROVE  SameCounts(caps, caps') /\ KeptBut(caps, caps', p)
  <2>1. At(caps, p, s).kind # "Endpoint"
    BY <1>1 DEF ReclaimableKinds, At, CapAt
  <2> QED BY <1>4, <2>1, DropCounts
<1> QED BY <1>1, <1>2, <1>3, <1>4, SendHomeCells

\* A charge to the CPU budget.
LEMMA ChargeCounts ==
  ASSUME caps \in AllTables, NEW p \in Procs, NEW s \in Slots, NEW amount,
         CapAt(p, s) # None, CapAt(p, s).kind = "CpuTime",
         caps' = [caps EXCEPT ![p].slots[s].id = @ - amount]
  PROVE  SameCounts(caps, caps') /\ KeptBut(caps, caps', p)
<1>1. \A r \in Procs, z \in Slots : ~(r = p /\ z = s) => At(caps', r, z) = At(caps, r, z)
  BY DEF At, AllTables, GoodTables, Tables
<1>2. At(caps', p, s).kind = "CpuTime"
  <2>1. At(caps, p, s) \in CapRecords
    BY AtType DEF At, CapAt, Caps
  <2>2. At(caps', p, s) = [At(caps, p, s) EXCEPT !.id = @ - amount]
    BY DEF At, AllTables, GoodTables, Tables
  <2> QED BY <2>1, <2>2 DEF CapRecords, At, CapAt
<1>3. ASSUME NEW e, NEW right, NEW r \in Procs, NEW z \in Slots
      PROVE  Reaches(At(caps', r, z), e, right) <=> Reaches(At(caps, r, z), e, right)
  BY <1>1, <1>2 DEF Reaches, At, CapAt
<1>4. ASSUME NEW e, NEW right
      PROVE  Referents(caps', e, right) = Referents(caps, e, right)
  <2>1. /\ Referents(caps', e, right) \subseteq Procs \X Slots
        /\ Referents(caps, e, right) \subseteq Procs \X Slots
        /\ \A r \in Procs, z \in Slots :
             <<r, z>> \in Referents(caps', e, right) <=> Reaches(At(caps', r, z), e, right)
        /\ \A r \in Procs, z \in Slots :
             <<r, z>> \in Referents(caps, e, right) <=> Reaches(At(caps, r, z), e, right)
    BY ReferentsAt
  <2>2. \A r \in Procs, z \in Slots :
          <<r, z>> \in Referents(caps', e, right) <=> <<r, z>> \in Referents(caps, e, right)
    BY <1>3, <2>1
  <2>3. \A x : x \in Referents(caps', e, right) <=> x \in Referents(caps, e, right)
    <3> SUFFICES ASSUME NEW x
                 PROVE  x \in Referents(caps', e, right) <=> x \in Referents(caps, e, right)
      OBVIOUS
    <3>1. CASE x \in Procs \X Slots
      <4>1. PICK r \in Procs, z \in Slots : x = <<r, z>>
        BY <3>1
      <4> QED BY <2>2, <4>1
    <3>2. CASE x \notin Procs \X Slots
      BY <2>1, <3>2
    <3> QED BY <3>1, <3>2
  <2> QED BY <2>3
<1>5. KeptBut(caps, caps', p)
  BY <1>1 DEF KeptBut, Reaching, At
<1> QED BY <1>4, <1>5 DEF SameCounts, Count

----------------------------------------------------------------------------
(* The pieces of a state change and the endpoints.                         *)

\* The counts stay, in the tables and in the endpoints.
LEMMA SameCounted ==
  ASSUME NEW t, NEW u, NEW ep, NEW new, Counted(t, ep), SameCounts(t, u),
         \A d \in Endpoints : /\ new[d].senders = ep[d].senders
                              /\ new[d].receivers = ep[d].receivers
                              /\ new[d].in_use <=> ep[d].in_use
  PROVE  Counted(u, new)
  BY DEF Counted, SameCounts

\* The waiters of before, and what they hold.
LEMMA FewerReach ==
  ASSUME NEW t, NEW u, NEW ep, NEW new, Reach(t, ep), NEW p, KeptBut(t, u, p),
         \A d \in Endpoints, q \in Procs : InQueue(new, d, q) =>
           InQueue(ep, d, q) /\ q # p /\ SideOf(new, d) = SideOf(ep, d)
  PROVE  Reach(u, new)
<1> SUFFICES ASSUME NEW d \in Endpoints, NEW q \in Procs, InQueue(new, d, q)
             PROVE  Reaching(u[q], d, SideOf(new, d)) # {}
  BY DEF Reach
<1>1. InQueue(ep, d, q) /\ q # p /\ SideOf(new, d) = SideOf(ep, d)
  OBVIOUS
<1>2. Reaching(t[q], d, SideOf(ep, d)) # {}
  BY <1>1 DEF Reach
<1> QED BY <1>1, <1>2 DEF KeptBut

\* Taking the head waiter changes one queue and nothing else.
LEMMA DequeueKeeps ==
  ASSUME TypeOK, NEW e \in Endpoints, eps[e].queue # <<>>, NEW d \in Endpoints
  PROVE  /\ Dequeue(e)[d].senders = eps[d].senders
         /\ Dequeue(e)[d].receivers = eps[d].receivers
         /\ Dequeue(e)[d].in_use = eps[d].in_use
         /\ Dequeue(e)[d].are_senders = eps[d].are_senders
         /\ Dequeue(e)[d].queue # <<>> => eps[d].queue # <<>>
<1>1. DOMAIN eps = Endpoints /\ eps[d] \in EndpointRecords
  BY DEF TypeOK
<1>2. CASE d = e
  BY <1>1, <1>2 DEF Dequeue, EndpointRecords
<1>3. CASE d # e
  BY <1>1, <1>3 DEF Dequeue
<1> QED BY <1>2, <1>3

\* Joining a queue changes that queue, and its side if it was empty.
LEMMA EnqueueKeeps ==
  ASSUME TypeOK, NEW e \in Endpoints, NEW p \in Procs, NEW side \in BOOLEAN,
         NEW d \in Endpoints
  PROVE  /\ Enqueue(e, p, side)[d].senders = eps[d].senders
         /\ Enqueue(e, p, side)[d].receivers = eps[d].receivers
         /\ Enqueue(e, p, side)[d].in_use = eps[d].in_use
         /\ Enqueue(e, p, side)[d].are_senders = IF d = e THEN side ELSE eps[d].are_senders
         /\ d # e => Enqueue(e, p, side)[d] = eps[d]
<1>1. DOMAIN eps = Endpoints /\ eps[d] \in EndpointRecords
  BY DEF TypeOK
<1>2. CASE d = e
  BY <1>1, <1>2 DEF Enqueue, EndpointRecords
<1>3. CASE d # e
  BY <1>1, <1>3 DEF Enqueue
<1> QED BY <1>2, <1>3

\* Nobody waits in an empty queue.
LEMMA EmptyQueue ==
  ASSUME NEW ep, NEW e, ep[e].queue = <<>>, NEW q
  PROVE  ~InQueue(ep, e, q)
<1>1. Len(ep[e].queue) = 0
  OBVIOUS
<1> QED BY <1>1 DEF InQueue

\* What n senders and m receivers leave behind when they go.
LEMMA DroppedCounts ==
  ASSUME NEW ep \in EndpointRecords, NEW n \in Nat, NEW m \in Nat,
         n <= ep.senders, m <= ep.receivers,
         ep.in_use <=> ep.senders > 0 \/ ep.receivers > 0,
         ep.queue # <<>> => ep.senders - n > 0 \/ ep.receivers - m > 0,
         NEW new, new = Dropped(ep, n, m)
  PROVE  /\ new.senders = ep.senders - n /\ new.receivers = ep.receivers - m
         /\ new.in_use <=> new.senders > 0 \/ new.receivers > 0
         /\ ep.senders - n > 0 \/ ep.receivers - m > 0 => new.are_senders = ep.are_senders
<1> DEFINE left == [ep EXCEPT !.senders = SaturatingSub(@, n),
                              !.receivers = SaturatingSub(@, m)]
<1>1. /\ ep.senders \in Nat /\ ep.receivers \in Nat
      /\ SaturatingSub(ep.senders, n) = ep.senders - n
      /\ SaturatingSub(ep.receivers, m) = ep.receivers - m
  BY DEF EndpointRecords, SaturatingSub
<1>2. /\ left.senders = ep.senders - n /\ left.receivers = ep.receivers - m
      /\ left.in_use = ep.in_use /\ left.queue = ep.queue /\ left.are_senders = ep.are_senders
  BY <1>1 DEF EndpointRecords
<1>3. new = IF left.senders = 0 /\ left.receivers = 0 /\ left.queue = <<>>
            THEN EmptyEndpoint ELSE left
  BY DEF Dropped
<1> HIDE DEF left
<1>4. CASE left.senders = 0 /\ left.receivers = 0 /\ left.queue = <<>>
  <2>1. new = EmptyEndpoint
    BY <1>3, <1>4
  <2>2. new.senders = 0 /\ new.receivers = 0 /\ new.in_use = FALSE
    BY <2>1 DEF EmptyEndpoint
  <2> QED BY <1>1, <1>2, <1>4, <2>2
<1>5. CASE ~(left.senders = 0 /\ left.receivers = 0 /\ left.queue = <<>>)
  <2>1. new = left
    BY <1>3, <1>5
  <2>2. left.senders > 0 \/ left.receivers > 0
    BY <1>1, <1>2, <1>5
  <2> QED BY <1>1, <1>2, <2>1, <2>2
<1> QED BY <1>4, <1>5

----------------------------------------------------------------------------
(* Every action keeps the invariant.                                       *)

\* A running process blocks on an endpoint it can reach, whose other side lives.
LEMMA BlocksInv4 ==
  ASSUME Inv4, Inv3', NEW p \in Procs, state[p] = "Ready", NEW e \in Endpoints,
         NEW side \in BOOLEAN, eps' = Enqueue(e, p, side), caps' = caps,
         ~Waiting(e, ~side), (IF side THEN eps[e].receivers ELSE eps[e].senders) # 0,
         Reaching(caps[p], e, IF side THEN "SEND" ELSE "RECV") # {}
  PROVE  Inv4'
<1>1. TypeOK /\ state \in [Procs -> {"Empty", "Ready", "Blocked"}]
  BY Inv3Types DEF Inv4, Inv3
<1>2. /\ \A d \in Endpoints : \A q : InQueue(eps', d, q) => InQueue(eps, d, q) \/ (d = e /\ q = p)
      /\ \A d \in Endpoints : ~InQueue(eps, d, p)
  BY <1>1, EnqueueFacts DEF Inv4, Inv3
<1>3. \A d \in Endpoints : /\ eps'[d].senders = eps[d].senders
                           /\ eps'[d].receivers = eps[d].receivers
                           /\ eps'[d].in_use = eps[d].in_use
                           /\ eps'[d].are_senders = IF d = e THEN side ELSE eps[d].are_senders
                           /\ d # e => eps'[d] = eps[d]
  BY <1>1, EnqueueKeeps
<1>4. Counted(caps', eps')
  BY <1>3 DEF Inv4, Counted
<1>5. eps[e].queue # <<>> => eps[e].are_senders = side
  BY <1>1 DEF Waiting, TypeOK, EndpointRecords
<1>6. Reach(caps', eps')
  <2> SUFFICES ASSUME NEW d \in Endpoints, NEW q \in Procs, InQueue(eps', d, q)
               PROVE  Reaching(caps[q], d, SideOf(eps', d)) # {}
    BY DEF Reach
  <2>1. CASE d = e /\ q = p
    BY <1>3, <2>1 DEF SideOf
  <2>2. CASE ~(d = e /\ q = p)
    <3>1. InQueue(eps, d, q)
      BY <1>2, <2>2
    <3>2. Reaching(caps[q], d, SideOf(eps, d)) # {}
      BY <3>1 DEF Inv4, Reach
    <3>3. eps[d].queue # <<>>
      BY <3>1, EmptyQueue
    <3>4. SideOf(eps', d) = SideOf(eps, d)
      BY <1>3, <1>5, <3>3 DEF SideOf
    <3> QED BY <3>2, <3>4
  <2> QED BY <2>1, <2>2
<1>7. Peered(eps')
  <2> SUFFICES ASSUME "Endpoint" \notin ReleaseKinds, NEW d \in Endpoints, eps'[d].queue # <<>>
               PROVE  PeersOf(eps', d) > 0
    BY DEF Peered
  <2>1. CASE d = e
    <3>1. eps[e].senders \in Nat /\ eps[e].receivers \in Nat
      BY <1>1 DEF TypeOK, EndpointRecords
    <3> QED BY <1>3, <2>1, <3>1 DEF PeersOf
  <2>2. CASE d # e
    BY <1>3, <2>2 DEF Inv4, Peered, PeersOf
  <2> QED BY <2>1, <2>2
<1> QED BY <1>4, <1>6, <1>7, Inv4Next

\* The head waiter leaves, and what moves does not count or moves whole.
LEMMA MeetsInv4 ==
  ASSUME Inv4, Inv3', NEW e \in Endpoints, eps[e].queue # <<>>, eps' = Dequeue(e),
         NEW p \in Procs, p = Head(eps[e].queue) \/ state[p] = "Ready",
         SameCounts(caps, caps'), KeptBut(caps, caps', p)
  PROVE  Inv4'
<1>1. TypeOK
  BY Inv3Types DEF Inv4, Inv3
<1>2. /\ \A d \in Endpoints : ~InQueue(eps', d, Head(eps[e].queue))
      /\ \A d \in Endpoints : \A q : InQueue(eps', d, q) => InQueue(eps, d, q)
  BY <1>1, DequeueFacts DEF Inv4, Inv3
<1>3. \A d \in Endpoints : /\ eps'[d].senders = eps[d].senders
                           /\ eps'[d].receivers = eps[d].receivers
                           /\ eps'[d].in_use = eps[d].in_use
                           /\ eps'[d].are_senders = eps[d].are_senders
                           /\ eps'[d].queue # <<>> => eps[d].queue # <<>>
  BY <1>1, DequeueKeeps
<1>4. Counted(caps', eps')
  BY <1>3, SameCounted DEF Inv4
<1>5. ASSUME NEW d \in Endpoints, NEW q \in Procs, InQueue(eps', d, q)
      PROVE  InQueue(eps, d, q) /\ q # p /\ SideOf(eps', d) = SideOf(eps, d)
  <2>1. InQueue(eps, d, q) /\ q # Head(eps[e].queue)
    BY <1>2, <1>5
  <2>2. state[q] # "Ready"
    BY <2>1 DEF Inv4, Inv3, Once, InQueue
  <2> QED BY <1>3, <2>1, <2>2 DEF SideOf
<1>6. Reach(caps', eps')
  BY <1>5, FewerReach DEF Inv4
<1>7. Peered(eps')
  BY <1>3 DEF Inv4, Peered, PeersOf
<1> QED BY <1>4, <1>6, <1>7, Inv4Next

\* The endpoints are left alone by a process that is not in a queue.
LEMMA QuietInv4 ==
  ASSUME Inv4, Inv3', eps' = eps, NEW p \in Procs, state[p] = "Ready",
         SameCounts(caps, caps'), KeptBut(caps, caps', p)
  PROVE  Inv4'
<1>1. Counted(caps', eps')
  BY SameCounted DEF Inv4
<1>2. \A d \in Endpoints, q \in Procs : InQueue(eps, d, q) => q # p
  BY DEF Inv4, Inv3, Once, InQueue
<1>3. Reach(caps', eps')
  BY <1>2, FewerReach DEF Inv4
<1> QED BY <1>1, <1>3, Inv4Next DEF Inv4

\* The IPC gate.
LEMMA GateInv4 ==
  ASSUME Inv4, NEW p \in Procs, Send(p) \/ Recv(p) \/ Call(p) \/ Reply(p)
  PROVE  Inv4'
<1>1. /\ caps \in AllTables /\ TypeOK /\ Inv3' /\ state[p] = "Ready"
  BY Inv3Types, GateInv3 DEF Inv4, Inv3, Send, Recv, Call, Reply, CanCall
<1>2. ASSUME NEW e \in Endpoints, eps[e].queue # <<>>
      PROVE  Head(eps[e].queue) \in Procs /\ state[Head(eps[e].queue)] = "Blocked"
  BY <1>1, <1>2, HeadLeaves DEF Inv4, Inv3
<1>3. ASSUME NEW s \in Slots, NEW c \in Slots \cup {None}, SendRendezvous(p, s, c)
      PROVE  Inv4'
  <2>1. PICK e \in Endpoints :
          /\ eps[e].queue # <<>>
          /\ Deliver(p, c, Head(eps[e].queue))
          /\ eps' = Dequeue(e)
    BY <1>3 DEF SendRendezvous, Waiting
  <2>2. SameCounts(caps, caps') /\ KeptBut(caps, caps', p)
    BY <1>1, <1>2, <2>1, DeliverCounts
  <2> QED BY <1>1, <2>1, <2>2, MeetsInv4
<1>4. ASSUME NEW s \in Slots, NEW c \in Slots \cup {None}, SendBlocks(p, s, c)
      PROVE  Inv4'
  <2>1. PICK e \in Endpoints :
          /\ EndpointFor(p, s, e, "SEND") /\ ~Waiting(e, FALSE) /\ eps[e].receivers # 0
          /\ eps' = Enqueue(e, p, TRUE) /\ caps' = caps
    BY <1>4 DEF SendBlocks
  <2>2. ~Waiting(e, ~TRUE) /\ Reaching(caps[p], e, "SEND") # {}
    BY <2>1 DEF EndpointFor, Waiting
  <2> QED BY <1>1, <2>1, <2>2, BlocksInv4
<1>5. ASSUME NEW e \in Endpoints, RecvCall(p, e) PROVE Inv4'
  <2>1. eps[e].queue # <<>> /\ MintReply(p, Head(eps[e].queue)) /\ eps' = Dequeue(e)
    BY <1>5 DEF RecvCall, Waiting
  <2>2. SameCounts(caps, caps') /\ KeptBut(caps, caps', p)
    BY <1>1, <1>2, <2>1, MintCounts
  <2> QED BY <1>1, <2>1, <2>2, MeetsInv4
<1>6. ASSUME NEW e \in Endpoints, RecvSend(p, e) PROVE Inv4'
  <2>1. /\ eps[e].queue # <<>> /\ eps' = Dequeue(e)
        /\ Deliver(Head(eps[e].queue), pending[Head(eps[e].queue)].cap, p)
    BY <1>6 DEF RecvSend, Waiting
  <2>2. pending[Head(eps[e].queue)].cap \in Slots \cup {None}
    BY <1>1, <1>2, <2>1 DEF TypeOK, PendingRecords
  <2>3. SameCounts(caps, caps') /\ KeptBut(caps, caps', Head(eps[e].queue))
    BY <1>1, <1>2, <2>1, <2>2, DeliverCounts
  <2> QED BY <1>1, <1>2, <2>1, <2>3, MeetsInv4
<1>7. ASSUME NEW e \in Endpoints, RecvPeerDied(p, e) PROVE Inv4'
  BY <1>1, <1>7, Inv4Next DEF RecvPeerDied, Inv4
<1>8. ASSUME NEW e \in Endpoints, NEW s \in Slots, EndpointFor(p, s, e, "RECV"), RecvBlocks(p, e)
      PROVE  Inv4'
  <2>1. /\ ~Waiting(e, TRUE) /\ eps[e].senders # 0
        /\ eps' = Enqueue(e, p, FALSE) /\ caps' = caps
    BY <1>8 DEF RecvBlocks
  <2>2. ~Waiting(e, ~FALSE) /\ Reaching(caps[p], e, "RECV") # {}
    BY <1>8, <2>1 DEF EndpointFor, Waiting
  <2> QED BY <1>1, <2>1, <2>2, BlocksInv4
<1>9. ASSUME NEW e \in Endpoints, CallRendezvous(p, e) PROVE Inv4'
  <2>1. eps[e].queue # <<>> /\ MintReply(Head(eps[e].queue), p) /\ eps' = Dequeue(e)
    BY <1>9 DEF CallRendezvous, Waiting
  <2>2. SameCounts(caps, caps') /\ KeptBut(caps, caps', p)
    BY <1>1, <1>2, <2>1, MintCounts
  <2> QED BY <1>1, <2>1, <2>2, MeetsInv4
<1>10. ASSUME NEW e \in Endpoints, NEW s \in Slots, EndpointFor(p, s, e, "SEND"), CallBlocks(p, e)
       PROVE  Inv4'
  <2>1. /\ ~Waiting(e, FALSE) /\ eps[e].receivers # 0
        /\ eps' = Enqueue(e, p, TRUE) /\ caps' = caps
    BY <1>10 DEF CallBlocks
  <2>2. ~Waiting(e, ~TRUE) /\ Reaching(caps[p], e, "SEND") # {}
    BY <1>10, <2>1 DEF EndpointFor, Waiting
  <2> QED BY <1>1, <2>1, <2>2, BlocksInv4
<1>11. ASSUME Reply(p) PROVE Inv4'
  <2>1. PICK s \in Slots :
          /\ At(caps, p, s) # None /\ At(caps, p, s).kind = "Reply"
          /\ caps' = [caps EXCEPT ![p] = Revoke(@, s)] /\ eps' = eps
    BY <1>11 DEF Reply, Holds, At, CapAt
  <2>2. DropsOne(caps, caps', p, s)
    BY <1>1, <2>1, RevokeCells
  <2>3. SameCounts(caps, caps') /\ KeptBut(caps, caps', p)
    BY <1>1, <2>1, <2>2, DropCounts
  <2> QED BY <1>1, <2>1, <2>3, QuietInv4
<1>12. ASSUME Send(p) PROVE Inv4'
  BY <1>3, <1>4, <1>12 DEF Send
<1>13. ASSUME Recv(p) PROVE Inv4'
  BY <1>5, <1>6, <1>7, <1>8, <1>13 DEF Recv
<1>14. ASSUME Call(p) PROVE Inv4'
  BY <1>9, <1>10, <1>14 DEF Call
<1> QED BY <1>11, <1>12, <1>13, <1>14

\* A waiter in a queue that is not empty, and the count its capability adds.
LEMMA WaiterCounts ==
  ASSUME NEW ep \in [Endpoints -> EndpointRecords], NEW e \in Endpoints, ep[e].queue # <<>>
  PROVE  \E q \in Procs : InQueue(ep, e, q)
<1>1. ep[e].queue \in Seq(Procs)
  BY DEF EndpointRecords
<1>2. 1 \in 1 .. Len(ep[e].queue) /\ ep[e].queue[1] \in Procs
  BY <1>1
<1> QED BY <1>2 DEF InQueue

\* A process that reaches an endpoint is counted there.
LEMMA ReachingCounts ==
  ASSUME NEW t, NEW w \in Procs, NEW e, NEW right
  PROVE  /\ Reaching(t[w], e, right) # {} => Count(t, e, right) > 0
         /\ Count(t, e, right) \in Nat
<1>1. /\ IsFiniteSet(Referents(t, e, right)) /\ Count(t, e, right) \in Nat
      /\ \A p \in Procs, s \in Slots :
           <<p, s>> \in Referents(t, e, right) <=> Reaches(At(t, p, s), e, right)
      /\ \A p \in Procs, s \in Slots :
           s \in Reaching(t[p], e, right) <=> Reaches(At(t, p, s), e, right)
  BY ReferentsAt DEF Count
<1>2. ASSUME Reaching(t[w], e, right) # {} PROVE Count(t, e, right) > 0
  <2>1. PICK s \in Slots : s \in Reaching(t[w], e, right)
    BY <1>2 DEF Reaching
  <2>2. Referents(t, e, right) # {}
    BY <1>1, <2>1
  <2>3. Count(t, e, right) # 0
    BY <1>1, <2>2, FS_EmptySet DEF Count
  <2> QED BY <1>1, <2>3
<1> QED BY <1>1, <1>2

\* Voluntary release of an endpoint capability: the other holders keep theirs.
LEMMA ReleaseEndpointInv4 ==
  ASSUME Inv4, Inv3', NEW p \in Procs, state[p] = "Ready", NEW s \in Slots,
         NEW cap, cap = CapAt(p, s), cap # None, cap.kind = "Endpoint",
         "Endpoint" \in ReleaseKinds,
         caps' = [caps EXCEPT ![p] = Revoke(@, s)],
         eps' = [eps EXCEPT ![cap.id] = Dropped(@, Has(cap, "SEND"), Has(cap, "RECV"))]
  PROVE  Inv4'
<1> DEFINE e == cap.id
<1>1. /\ caps \in AllTables /\ TypeOK /\ cap = At(caps, p, s)
      /\ eps \in [Endpoints -> EndpointRecords] /\ eps' \in [Endpoints -> EndpointRecords]
  BY Inv3Types DEF Inv4, Inv3, Inv1, TypeOK, At, CapAt
<1>2. cap \in Caps /\ e \in Endpoints
  BY <1>1, AtType DEF Caps, Ids
<1>3. DropsOne(caps, caps', p, s)
  BY <1>1, RevokeCells
<1>4. KeptBut(caps, caps', p)
  BY <1>1, <1>3, DropCounts
<1>5. ASSUME NEW right
      PROVE  /\ Has(cap, right) \in Nat
             /\ Count(caps', e, right) \in Nat
             /\ Count(caps, e, right) = Count(caps', e, right) + Has(cap, right)
             /\ \A d : d # e => Count(caps', d, right) = Count(caps, d, right)
  <2>1. Has(cap, right) \in Nat /\ Has(cap, right) = Counts(At(caps, p, s), e, right)
    BY <1>1 DEF Counts, Reaches, Has
  <2>2. ASSUME NEW d, d # e PROVE Count(caps', d, right) = Count(caps, d, right)
    <3>1. 0 = Counts(At(caps, p, s), d, right)
      BY <1>1, <2>2 DEF Counts, Reaches
    <3>2. Count(caps', d, right) \in Nat /\ Count(caps, d, right) = Count(caps', d, right) + 0
      BY ONLY p \in Procs, s \in Slots, <1>1, <1>3, <3>1, DropCount
    <3> QED BY ONLY <3>2
  <2>3. Count(caps', e, right) \in Nat /\ Count(caps, e, right) = Count(caps', e, right) + Has(cap, right)
    BY ONLY p \in Procs, s \in Slots, <1>1, <1>3, <2>1, DropCount
  <2> QED BY <2>1, <2>2, <2>3
<1> HIDE DEF e
<1>6. \A d \in Endpoints, q \in Procs : InQueue(eps, d, q) =>
        q # p /\ Reaching(caps'[q], d, SideOf(eps, d)) # {}
  <2> SUFFICES ASSUME NEW d \in Endpoints, NEW q \in Procs, InQueue(eps, d, q)
               PROVE  q # p /\ Reaching(caps'[q], d, SideOf(eps, d)) # {}
    OBVIOUS
  <2>1. q # p
    BY DEF Inv4, Inv3, Once, InQueue
  <2>2. Reaching(caps[q], d, SideOf(eps, d)) # {}
    BY DEF Inv4, Reach
  <2> QED BY <1>4, <2>1, <2>2 DEF KeptBut
<1>7. eps[e].queue # <<>> => Count(caps', e, "SEND") > 0 \/ Count(caps', e, "RECV") > 0
  <2> SUFFICES ASSUME eps[e].queue # <<>>
               PROVE  Count(caps', e, "SEND") > 0 \/ Count(caps', e, "RECV") > 0
    OBVIOUS
  <2>1. PICK q \in Procs : InQueue(eps, e, q)
    BY <1>1, <1>2, WaiterCounts
  <2>2. Count(caps', e, SideOf(eps, e)) > 0
    BY <1>2, <1>6, <2>1, ReachingCounts
  <2> QED BY <2>2 DEF SideOf
<1>8. /\ eps'[e] = Dropped(eps[e], Has(cap, "SEND"), Has(cap, "RECV"))
      /\ \A d \in Endpoints : d # e => eps'[d] = eps[d]
  BY <1>1, <1>2 DEF e
<1>9. /\ eps[e].senders = Count(caps', e, "SEND") + Has(cap, "SEND")
      /\ eps[e].receivers = Count(caps', e, "RECV") + Has(cap, "RECV")
      /\ eps[e].in_use <=> eps[e].senders > 0 \/ eps[e].receivers > 0
      /\ eps[e] \in EndpointRecords
  <2>1. /\ eps[e].senders = Count(caps, e, "SEND") /\ eps[e].receivers = Count(caps, e, "RECV")
        /\ eps[e].in_use <=> eps[e].senders > 0 \/ eps[e].receivers > 0
    BY <1>2 DEF Inv4, Counted
  <2>2. /\ Count(caps, e, "SEND") = Count(caps', e, "SEND") + Has(cap, "SEND")
        /\ Count(caps, e, "RECV") = Count(caps', e, "RECV") + Has(cap, "RECV")
    BY <1>5
  <2> QED BY <1>1, <1>2, <2>1, <2>2
<1>10. /\ eps'[e].senders = Count(caps', e, "SEND") /\ eps'[e].receivers = Count(caps', e, "RECV")
       /\ eps'[e].in_use <=> eps'[e].senders > 0 \/ eps'[e].receivers > 0
       /\ eps[e].queue # <<>> => eps'[e].are_senders = eps[e].are_senders
  <2> DEFINE n == Has(cap, "SEND")
             m == Has(cap, "RECV")
             N == Count(caps', e, "SEND")
             M == Count(caps', e, "RECV")
  <2>1. n \in Nat /\ m \in Nat /\ N \in Nat /\ M \in Nat
    BY <1>5
  <2>2. eps[e].senders = N + n /\ eps[e].receivers = M + m
    BY <1>9
  <2>3. eps[e].queue # <<>> => N > 0 \/ M > 0
    BY <1>7
  <2>4. eps'[e] = Dropped(eps[e], n, m)
    BY <1>8
  <2> HIDE DEF n, m, N, M
  <2>5. /\ n <= eps[e].senders /\ m <= eps[e].receivers
        /\ eps[e].senders - n = N /\ eps[e].receivers - m = M
    BY <2>1, <2>2
  <2>7. /\ eps[e] \in EndpointRecords
        /\ eps[e].in_use <=> eps[e].senders > 0 \/ eps[e].receivers > 0
        /\ eps[e].queue # <<>> => eps[e].senders - n > 0 \/ eps[e].receivers - m > 0
    BY <1>9, <2>3, <2>5
  <2>8. /\ eps'[e].senders = eps[e].senders - n /\ eps'[e].receivers = eps[e].receivers - m
        /\ eps'[e].in_use <=> eps'[e].senders > 0 \/ eps'[e].receivers > 0
        /\ eps[e].senders - n > 0 \/ eps[e].receivers - m > 0 =>
             eps'[e].are_senders = eps[e].are_senders
    BY ONLY <2>1, <2>4, <2>5, <2>7, DroppedCounts
  <2>6. /\ eps'[e].senders = N /\ eps'[e].receivers = M
        /\ eps'[e].in_use <=> eps'[e].senders > 0 \/ eps'[e].receivers > 0
        /\ eps[e].queue # <<>> => eps'[e].are_senders = eps[e].are_senders
    BY <2>5, <2>7, <2>8
  <2> QED BY <2>6 DEF N, M
<1>11. Counted(caps', eps')
  <2> SUFFICES ASSUME NEW d \in Endpoints
               PROVE  /\ eps'[d].senders = Count(caps', d, "SEND")
                      /\ eps'[d].receivers = Count(caps', d, "RECV")
                      /\ eps'[d].in_use <=> eps'[d].senders > 0 \/ eps'[d].receivers > 0
    BY DEF Counted
  <2>1. CASE d = e
    BY <1>10, <2>1
  <2>2. CASE d # e
    <3>1. /\ eps[d].senders = Count(caps, d, "SEND") /\ eps[d].receivers = Count(caps, d, "RECV")
          /\ eps[d].in_use <=> eps[d].senders > 0 \/ eps[d].receivers > 0
      BY DEF Inv4, Counted
    <3>2. /\ Count(caps, d, "SEND") = Count(caps', d, "SEND")
          /\ Count(caps, d, "RECV") = Count(caps', d, "RECV")
      BY <1>5, <2>2
    <3> QED BY <1>8, <2>2, <3>1, <3>2
  <2> QED BY <2>1, <2>2
<1>12. Reach(caps', eps')
  <2> SUFFICES ASSUME NEW d \in Endpoints, NEW q \in Procs, InQueue(eps', d, q)
               PROVE  Reaching(caps'[q], d, SideOf(eps', d)) # {}
    BY DEF Reach
  <2>1. eps'[d].queue = eps[d].queue
    BY <1>1, <1>8, <1>9, DroppedQueue
  <2>2. InQueue(eps, d, q)
    BY <2>1 DEF InQueue
  <2>3. eps[d].queue # <<>>
    BY <2>2, EmptyQueue
  <2>4. SideOf(eps', d) = SideOf(eps, d)
    BY <1>8, <1>10, <2>3 DEF SideOf
  <2> QED BY <1>6, <2>2, <2>4
<1>13. Peered(eps')
  BY DEF Peered
<1> QED BY <1>11, <1>12, <1>13, Inv4Next

\* Memory, the CPU budget and voluntary release.
LEMMA SyscallInv4 ==
  ASSUME Inv4, NEW p \in Procs,
         FrameAlloc(p) \/ FrameMap(p) \/ FbMap(p) \/ CpuCharge(p) \/ CapRelease(p)
  PROVE  Inv4'
<1>1. /\ caps \in AllTables /\ TypeOK /\ Inv3' /\ state[p] = "Ready"
      /\ TablesSafe(caps, state, free)
  BY Inv3Types, SyscallInv3
     DEF Inv4, Inv3, FrameAlloc, FrameMap, FbMap, Map, CpuCharge, CapRelease, CanCall
<1>2. ASSUME FrameAlloc(p) PROVE Inv4'
  <2>1. PICK f \in free :
          /\ caps' = [caps EXCEPT ![p] =
               Put(@, InstallSlot(@), Cap("Frame", f, {"READ", "WRITE", "MAP"}))]
          /\ InstallSlot(caps[p]) # None
          /\ eps' = eps
    BY <1>2 DEF FrameAlloc
  <2> DEFINE cap == Cap("Frame", f, {"READ", "WRITE", "MAP"})
             l   == InstallSlot(caps[p])
  <2>2. cap.kind # "Endpoint"
    BY DEF Cap
  <2>3. l \in Slots /\ AddsOne(caps, caps', p, l, cap)
    <3> HIDE DEF cap
    <3> QED BY <1>1, <2>1, InstallCells DEF cap
  <2> HIDE DEF cap, l
  <2>4. SameCounts(caps, caps') /\ KeptBut(caps, caps', p)
    BY <1>1, <2>2, <2>3, AddCounts
  <2> QED BY <1>1, <2>1, <2>4, QuietInv4
<1>3. ASSUME NEW kind, NEW limit, Map(p, kind, limit) PROVE Inv4'
  <2>1. UNCHANGED <<caps, eps>>
    BY <1>3 DEF Map
  <2> QED BY <1>1, <2>1, Inv4Next DEF Inv4
<1>4. ASSUME CpuCharge(p) PROVE Inv4'
  <2>1. PICK s \in Slots, amount \in 1 .. CpuBudget :
          /\ CapAt(p, s) # None /\ CapAt(p, s).kind = "CpuTime"
          /\ caps' = [caps EXCEPT ![p].slots[s].id = @ - amount]
    BY <1>4 DEF CpuCharge, Holds
  <2>2. eps' = eps
    BY <1>4 DEF CpuCharge
  <2>3. SameCounts(caps, caps') /\ KeptBut(caps, caps', p)
    BY <1>1, <2>1, ChargeCounts
  <2> QED BY <1>1, <2>2, <2>3, QuietInv4
<1>5. ASSUME CapRelease(p) PROVE Inv4'
  <2>1. PICK s \in Slots : /\ CapAt(p, s) # None /\ CapAt(p, s).kind \in ReleaseKinds
                           /\ ReleaseHome(p, s) \/ ReleaseOwn(p, s)
    BY <1>5 DEF CapRelease
  <2>2. CASE ReleaseHome(p, s)
    <3>1. ReleaseAction(CapAt(p, s)) = "ReclaimTo" /\ SendHome(p, s) /\ eps' = eps
      BY <2>2 DEF ReleaseHome
    <3>2. SameCounts(caps, caps') /\ KeptBut(caps, caps', p)
      BY <1>1, <2>1, <3>1, SendHomeCounts DEF TablesSafe
    <3> QED BY <1>1, <3>1, <3>2, QuietInv4
  <2>3. CASE ReleaseOwn(p, s)
    <3>1. CapAt(p, s).kind \in Kinds
      BY <1>1, <2>1, AtType DEF At, CapAt, Caps, CapRecords
    <3>2. ReleaseAction(CapAt(p, s)) = "DropEndpoint" <=> CapAt(p, s).kind = "Endpoint"
      BY <3>1 DEF ReleaseAction, ReclaimableKinds, Kinds
    <3>3. caps' = [caps EXCEPT ![p] = Revoke(@, s)]
      BY <2>3 DEF ReleaseOwn
    <3>4. CASE CapAt(p, s).kind = "Endpoint"
      <4>1. eps' = [eps EXCEPT ![CapAt(p, s).id] =
                      Dropped(@, Has(CapAt(p, s), "SEND"), Has(CapAt(p, s), "RECV"))]
        BY <2>3, <3>2, <3>4 DEF ReleaseOwn
      <4> QED BY <1>1, <2>1, <3>3, <3>4, <4>1, ReleaseEndpointInv4
    <3>5. CASE CapAt(p, s).kind # "Endpoint"
      <4>1. eps' = eps
        BY <2>3, <3>2, <3>5 DEF ReleaseOwn
      <4>2. DropsOne(caps, caps', p, s)
        BY <1>1, <2>1, <3>3, RevokeCells DEF At, CapAt
      <4>3. SameCounts(caps, caps') /\ KeptBut(caps, caps', p)
        BY <1>1, <3>5, <4>2, DropCounts DEF At, CapAt
      <4> QED BY <1>1, <4>1, <4>3, QuietInv4
    <3> QED BY <3>4, <3>5
  <2> QED BY <2>1, <2>2, <2>3
<1> QED BY <1>2, <1>3, <1>4, <1>5 DEF FrameMap, FbMap

\* What a spawn counts: the child's result channel and the parent's handle.
LEMMA SpawnCounts ==
  ASSUME NEW t \in AllTables, NEW u, NEW p \in Procs, NEW q \in Procs,
         NEW c \in Slots \cup {None}, NEW e \in Endpoints, NEW given, NEW handle,
         given # None => c \in Slots,
         SpawnsFrom(t, u, p, c, q, e, given, handle)
  PROVE  /\ KeptBut(t, u, p)
         /\ \A d, right : Count(u, d, right) =
              Count(t, d, right) + Counts(Result(e), d, right)
                + (IF handle = None THEN 0 ELSE Counts(Handle(e), d, right))
<1>1. PICK t1, t2, t3 \in AllTables :
        /\ IF given # None THEN MovesOne(t, t1, p, c, q, 2) ELSE t1 = t
        /\ AddsOne(t1, t2, q, 0, Budget)
        /\ AddsOne(t2, t3, q, 1, Result(e))
        /\ IF handle = None THEN u = t3
           ELSE handle \in Slots /\ AddsOne(t3, u, p, handle, Handle(e))
  BY DEF SpawnsFrom
<1>2. 0 \in Slots /\ 1 \in Slots /\ 2 \in Slots
  BY SizeAssumption DEF Slots
<1>3. SameCounts(t, t1) /\ KeptBut(t, t1, p)
  <2>1. CASE given # None
    BY <1>1, <1>2, <2>1, MoveCounts
  <2>2. CASE given = None
    BY <1>1, <2>2 DEF SameCounts, KeptBut
  <2> QED BY <2>1, <2>2
<1>4. SameCounts(t1, t2) /\ KeptBut(t1, t2, p)
  <2>1. Budget.kind # "Endpoint"
    BY DEF Budget, Cap
  <2> QED BY <1>1, <1>2, <2>1, AddCounts
<1>5. KeptBut(t2, t3, p)
  BY <1>1, <1>2, AddCounts
<1>6. KeptBut(t3, u, p)
  <2>1. CASE handle = None
    BY <1>1, <2>1 DEF KeptBut
  <2>2. CASE handle # None
    BY <1>1, <2>2, AddCounts
  <2> QED BY <2>1, <2>2
<1>7. KeptBut(t, u, p)
  BY <1>3, <1>4, <1>5, <1>6 DEF KeptBut
<1>8. ASSUME NEW d, NEW right
      PROVE  Count(u, d, right) = Count(t, d, right) + Counts(Result(e), d, right)
                + (IF handle = None THEN 0 ELSE Counts(Handle(e), d, right))
  <2>1. Count(t2, d, right) = Count(t, d, right)
    BY <1>3, <1>4 DEF SameCounts
  <2>2. Count(t3, d, right) = Count(t2, d, right) + Counts(Result(e), d, right)
    BY <1>1, <1>2, AddsCount DEF Count
  <2>3. CASE handle = None
    <3>1. Count(t, d, right) \in Nat /\ Counts(Result(e), d, right) \in Nat
      BY ReachingCounts DEF Counts
    <3> QED BY <1>1, <2>1, <2>2, <2>3, <3>1
  <2>4. CASE handle # None
    <3>1. Count(u, d, right) = Count(t3, d, right) + Counts(Handle(e), d, right)
      BY <1>1, <2>4, AddsCount DEF Count
    <3> QED BY <2>1, <2>2, <2>4, <3>1
  <2> QED BY <2>3, <2>4
<1> QED BY <1>7, <1>8

\* Spawn: the new endpoint has the two capabilities that were minted for it.
LEMMA SpawnInv4 ==
  ASSUME Inv4, NEW p \in Procs, Spawn(p)
  PROVE  Inv4'
<1>1. /\ caps \in AllTables /\ TypeOK /\ state[p] = "Ready" /\ Inv3'
      /\ TablesSafe(caps, state, free)
  BY Inv3Types, SpawnInv3 DEF Inv4, Inv3, Spawn, CanCall
<1>2. ASSUME NEW c \in Slots \cup {None}, SpawnFails(p, c) PROVE Inv4'
  <2>1. PICK l \in Slots : MovesOne(caps, caps', p, c, p, l) /\ c \in Slots
    BY <1>1, <1>2, SpawnFailsCells
  <2>2. SameCounts(caps, caps') /\ KeptBut(caps, caps', p)
    BY <1>1, <2>1, MoveCounts
  <2>3. eps' = eps
    BY <1>2 DEF SpawnFails
  <2> QED BY <1>1, <2>2, <2>3, QuietInv4
<1>3. ASSUME NEW c \in Slots \cup {None}, SpawnChild(p, c) PROVE Inv4'
  <2>0. PICK e \in Endpoints, q \in Procs : \E given, handle :
          ChildStarts(p, c, e, q, given, handle)
    BY <1>1, <1>3, SpawnChildShape
  <2>1. PICK given, handle :
          /\ FirstFreeEndpoint(e) /\ state[q] = "Empty"
          /\ given # None => c \in Slots
          /\ SpawnsFrom(caps, caps', p, c, q, e, given, handle)
          /\ eps' = [eps EXCEPT ![e] =
               [EmptyEndpoint EXCEPT !.in_use = TRUE, !.senders = 1,
                  !.receivers = IF handle = None THEN 0 ELSE 1]]
          /\ state' = [state EXCEPT ![q] = "Ready"]
          /\ UNCHANGED <<pending, landing, free, exiting>>
    BY <2>0 DEF ChildStarts
  <2>2. /\ KeptBut(caps, caps', p)
        /\ \A d, right : Count(caps', d, right) =
             Count(caps, d, right) + Counts(Result(e), d, right)
               + (IF handle = None THEN 0 ELSE Counts(Handle(e), d, right))
    BY <1>1, <2>1, SpawnCounts
  <2>3. /\ eps'[e].in_use = TRUE /\ eps'[e].senders = 1 /\ eps'[e].queue = <<>>
        /\ eps'[e].receivers = IF handle = None THEN 0 ELSE 1
        /\ \A d \in Endpoints : d # e => eps'[d] = eps[d]
    BY <1>1, <2>1 DEF TypeOK, EmptyEndpoint
  <2>4. /\ Counts(Result(e), e, "SEND") = 1 /\ Counts(Result(e), e, "RECV") = 0
        /\ Counts(Handle(e), e, "SEND") = 0 /\ Counts(Handle(e), e, "RECV") = 1
        /\ \A d, right : d # e => Counts(Result(e), d, right) = 0
        /\ \A d, right : d # e => Counts(Handle(e), d, right) = 0
    <3>1. /\ Result(e) # None /\ Result(e).kind = "Endpoint" /\ Result(e).id = e
          /\ Result(e).rights = {"SEND"}
          /\ Handle(e) # None /\ Handle(e).kind = "Endpoint" /\ Handle(e).id = e
          /\ Handle(e).rights = {"RECV"}
      <4>1. e \in Nat \cap Ids("Endpoint")
        BY SizeAssumption DEF Endpoints, Ids
      <4>2. Result(e) \in Caps /\ Handle(e) \in Caps
        BY <4>1, CapType DEF Result, Handle, Kinds, Rights
      <4> QED BY <4>2, NoneAssumption DEF Result, Handle, Cap, Caps
    <3> QED BY <3>1 DEF Counts, Reaches
  <2>5. Count(caps, e, "SEND") = 0 /\ Count(caps, e, "RECV") = 0
    <3>1. ~eps[e].in_use
      BY <2>1 DEF FirstFreeEndpoint
    <3>2. Count(caps, e, "SEND") \in Nat /\ Count(caps, e, "RECV") \in Nat
      BY ReachingCounts
    <3>3. ~(Count(caps, e, "SEND") > 0) /\ ~(Count(caps, e, "RECV") > 0)
      BY <3>1 DEF Inv4, Counted
    <3> QED BY <3>2, <3>3
  <2>6. Counted(caps', eps')
    <3> SUFFICES ASSUME NEW d \in Endpoints
                 PROVE  /\ eps'[d].senders = Count(caps', d, "SEND")
                        /\ eps'[d].receivers = Count(caps', d, "RECV")
                        /\ eps'[d].in_use <=> eps'[d].senders > 0 \/ eps'[d].receivers > 0
      BY DEF Counted
    <3>1. CASE d = e
      BY <2>2, <2>3, <2>4, <2>5, <3>1
    <3>2. CASE d # e
      <4>1. Count(caps, d, "SEND") \in Nat /\ Count(caps, d, "RECV") \in Nat
        BY ReachingCounts
      <4>2. /\ Count(caps', d, "SEND") = Count(caps, d, "SEND")
            /\ Count(caps', d, "RECV") = Count(caps, d, "RECV")
        BY <2>2, <2>4, <3>2, <4>1
      <4> QED BY <2>3, <3>2, <4>2 DEF Inv4, Counted
    <3> QED BY <3>1, <3>2
  <2>7. ASSUME NEW d \in Endpoints, NEW w \in Procs, InQueue(eps', d, w)
        PROVE  InQueue(eps, d, w) /\ w # p /\ SideOf(eps', d) = SideOf(eps, d)
    <3>1. d # e
      BY <2>3, <2>7, EmptyQueue
    <3>2. InQueue(eps, d, w) /\ SideOf(eps', d) = SideOf(eps, d)
      BY <2>3, <2>7, <3>1 DEF InQueue, SideOf
    <3>3. w # p
      BY <1>1, <3>2 DEF Inv4, Inv3, Once, InQueue
    <3> QED BY <3>2, <3>3
  <2>8. Reach(caps', eps')
    BY <2>2, <2>7, FewerReach DEF Inv4
  <2>9. Peered(eps')
    BY <2>3 DEF Inv4, Peered, PeersOf
  <2> QED BY <1>1, <2>6, <2>8, <2>9, Inv4Next
<1> QED BY <1>2, <1>3 DEF Spawn

\* What the death of p leaves of an endpoint, when N senders and M receivers
\* are held by others.
LEMMA AfterCounts ==
  ASSUME TypeOK, NEW p \in Procs, NEW e \in Endpoints, NEW N \in Nat, NEW M \in Nat,
         NEW n, n = Cardinality(Reaching(caps[p], e, "SEND")), n \in Nat,
         NEW m, m = Cardinality(Reaching(caps[p], e, "RECV")), m \in Nat,
         eps[e].senders = N + n, eps[e].receivers = M + m,
         eps[e].in_use <=> eps[e].senders > 0 \/ eps[e].receivers > 0,
         eps[e].queue # <<>> => N > 0 \/ M > 0,
         NEW new, new = EndpointAfter(p, e)
  PROVE  /\ new.senders = N /\ new.receivers = M
         /\ new.in_use <=> new.senders > 0 \/ new.receivers > 0
         /\ new.queue # <<>> => eps[e].queue # <<>> /\ ~DeathStrandsPeers(p, e)
         /\ eps[e].queue # <<>> => new.are_senders = eps[e].are_senders
<1> DEFINE ep == IF DeathStrandsPeers(p, e) THEN [eps[e] EXCEPT !.queue = <<>>] ELSE eps[e]
<1>1. eps[e] \in EndpointRecords
  BY DEF TypeOK
<1>2. [eps[e] EXCEPT !.queue = <<>>] \in EndpointRecords
  <2>1. <<>> \in Seq(Procs)
    OBVIOUS
  <2> QED BY <1>1, <2>1 DEF EndpointRecords
<1>3. /\ ep \in EndpointRecords
      /\ ep.senders = eps[e].senders /\ ep.receivers = eps[e].receivers
      /\ ep.in_use = eps[e].in_use /\ ep.are_senders = eps[e].are_senders
      /\ ep.queue # <<>> => eps[e].queue # <<>>
  BY <1>1, <1>2 DEF EndpointRecords
<1>4. new = IF n + m = 0 THEN ep ELSE Dropped(ep, n, m)
  BY DEF EndpointAfter
<1>5. new.queue = IF DeathStrandsPeers(p, e) THEN <<>> ELSE eps[e].queue
  BY AfterQueue
<1> HIDE DEF ep
<1>6. CASE n + m = 0
  <2>1. n = 0 /\ m = 0 /\ new = ep
    BY <1>4, <1>6
  <2>2. /\ new.senders = eps[e].senders /\ new.receivers = eps[e].receivers
        /\ new.in_use = eps[e].in_use /\ new.are_senders = eps[e].are_senders
    BY ONLY <1>3, <2>1
  <2>3. new.senders = N /\ new.receivers = M
    BY <2>1, <2>2
  <2>4. new.in_use <=> new.senders > 0 \/ new.receivers > 0
    BY <2>2
  <2> QED BY ONLY <1>5, <2>2, <2>3, <2>4
<1>7. CASE n + m # 0
  <2>1. /\ n <= ep.senders /\ m <= ep.receivers
        /\ ep.senders - n = N /\ ep.receivers - m = M
        /\ new = Dropped(ep, n, m)
    BY <1>3, <1>4, <1>7
  <2>2. /\ ep.in_use <=> ep.senders > 0 \/ ep.receivers > 0
        /\ ep.queue # <<>> => ep.senders - n > 0 \/ ep.receivers - m > 0
    BY <1>3, <2>1
  <2>3. /\ new.senders = ep.senders - n /\ new.receivers = ep.receivers - m
        /\ new.in_use <=> new.senders > 0 \/ new.receivers > 0
        /\ ep.senders - n > 0 \/ ep.receivers - m > 0 => new.are_senders = ep.are_senders
    BY ONLY n \in Nat, m \in Nat, <1>3, <2>1, <2>2, DroppedCounts
  <2>4. eps[e].queue # <<>> => new.are_senders = eps[e].are_senders
    BY <1>3, <2>1, <2>3
  <2> QED BY ONLY <1>5, <2>1, <2>3, <2>4
<1> QED BY <1>6, <1>7

\* The counts a death leaves, and the waiters that had no part in it.
LEMMA DeathCounts ==
  ASSUME Inv4, NEW p \in Procs, state[p] = "Ready", Forgets(caps, caps', p),
         NEW e \in Endpoints
  PROVE  /\ Cardinality(Reaching(caps[p], e, "SEND")) \in Nat
         /\ Cardinality(Reaching(caps[p], e, "RECV")) \in Nat
         /\ Count(caps', e, "SEND") \in Nat /\ Count(caps', e, "RECV") \in Nat
         /\ eps[e].senders = Count(caps', e, "SEND") + Cardinality(Reaching(caps[p], e, "SEND"))
         /\ eps[e].receivers = Count(caps', e, "RECV") + Cardinality(Reaching(caps[p], e, "RECV"))
         /\ \A q \in Procs : InQueue(eps, e, q) =>
              q # p /\ Reaching(caps'[q], e, SideOf(eps, e)) # {}
         /\ eps[e].queue # <<>> => Count(caps', e, "SEND") > 0 \/ Count(caps', e, "RECV") > 0
<1>1. caps \in AllTables /\ TypeOK /\ eps \in [Endpoints -> EndpointRecords]
  BY Inv3Types DEF Inv4, Inv3, TypeOK
<1>2. ASSUME NEW right
      PROVE  /\ Cardinality(Reaching(caps[p], e, right)) \in Nat
             /\ Count(caps', e, right) \in Nat
             /\ Count(caps, e, right) = Count(caps', e, right) + Cardinality(Reaching(caps[p], e, right))
  <2>1. IsFiniteSet(Slots)
    BY FS_Interval, SizeAssumption DEF Slots
  <2>2. Reaching(caps[p], e, right) \subseteq Slots
    BY DEF Reaching
  <2>3. Cardinality(Reaching(caps[p], e, right)) \in Nat
    BY <2>1, <2>2, FS_Subset, FS_CardinalityType
  <2>4. Count(caps', e, right) \in Nat
    BY ReachingCounts
  <2> QED BY <1>1, <2>3, <2>4, ForgetsCount DEF Count
<1>3. eps[e].senders = Count(caps, e, "SEND") /\ eps[e].receivers = Count(caps, e, "RECV")
  BY DEF Inv4, Counted
<1>4. ASSUME NEW q \in Procs, InQueue(eps, e, q)
      PROVE  q # p /\ Reaching(caps'[q], e, SideOf(eps, e)) # {}
  <2>1. q # p
    BY <1>4 DEF Inv4, Inv3, Once, InQueue
  <2>2. Reaching(caps[q], e, SideOf(eps, e)) # {}
    BY <1>4 DEF Inv4, Reach
  <2> QED BY <1>1, <2>1, <2>2, ForgetsReaching
<1>5. eps[e].queue # <<>> => Count(caps', e, "SEND") > 0 \/ Count(caps', e, "RECV") > 0
  <2> SUFFICES ASSUME eps[e].queue # <<>>
               PROVE  Count(caps', e, "SEND") > 0 \/ Count(caps', e, "RECV") > 0
    OBVIOUS
  <2>1. PICK q \in Procs : InQueue(eps, e, q)
    BY <1>1, WaiterCounts
  <2>2. Count(caps', e, SideOf(eps, e)) > 0
    BY <1>4, <2>1, ReachingCounts
  <2> QED BY <2>2 DEF SideOf
<1> QED BY <1>2, <1>3, <1>4, <1>5

\* The endpoint a death leaves.
LEMMA DeathLeaves ==
  ASSUME Inv4, NEW p \in Procs, state[p] = "Ready", Forgets(caps, caps', p),
         NEW e \in Endpoints, eps'[e] = EndpointAfter(p, e)
  PROVE  /\ eps'[e].senders = Count(caps', e, "SEND")
         /\ eps'[e].receivers = Count(caps', e, "RECV")
         /\ eps'[e].in_use <=> eps'[e].senders > 0 \/ eps'[e].receivers > 0
         /\ eps'[e].queue # <<>> => eps[e].queue # <<>> /\ ~DeathStrandsPeers(p, e)
         /\ eps[e].queue # <<>> => eps'[e].are_senders = eps[e].are_senders
<1>1. TypeOK /\ (eps[e].in_use <=> eps[e].senders > 0 \/ eps[e].receivers > 0)
  BY Inv3Types DEF Inv4, Inv3, Counted
<1>2. /\ Cardinality(Reaching(caps[p], e, "SEND")) \in Nat
      /\ Cardinality(Reaching(caps[p], e, "RECV")) \in Nat
      /\ Count(caps', e, "SEND") \in Nat /\ Count(caps', e, "RECV") \in Nat
      /\ eps[e].senders = Count(caps', e, "SEND") + Cardinality(Reaching(caps[p], e, "SEND"))
      /\ eps[e].receivers = Count(caps', e, "RECV") + Cardinality(Reaching(caps[p], e, "RECV"))
      /\ eps[e].queue # <<>> => Count(caps', e, "SEND") > 0 \/ Count(caps', e, "RECV") > 0
  BY DeathCounts
<1> DEFINE N == Count(caps', e, "SEND")
           M == Count(caps', e, "RECV")
           n == Cardinality(Reaching(caps[p], e, "SEND"))
           m == Cardinality(Reaching(caps[p], e, "RECV"))
<1>3. /\ n \in Nat /\ m \in Nat /\ N \in Nat /\ M \in Nat
      /\ eps[e].senders = N + n /\ eps[e].receivers = M + m
      /\ eps[e].queue # <<>> => N > 0 \/ M > 0
  BY <1>2
<1>4. n = Cardinality(Reaching(caps[p], e, "SEND")) /\ m = Cardinality(Reaching(caps[p], e, "RECV"))
  OBVIOUS
<1> HIDE DEF N, M, n, m
<1>5. /\ eps'[e].senders = N /\ eps'[e].receivers = M
      /\ eps'[e].in_use <=> eps'[e].senders > 0 \/ eps'[e].receivers > 0
      /\ eps'[e].queue # <<>> => eps[e].queue # <<>> /\ ~DeathStrandsPeers(p, e)
      /\ eps[e].queue # <<>> => eps'[e].are_senders = eps[e].are_senders
  BY ONLY p \in Procs, e \in Endpoints, eps'[e] = EndpointAfter(p, e), <1>1, <1>3, <1>4, AfterCounts
<1> QED BY <1>5 DEF N, M

\* Death, step by step.
LEMMA DeathInv4 ==
  ASSUME Inv4, NEW p \in Procs, Exit(p) \/ ReclaimLentCap(p) \/ FinishExit(p)
  PROVE  Inv4'
<1>1. /\ caps \in AllTables /\ TypeOK /\ Inv3' /\ TablesSafe(caps, state, free)
      /\ eps \in [Endpoints -> EndpointRecords]
  BY Inv3Types, DeathInv3 DEF Inv4, Inv3, TypeOK
<1>2. ASSUME Exit(p) PROVE Inv4'
  BY <1>1, <1>2, Inv4Next DEF Exit, Inv4
<1>3. state[p] = "Ready" \/ Exit(p)
  BY NoneApart DEF Inv4, Inv3, ExitingReady, ReclaimLentCap, FinishExit
<1>4. ASSUME ReclaimLentCap(p), state[p] = "Ready" PROVE Inv4'
  <2>1. PICK s \in BorrowedSlots(caps[p]) : SendHome(p, s)
    BY <1>4 DEF ReclaimLentCap
  <2>2. s \in Slots /\ CapAt(p, s) # None /\ ReleaseAction(CapAt(p, s)) = "ReclaimTo"
    BY DEF BorrowedSlots, CapAt
  <2>3. SameCounts(caps, caps') /\ KeptBut(caps, caps', p)
    BY <1>1, <2>1, <2>2, SendHomeCounts DEF TablesSafe
  <2>4. eps' = eps
    BY <1>4 DEF ReclaimLentCap
  <2> QED BY <1>1, <1>4, <2>3, <2>4, QuietInv4
<1>5. ASSUME FinishExit(p), state[p] = "Ready" PROVE Inv4'
  <2>1. Forgets(caps, caps', p) /\ \A e \in Endpoints : eps'[e] = EndpointAfter(p, e)
    BY <1>1, <1>5, FinishExitCells DEF FinishExit
  <2>2. ASSUME NEW e \in Endpoints
        PROVE  /\ eps'[e].senders = Count(caps', e, "SEND")
               /\ eps'[e].receivers = Count(caps', e, "RECV")
               /\ eps'[e].in_use <=> eps'[e].senders > 0 \/ eps'[e].receivers > 0
               /\ eps'[e].queue # <<>> => eps[e].queue # <<>> /\ ~DeathStrandsPeers(p, e)
               /\ eps[e].queue # <<>> => eps'[e].are_senders = eps[e].are_senders
    BY <1>5, <2>1, DeathLeaves
  <2>3. Counted(caps', eps')
    BY <2>2 DEF Counted
  <2>4. ASSUME NEW e \in Endpoints, NEW q \in Procs, InQueue(eps', e, q)
        PROVE  Reaching(caps'[q], e, SideOf(eps', e)) # {}
    <3>1. eps'[e].queue # <<>>
      BY <2>4, EmptyQueue
    <3>2. ~DeathStrandsPeers(p, e) /\ SideOf(eps', e) = SideOf(eps, e)
      BY <2>2, <3>1 DEF SideOf
    <3>3. eps'[e].queue = eps[e].queue
      BY <1>1, <2>1, <3>2, AfterQueue
    <3>4. InQueue(eps, e, q)
      BY <2>4, <3>3 DEF InQueue
    <3> QED BY <1>5, <2>1, <3>2, <3>4, DeathCounts
  <2>5. Reach(caps', eps')
    BY <2>4 DEF Reach
  <2>6. Peered(eps')
    <3> SUFFICES ASSUME "Endpoint" \notin ReleaseKinds, NEW e \in Endpoints, eps'[e].queue # <<>>
                 PROVE  PeersOf(eps', e) > 0
      BY DEF Peered
    <3>1. /\ eps[e].queue # <<>> /\ ~DeathStrandsPeers(p, e)
          /\ eps'[e].are_senders = eps[e].are_senders
      BY <2>2
    <3>2. PeersOf(eps, e) > 0
      BY <3>1 DEF Inv4, Peered
    <3>3. eps[e].in_use <=> eps[e].senders > 0 \/ eps[e].receivers > 0
      BY DEF Inv4, Counted
    <3>4. /\ Cardinality(Reaching(caps[p], e, "SEND")) \in Nat
          /\ Cardinality(Reaching(caps[p], e, "RECV")) \in Nat
          /\ Count(caps', e, "SEND") \in Nat /\ Count(caps', e, "RECV") \in Nat
          /\ eps[e].senders = Count(caps', e, "SEND") + Cardinality(Reaching(caps[p], e, "SEND"))
          /\ eps[e].receivers = Count(caps', e, "RECV") + Cardinality(Reaching(caps[p], e, "RECV"))
      BY <1>5, <2>1, DeathCounts
    <3>5. CASE eps[e].are_senders
      <4>1. eps[e].receivers > 0 /\ PeersOf(eps', e) = eps'[e].receivers
        BY <3>1, <3>2, <3>5 DEF PeersOf
      <4>2. ~(Cardinality(Reaching(caps[p], e, "RECV")) > 0
                /\ eps[e].receivers <= Cardinality(Reaching(caps[p], e, "RECV")))
        BY <3>1, <3>3, <4>1 DEF DeathStrandsPeers
      <4> QED BY <2>2, <3>4, <4>1, <4>2
    <3>6. CASE ~eps[e].are_senders
      <4>1. eps[e].senders > 0 /\ PeersOf(eps', e) = eps'[e].senders
        BY <3>1, <3>2, <3>6 DEF PeersOf
      <4>2. ~(Cardinality(Reaching(caps[p], e, "SEND")) > 0
                /\ eps[e].senders <= Cardinality(Reaching(caps[p], e, "SEND")))
        BY <3>1, <3>3, <4>1 DEF DeathStrandsPeers
      <4> QED BY <2>2, <3>4, <4>1, <4>2
    <3> QED BY <3>5, <3>6
  <2> QED BY <1>1, <2>3, <2>5, <2>6, Inv4Next
<1> QED BY <1>2, <1>3, <1>4, <1>5

\* The boot state.
LEMMA InitInv4 == Init => Inv4
<1> SUFFICES ASSUME Init PROVE Inv4
  OBVIOUS
<1>1. ASSUME NEW e \in Endpoints
      PROVE  /\ eps[e].queue = <<>>
             /\ eps[e].senders = Count(caps, e, "SEND")
             /\ eps[e].receivers = Count(caps, e, "RECV")
             /\ eps[e].in_use <=> Count(caps, e, "SEND") + Count(caps, e, "RECV") > 0
  <2>1. eps[e] = BootEndpoint(e) /\ caps = [p \in Procs |-> BootTable(p)]
    BY DEF Init
  <2>2. eps[e] = [EmptyEndpoint EXCEPT
                    !.in_use = Count(caps, e, "SEND") + Count(caps, e, "RECV") > 0,
                    !.senders = Count(caps, e, "SEND"), !.receivers = Count(caps, e, "RECV")]
    BY <2>1 DEF BootEndpoint, Count
  <2> QED BY <2>2 DEF EmptyEndpoint
<1>2. Counted(caps, eps)
  <2>1. ASSUME NEW e \in Endpoints
        PROVE  Count(caps, e, "SEND") \in Nat /\ Count(caps, e, "RECV") \in Nat
    BY ReferentsAt DEF Count
  <2> QED BY <1>1, <2>1 DEF Counted
<1>3. Reach(caps, eps)
  BY <1>1, EmptyQueue DEF Reach
<1>4. Peered(eps)
  BY <1>1 DEF Peered
<1> QED BY InitInv3, <1>2, <1>3, <1>4 DEF Inv4

\* The fourth invariant is inductive.
LEMMA Inv4Inductive == Inv4 /\ [Next]_vars => Inv4'
<1> SUFFICES ASSUME Inv4, [Next]_vars PROVE Inv4'
  OBVIOUS
<1>1. CASE UNCHANGED vars
  <2>1. Inv3'
    BY Inv3Inductive DEF Inv4
  <2> QED BY <1>1, <2>1, Inv4Next DEF Inv4, vars
<1>2. CASE Next
  BY <1>2, GateInv4, SyscallInv4, SpawnInv4, DeathInv4 DEF Next
<1> QED BY <1>1, <1>2

----------------------------------------------------------------------------
(* The theorems.                                                           *)

\* The counts that blocking and death decide on are the capabilities there
\* are, an endpoint is in use while one of them names it, and every waiter is
\* Blocked in one place of one queue and still holds its side (ipc.rs,
\* note_cap_installed, note_cap_removed, "a queued waiter always still holds a
\* cap").
THEOREM EndpointsStaySound == Spec => []EndpointsSound
<1>1. Inv4 => EndpointsSound
  <2> SUFFICES ASSUME Inv4 PROVE RefcountExact /\ EndpointLifetime /\ WaitersHoldCaps
    BY DEF EndpointsSound
  <2>1. RefcountExact
    BY DEF Inv4, Counted, Count, RefcountExact
  <2>2. ASSUME NEW e \in Endpoints, eps[e].in_use
        PROVE  \E p \in Procs, s \in Slots : Holds(p, s, "Endpoint") /\ CapAt(p, s).id = e
    <3>1. PICK right \in {"SEND", "RECV"} : Count(caps, e, right) > 0
      BY <2>2 DEF Inv4, Counted
    <3>2. Referents(caps, e, right) # {}
      BY <3>1, FS_EmptySet DEF Count
    <3>3. PICK p \in Procs, s \in Slots : <<p, s>> \in Referents(caps, e, right)
      BY <3>2, ReferentsAt
    <3> QED BY <3>3, ReferentsAt DEF Reaches, Holds, At, CapAt
  <2>3. ASSUME NEW e \in Endpoints, NEW p \in Procs, NEW s \in Slots,
               Holds(p, s, "Endpoint"), CapAt(p, s).id = e
        PROVE  eps[e].in_use
    <3>1. PICK right \in {"SEND", "RECV"} : right \in At(caps, p, s).rights
      BY <2>3 DEF Inv4, Inv3, TablesSafe, Useful, Holds, At, CapAt
    <3>2. Reaching(caps[p], e, right) # {}
      BY <2>3, <3>1 DEF Reaching, Holds, At, CapAt
    <3>3. Count(caps, e, right) > 0
      BY <3>2, ReachingCounts
    <3> QED BY <3>1, <3>3 DEF Inv4, Counted
  <2>4. WaitersHoldCaps
    <3> SUFFICES ASSUME NEW e \in Endpoints, NEW i \in 1 .. Len(eps[e].queue)
                 PROVE  /\ state[eps[e].queue[i]] = "Blocked"
                        /\ Reaching(caps[eps[e].queue[i]], e, Side(e)) # {}
                        /\ \A d \in Endpoints : \A j \in 1 .. Len(eps[d].queue) :
                             eps[d].queue[j] = eps[e].queue[i] => d = e /\ j = i
      BY DEF WaitersHoldCaps
    <3>1. eps[e].queue[i] \in Procs
      BY Inv3Types DEF Inv4, Inv3
    <3>2. Reaching(caps[eps[e].queue[i]], e, Side(e)) # {}
      BY <3>1 DEF Inv4, Reach, InQueue, Side, SideOf
    <3> QED BY <3>2 DEF Inv4, Inv3, Once
  <2> QED BY <2>1, <2>2, <2>3, <2>4 DEF EndpointLifetime
<1> QED BY InitInv4, Inv4Inductive, <1>1, PTL DEF Spec

\* Nobody waits for a peer that cannot come, as long as programs keep their
\* endpoint capabilities until they die: a blocking call looks at the count of
\* the other side, and the death of the last holder empties the queue
\* (ipc.rs, ipc_send, ipc_recv; scheduler.rs, reap_dying).
THEOREM NobodyStranded ==
  ASSUME "Endpoint" \notin ReleaseKinds
  PROVE  Spec => []NoneStranded
<1>1. Inv4 => NoneStranded
  <2> SUFFICES ASSUME Inv4, NEW e \in Endpoints, eps[e].queue # <<>>
               PROVE  \E p \in Procs :
                        Reaching(caps[p], e, IF eps[e].are_senders THEN "RECV" ELSE "SEND") # {}
    BY DEF NoneStranded
  <2> DEFINE right == IF eps[e].are_senders THEN "RECV" ELSE "SEND"
  <2>1. PeersOf(eps, e) = Count(caps, e, right)
    BY DEF Inv4, Counted, PeersOf
  <2> HIDE DEF right
  <2>2. Count(caps, e, right) > 0
    BY <2>1 DEF Inv4, Peered
  <2>3. Referents(caps, e, right) # {}
    <3>1. Cardinality({}) = 0
      BY FS_EmptySet
    <3>2. Referents(caps, e, right) = {} => Count(caps, e, right) = 0
      BY <3>1 DEF Count
    <3> QED BY <2>2, <3>2
  <2>4. PICK p \in Procs, s \in Slots : <<p, s>> \in Referents(caps, e, right)
    BY <2>3, ReferentsAt
  <2>5. s \in Reaching(caps[p], e, right)
    BY <2>4, ReferentsAt
  <2> QED BY <2>5 DEF right
<1> QED BY InitInv4, Inv4Inductive, <1>1, PTL DEF Spec

\* A death takes out of a queue only those whose peers are all gone: the count
\* in death_strands_peers is of the dying table against the endpoint's
\* (ipc.rs, death_strands_peers; scheduler.rs, reap_dying).
THEOREM DeathWakesTheStranded == Spec => OnlyStrandedWoken
<1> DEFINE Gone(e, q) ==
             exiting # None /\ Queued(e, q) /\ ~Queued(e, q)' =>
               \A p \in Procs :
                 Reaching(caps[p], e, IF eps[e].are_senders THEN "RECV" ELSE "SEND")' = {}
<1>1. ASSUME Inv4, [Next]_vars, NEW e \in Endpoints, NEW q \in Procs,
             exiting # None, Queued(e, q), ~Queued(e, q)', NEW w \in Procs
      PROVE  Reaching(caps'[w], e, IF eps'[e].are_senders THEN "RECV" ELSE "SEND") = {}
  <2>1. InQueue(eps, e, q) /\ ~InQueue(eps', e, q) /\ eps' # eps
    BY <1>1 DEF Queued, InQueue
  <2>2. PICK p \in Procs : FinishExit(p)
    BY <1>1, <2>1 DEF Next, vars, Send, Recv, Call, Reply, FrameAlloc, FrameMap, FbMap, Map,
       CpuCharge, CapRelease, Spawn, CanCall, Exit, ReclaimLentCap
  <2>3. /\ caps \in AllTables /\ TypeOK /\ state[p] = "Ready"
    BY <1>1, <2>2, Inv3Types, NoneApart DEF Inv4, Inv3, ExitingReady, FinishExit
  <2>4. Forgets(caps, caps', p) /\ eps'[e] = EndpointAfter(p, e)
    BY <2>2, <2>3, FinishExitCells DEF FinishExit
  <2>5. DeathStrandsPeers(p, e) /\ eps[e].queue # <<>>
    BY <2>1, <2>3, <2>4, AfterQueue, EmptyQueue DEF InQueue
  <2>6. /\ Cardinality(Reaching(caps[p], e, "SEND")) \in Nat
        /\ Cardinality(Reaching(caps[p], e, "RECV")) \in Nat
        /\ Count(caps', e, "SEND") \in Nat /\ Count(caps', e, "RECV") \in Nat
        /\ eps[e].senders = Count(caps', e, "SEND") + Cardinality(Reaching(caps[p], e, "SEND"))
        /\ eps[e].receivers = Count(caps', e, "RECV") + Cardinality(Reaching(caps[p], e, "RECV"))
        /\ \A x \in Procs : InQueue(eps, e, x) =>
             x # p /\ Reaching(caps'[x], e, SideOf(eps, e)) # {}
        /\ eps[e].queue # <<>> => Count(caps', e, "SEND") > 0 \/ Count(caps', e, "RECV") > 0
    BY <1>1, <2>3, <2>4, DeathCounts
  <2>7. Count(caps', e, SideOf(eps, e)) > 0
    BY <2>1, <2>6, ReachingCounts
  <2>8. Count(caps', e, "SEND") = 0 \/ Count(caps', e, "RECV") = 0
    BY <2>5, <2>6 DEF DeathStrandsPeers
  <2>9. eps'[e].are_senders = eps[e].are_senders
    BY <1>1, <2>3, <2>4, <2>5, DeathLeaves
  <2>10. Count(caps', e, IF eps[e].are_senders THEN "RECV" ELSE "SEND") = 0
    BY <2>6, <2>7, <2>8 DEF SideOf
  <2> QED BY <2>9, <2>10, ReachingCounts
<1>2. Inv4 /\ [Next]_vars => \A e \in Endpoints, q \in Procs : Gone(e, q)
  BY <1>1
<1> QED BY InitInv4, Inv4Inductive, <1>2, PTL DEF Spec, OnlyStrandedWoken

----------------------------------------------------------------------------
(* A blocked process can be answered.                                      *)

\* Whoever is Blocked waits in a queue, or somebody can reply to it.
Answered(t, st, ep) == \A q \in Procs : st[q] = "Blocked" =>
  (\E e \in Endpoints : InQueue(ep, e, q)) \/ Named(t, "Reply", q)

\* No reply capability gets lost.
RepliesKept(t, u) == \A id : Named(t, "Reply", id) => Named(u, "Reply", id)

\* A step gives the property when this holds of the state after it.
LEMMA AnsweredNext ==
  /\ CallersAnswerable <=> Answered(caps, state, eps)
  /\ CallersAnswerable' <=> Answered(caps', state', eps')
  BY DEF CallersAnswerable, Answered, Named, Queued, InQueue, Holds, At, CapAt

\* Everyone but the head waiter stays in the queue.
LEMMA DequeueStays ==
  ASSUME TypeOK, NEW e \in Endpoints, eps[e].queue # <<>>, NEW d \in Endpoints,
         NEW q, InQueue(eps, d, q), q # Head(eps[e].queue)
  PROVE  InQueue(Dequeue(e), d, q)
<1>1. DOMAIN eps = Endpoints /\ eps[e] \in EndpointRecords /\ eps[e].queue \in Seq(Procs)
  BY DEF TypeOK, EndpointRecords
<1>2. CASE d # e
  <2>1. Dequeue(e)[d] = eps[d]
    BY <1>1, <1>2 DEF Dequeue
  <2> QED BY <2>1 DEF InQueue
<1>3. CASE d = e
  <2>1. Dequeue(e)[d].queue = Tail(eps[e].queue)
    BY <1>1, <1>3 DEF Dequeue, EndpointRecords
  <2>2. PICK i \in 1 .. Len(eps[e].queue) : eps[e].queue[i] = q
    BY <1>3 DEF InQueue
  <2> DEFINE w == eps[e].queue
  <2>3. w \in Seq(Procs) /\ w # <<>> /\ i \in 1 .. Len(w) /\ w[i] = q /\ q # Head(w)
    BY <1>1, <2>2
  <2> HIDE DEF w
  <2>4. i # 1 /\ Len(w) \in Nat /\ Len(Tail(w)) = Len(w) - 1
    BY <2>3
  <2>5. i - 1 \in 1 .. Len(Tail(w)) /\ Tail(w)[i - 1] = w[i]
    BY <2>3, <2>4
  <2> QED BY <2>1, <2>3, <2>5 DEF InQueue, w
<1> QED BY <1>2, <1>3

\* Joining a queue moves nobody out of one.
LEMMA EnqueueStays ==
  ASSUME TypeOK, NEW e \in Endpoints, NEW p \in Procs, NEW side
  PROVE  /\ InQueue(Enqueue(e, p, side), e, p)
         /\ \A d \in Endpoints : \A q :
              InQueue(eps, d, q) => InQueue(Enqueue(e, p, side), d, q)
<1>1. DOMAIN eps = Endpoints /\ eps[e] \in EndpointRecords /\ eps[e].queue \in Seq(Procs)
  BY DEF TypeOK, EndpointRecords
<1>2. /\ Enqueue(e, p, side)[e].queue = Append(eps[e].queue, p)
      /\ \A d \in Endpoints : d # e => Enqueue(e, p, side)[d] = eps[d]
  BY <1>1 DEF Enqueue, EndpointRecords
<1>3. /\ Len(eps[e].queue) \in Nat
      /\ Len(Append(eps[e].queue, p)) = Len(eps[e].queue) + 1
      /\ \A i \in 1 .. Len(eps[e].queue) + 1 :
           Append(eps[e].queue, p)[i] = IF i = Len(eps[e].queue) + 1 THEN p ELSE eps[e].queue[i]
  BY <1>1
<1>4. InQueue(Enqueue(e, p, side), e, p)
  BY <1>2, <1>3 DEF InQueue
<1>5. ASSUME NEW d \in Endpoints, NEW q, InQueue(eps, d, q)
      PROVE  InQueue(Enqueue(e, p, side), d, q)
  <2>1. PICK i \in 1 .. Len(eps[d].queue) : eps[d].queue[i] = q
    BY <1>5 DEF InQueue
  <2>2. CASE d # e
    BY <1>2, <1>5, <2>2 DEF InQueue
  <2>3. CASE d = e
    <3>1. /\ i \in 1 .. Len(Append(eps[e].queue, p))
          /\ Append(eps[e].queue, p)[i] = q
      BY <1>3, <2>1, <2>3
    <3> QED BY <1>2, <2>3, <3>1 DEF InQueue
  <2> QED BY <2>2, <2>3
<1> QED BY <1>4, <1>5

\* A drop loses no reply capability when it is of another kind.
LEMMA DropKeepsReplies ==
  ASSUME caps \in AllTables, NEW p \in Procs, NEW c \in Slots,
         DropsOne(caps, caps', p, c), At(caps, p, c).kind # "Reply"
  PROVE  RepliesKept(caps, caps')
<1>1. \A r \in Procs, s \in Slots : ~(r = p /\ s = c) => At(caps', r, s) = At(caps, r, s)
  BY DEF DropsOne, SameBeyond
<1> QED BY <1>1 DEF RepliesKept, Named

\* A move loses no reply capability.
LEMMA MoveKeepsReplies ==
  ASSUME caps \in AllTables, NEW p \in Procs, NEW c \in Slots,
         NEW q \in Procs, NEW l \in Slots, MovesOne(caps, caps', p, c, q, l)
  PROVE  RepliesKept(caps, caps')
<1>1. \A kind, id : Named(caps', kind, id) <=> Named(caps, kind, id)
  BY MovesNames, Zenon
<1> QED BY <1>1 DEF RepliesKept

\* A delivered reply capability arrives or goes back; only a kind that keeps
\* its home slot is lost on the way.
LEMMA DeliverKeepsReplies ==
  ASSUME caps \in AllTables, NEW from \in Procs, NEW to \in Procs, from # to,
         NEW c \in Slots \cup {None}, Deliver(from, c, to)
  PROVE  RepliesKept(caps, caps')
<1>1. CASE ~Moves(from, c)
  BY <1>1 DEF Deliver, RepliesKept
<1>2. CASE Moves(from, c)
  <2>1. c \in Slots /\ CapAt(from, c) # None /\ Transfer(from, c, to)
    BY <1>2 DEF Moves, Deliver
  <2>2. ASSUME DropsOne(caps, caps', from, c), LendReservesHome(CapAt(from, c))
        PROVE  RepliesKept(caps, caps')
    <3>1. At(caps, from, c).kind # "Reply"
      BY <2>2 DEF LendReservesHome, ReclaimableKinds, At, CapAt
    <3> QED BY <2>1, <2>2, <3>1, DropKeepsReplies
  <2>3. ASSUME NEW q \in {from, to}, NEW l \in Slots, MovesOne(caps, caps', from, c, q, l)
        PROVE  RepliesKept(caps, caps')
    BY <2>1, <2>3, MoveKeepsReplies
  <2> QED BY <2>1, <2>2, <2>3, TransferCells
<1> QED BY <1>1, <1>2

\* A server with a free slot gets the reply capability.
LEMMA MintAnswers ==
  ASSUME caps \in AllTables, NEW server \in Procs, NEW caller \in Procs,
         MintReply(server, caller), InstallSlot(caps[server]) # None
  PROVE  RepliesKept(caps, caps') /\ Named(caps', "Reply", caller)
<1> DEFINE cap == Cap("Reply", caller, {})
           l   == InstallSlot(caps[server])
<1>1. caps' = [caps EXCEPT ![server] = Put(@, l, cap)] /\ l # None
  BY DEF MintReply
<1>2. cap \in Caps /\ cap.kind = "Reply" /\ cap.id = caller
  <2>1. cap \in Caps
    BY CapType, SizeAssumption DEF Kinds, Rights, Procs, Ids
  <2> QED BY <2>1 DEF Cap
<1> HIDE DEF cap, l
<1>3. l \in Slots /\ AddsOne(caps, caps', server, l, cap)
  BY <1>1, InstallCells DEF l
<1> QED BY <1>2, <1>3, AddsNamed DEF RepliesKept

\* No reply capability is sent home.
LEMMA SendHomeKeepsReplies ==
  ASSUME caps \in AllTables, NEW p \in Procs, NEW s \in Slots, CapAt(p, s) # None,
         ReleaseAction(CapAt(p, s)) = "ReclaimTo", SendHome(p, s),
         LendersIn(caps, state)
  PROVE  RepliesKept(caps, caps')
<1>1. CapAt(p, s).kind \in ReclaimableKinds /\ CapAt(p, s).origin # None
  BY DEF ReleaseAction
<1>2. CapAt(p, s).origin.lender # p /\ CapAt(p, s).origin.lender \in Procs
  BY <1>1, AtType DEF LendersIn, At, CapAt
<1>3. ASSUME NEW l \in Slots, MovesOne(caps, caps', p, s, CapAt(p, s).origin.lender, l)
      PROVE  RepliesKept(caps, caps')
  BY <1>2, <1>3, MoveKeepsReplies
<1>4. ASSUME DropsOne(caps, caps', p, s) PROVE RepliesKept(caps, caps')
  <2>1. At(caps, p, s).kind # "Reply"
    BY <1>1 DEF ReclaimableKinds, At, CapAt
  <2> QED BY <1>4, <2>1, DropKeepsReplies
<1> QED BY <1>1, <1>2, <1>3, <1>4, SendHomeCells

\* Neither is one spent by a charge to the CPU budget.
LEMMA ChargeKeepsReplies ==
  ASSUME caps \in AllTables, NEW p \in Procs, NEW s \in Slots, NEW amount,
         CapAt(p, s).kind = "CpuTime",
         caps' = [caps EXCEPT ![p].slots[s].id = @ - amount]
  PROVE  RepliesKept(caps, caps')
<1>1. \A r \in Procs, z \in Slots : ~(r = p /\ z = s) => At(caps', r, z) = At(caps, r, z)
  BY DEF At, AllTables, GoodTables, Tables
<1>2. At(caps, p, s).kind # "Reply"
  BY DEF At, CapAt
<1> QED BY <1>1, <1>2 DEF RepliesKept, Named

\* Nor lost by a spawn: the child is given what the parent held.
LEMMA SpawnKeepsReplies ==
  ASSUME NEW t \in AllTables, NEW u, NEW p \in Procs, NEW q \in Procs, p # q,
         NEW c \in Slots \cup {None}, NEW e \in Endpoints, NEW given, NEW handle,
         given # None => c \in Slots,
         SpawnsFrom(t, u, p, c, q, e, given, handle)
  PROVE  RepliesKept(t, u)
<1>1. PICK t1 \in AllTables, t2 \in AllTables, t3 \in AllTables :
        /\ IF given = None THEN t1 = t ELSE MovesOne(t, t1, p, c, q, 2)
        /\ AddsOne(t1, t2, q, 0, Budget)
        /\ AddsOne(t2, t3, q, 1, Result(e))
        /\ IF handle = None THEN u = t3
           ELSE handle \in Slots /\ AddsOne(t3, u, p, handle, Handle(e))
  BY DEF SpawnsFrom
<1>2. ASSUME NEW v, NEW w, NEW r, NEW s, NEW cap, AddsOne(v, w, r, s, cap)
      PROVE  RepliesKept(v, w)
  <2>1. /\ At(v, r, s) = None
        /\ \A x \in Procs, y \in Slots : ~(x = r /\ y = s) => At(w, x, y) = At(v, x, y)
    BY <1>2 DEF AddsOne, SameBeyond
  <2> QED BY <2>1 DEF RepliesKept, Named
<1>3. RepliesKept(t, t1)
  <2>1. CASE given = None
    BY <1>1, <2>1 DEF RepliesKept
  <2>2. CASE given # None
    <3>1. 2 \in Slots
      BY SizeAssumption DEF Slots
    <3>2. \A kind, id : Named(t1, kind, id) <=> Named(t, kind, id)
      BY <1>1, <2>2, <3>1, MovesNames, Zenon
    <3> QED BY <3>2 DEF RepliesKept
  <2> QED BY <2>1, <2>2
<1>4. RepliesKept(t1, t2) /\ RepliesKept(t2, t3)
  BY <1>1, <1>2
<1>5. RepliesKept(t3, u)
  <2>1. CASE handle = None
    BY <1>1, <2>1 DEF RepliesKept
  <2>2. CASE handle # None
    BY <1>1, <1>2, <2>2
  <2> QED BY <2>1, <2>2
<1> QED BY <1>3, <1>4, <1>5 DEF RepliesKept

\* A step that blocks nobody, takes nobody out of a queue and loses no reply.
LEMMA QuietAnswered ==
  ASSUME Answered(caps, state, eps), RepliesKept(caps, caps'),
         \A q \in Procs : state'[q] = "Blocked" => state[q] = "Blocked",
         \A d \in Endpoints : \A q : InQueue(eps, d, q) => InQueue(eps', d, q)
  PROVE  Answered(caps', state', eps')
  BY DEF Answered, RepliesKept

\* A running process blocks on an endpoint.
LEMMA BlocksAnswered ==
  ASSUME Inv4, Answered(caps, state, eps), NEW p \in Procs, NEW e \in Endpoints, NEW side,
         eps' = Enqueue(e, p, side), state' = [state EXCEPT ![p] = "Blocked"], caps' = caps
  PROVE  Answered(caps', state', eps')
<1>1. TypeOK /\ state \in [Procs -> {"Empty", "Ready", "Blocked"}]
  BY Inv3Types DEF Inv4, Inv3
<1>2. /\ InQueue(eps', e, p)
      /\ \A d \in Endpoints : \A q : InQueue(eps, d, q) => InQueue(eps', d, q)
  BY <1>1, EnqueueStays
<1>3. \A q \in Procs \ {p} : state'[q] = state[q]
  BY <1>1
<1> QED BY <1>2, <1>3 DEF Answered

\* A rendezvous lets the head waiter run.
LEMMA MeetsAnswered ==
  ASSUME Inv4, Answered(caps, state, eps), NEW p \in Procs, state[p] = "Ready",
         NEW e \in Endpoints, eps[e].queue # <<>>, NEW h, h = Head(eps[e].queue),
         eps' = Dequeue(e), NEW c \in Slots \cup {None},
         Deliver(p, c, h) \/ Deliver(h, c, p), state' = [state EXCEPT ![h] = "Ready"]
  PROVE  Answered(caps', state', eps')
<1>1. caps \in AllTables /\ TypeOK /\ state \in [Procs -> {"Empty", "Ready", "Blocked"}]
  BY Inv3Types DEF Inv4, Inv3
<1>2. h \in Procs /\ state[h] = "Blocked"
  BY <1>1, HeadLeaves DEF Inv4, Inv3
<1>3. RepliesKept(caps, caps')
  BY <1>1, <1>2, DeliverKeepsReplies
<1>4. \A d \in Endpoints : \A q : InQueue(eps, d, q) /\ q # h => InQueue(eps', d, q)
  BY <1>1, DequeueStays
<1>5. state'[h] = "Ready" /\ \A q \in Procs \ {h} : state'[q] = state[q]
  BY <1>1, <1>2
<1> QED BY <1>3, <1>4, <1>5 DEF Answered, RepliesKept

\* A server that can be called by someone it owes nothing has a free slot.
LEMMA RoomToMint ==
  ASSUME RoomForReplies, NEW server \in Procs, NEW caller \in Procs, NEW e \in Endpoints,
         Reaching(caps[server], e, "RECV") # {}, Reaching(caps[caller], e, "SEND") # {},
         ~Named(caps, "Reply", caller)
  PROVE  InstallSlot(caps[server]) # None
  BY DEF RoomForReplies, Named, Holds, At, CapAt

\* The IPC gate: a caller that leaves the queue, or never joins it, has its
\* reply capability in the server's table.
LEMMA GateAnswered ==
  ASSUME Inv4, Answered(caps, state, eps), RoomForReplies, NEW p \in Procs,
         Send(p) \/ Recv(p) \/ Call(p) \/ Reply(p)
  PROVE  Answered(caps', state', eps')
<1>1. /\ caps \in AllTables /\ TypeOK /\ state \in [Procs -> {"Empty", "Ready", "Blocked"}]
      /\ Inv3 /\ state[p] = "Ready"
  BY Inv3Types DEF Inv4, Inv3, Send, Recv, Call, Reply, CanCall
<1>2. ASSUME NEW s \in Slots, NEW c \in Slots \cup {None}, SendRendezvous(p, s, c)
      PROVE  Answered(caps', state', eps')
  <2>1. PICK e \in Endpoints :
          /\ eps[e].queue # <<>>
          /\ Deliver(p, c, Head(eps[e].queue))
          /\ state' = [state EXCEPT ![Head(eps[e].queue)] = "Ready"]
          /\ eps' = Dequeue(e)
    BY <1>2 DEF SendRendezvous, Waiting
  <2> QED BY <1>1, <2>1, MeetsAnswered
<1>3. ASSUME NEW s \in Slots, NEW c \in Slots \cup {None}, SendBlocks(p, s, c)
      PROVE  Answered(caps', state', eps')
  BY <1>3, BlocksAnswered DEF SendBlocks
<1>4. ASSUME NEW s \in Slots, NEW e \in Endpoints, EndpointFor(p, s, e, "RECV"), RecvCall(p, e)
      PROVE  Answered(caps', state', eps')
  <2> DEFINE h == Head(eps[e].queue)
  <2>1. /\ eps[e].queue # <<>> /\ eps[e].are_senders /\ MintReply(p, h)
        /\ eps' = Dequeue(e) /\ state' = state
    BY <1>4 DEF RecvCall, Waiting
  <2>2. h \in Procs /\ ~Named(caps, "Reply", h) /\ InQueue(eps, e, h)
    BY <1>1, <2>1, HeadLeaves, DequeueFacts DEF Inv3
  <2>3. /\ Reaching(caps[p], e, "RECV") # {}
        /\ Reaching(caps[h], e, "SEND") # {}
    BY <1>4, <2>1, <2>2 DEF EndpointFor, Inv4, Reach, SideOf
  <2>4. \A d \in Endpoints : \A q : InQueue(eps, d, q) /\ q # h => InQueue(eps', d, q)
    BY <1>1, <2>1, DequeueStays
  <2> HIDE DEF h
  <2>5. InstallSlot(caps[p]) # None
    BY <2>2, <2>3, RoomToMint
  <2>6. RepliesKept(caps, caps') /\ Named(caps', "Reply", h)
    BY <1>1, <2>1, <2>2, <2>5, MintAnswers
  <2> QED BY <2>1, <2>4, <2>6 DEF Answered, RepliesKept
<1>5. ASSUME NEW e \in Endpoints, RecvSend(p, e) PROVE Answered(caps', state', eps')
  <2>1. /\ eps[e].queue # <<>>
        /\ Deliver(Head(eps[e].queue), pending[Head(eps[e].queue)].cap, p)
        /\ eps' = Dequeue(e)
        /\ state' = [state EXCEPT ![Head(eps[e].queue)] = "Ready"]
    BY <1>5 DEF RecvSend, Waiting
  <2>2. pending[Head(eps[e].queue)].cap \in Slots \cup {None}
    BY <1>1, <2>1, QueueTypes DEF TypeOK, PendingRecords
  <2> QED BY <1>1, <2>1, <2>2, MeetsAnswered
<1>6. ASSUME NEW e \in Endpoints, RecvPeerDied(p, e) PROVE Answered(caps', state', eps')
  BY <1>6 DEF RecvPeerDied
<1>7. ASSUME NEW e \in Endpoints, RecvBlocks(p, e) PROVE Answered(caps', state', eps')
  BY <1>7, BlocksAnswered DEF RecvBlocks
<1>8. ASSUME NEW s \in Slots, NEW e \in Endpoints, EndpointFor(p, s, e, "SEND"),
             CallRendezvous(p, e)
      PROVE  Answered(caps', state', eps')
  <2> DEFINE h == Head(eps[e].queue)
  <2>1. /\ eps[e].queue # <<>> /\ ~eps[e].are_senders /\ MintReply(h, p)
        /\ eps' = Dequeue(e)
        /\ state' = [state EXCEPT ![h] = "Ready", ![p] = "Blocked"]
    BY <1>8 DEF CallRendezvous, Waiting
  <2>2. h \in Procs /\ InQueue(eps, e, h)
    BY <1>1, <2>1, DequeueFacts DEF Inv3
  <2>3. /\ Reaching(caps[h], e, "RECV") # {}
        /\ Reaching(caps[p], e, "SEND") # {}
    BY <1>8, <2>1, <2>2 DEF EndpointFor, Inv4, Reach, SideOf
  <2>4. \A d \in Endpoints : \A q : InQueue(eps, d, q) /\ q # h => InQueue(eps', d, q)
    BY <1>1, <2>1, DequeueStays
  <2>5. ~Named(caps, "Reply", p) /\ state[h] = "Blocked"
    BY <1>1, <2>2 DEF Inv3, Pinned, Once, InQueue
  <2> HIDE DEF h
  <2>6. InstallSlot(caps[h]) # None
    BY <2>2, <2>3, <2>5, RoomToMint
  <2>7. RepliesKept(caps, caps') /\ Named(caps', "Reply", p)
    BY <1>1, <2>1, <2>2, <2>6, MintAnswers
  <2>8. state'[h] = "Ready" /\ \A q \in Procs \ {h, p} : state'[q] = state[q]
    BY <1>1, <2>1, <2>2, <2>5
  <2> QED BY <2>4, <2>7, <2>8 DEF Answered, RepliesKept
<1>9. ASSUME NEW e \in Endpoints, CallBlocks(p, e) PROVE Answered(caps', state', eps')
  BY <1>9, BlocksAnswered DEF CallBlocks
<1>10. ASSUME Reply(p) PROVE Answered(caps', state', eps')
  <2>1. PICK s \in Slots :
          /\ At(caps, p, s) # None /\ At(caps, p, s).kind = "Reply"
          /\ state' = [state EXCEPT ![At(caps, p, s).id] = "Ready"]
          /\ caps' = [caps EXCEPT ![p] = Revoke(@, s)]
          /\ eps' = eps
    BY <1>10 DEF Reply, Holds, At, CapAt
  <2> DEFINE id == At(caps, p, s).id
  <2>2. id \in Procs
    BY <1>1, <2>1 DEF Named, Inv3, Pinned
  <2>3. DropsOne(caps, caps', p, s)
    BY <1>1, <2>1, RevokeCells
  <2>4. \A r \in Procs, z \in Slots : ~(r = p /\ z = s) => At(caps', r, z) = At(caps, r, z)
    BY <2>3 DEF DropsOne, SameBeyond
  <2>5. \A q : Named(caps, "Reply", q) /\ q # id => Named(caps', "Reply", q)
    BY <2>4 DEF Named
  <2>6. state'[id] = "Ready" /\ \A q \in Procs \ {id} : state'[q] = state[q]
    BY <1>1, <2>1, <2>2
  <2> HIDE DEF id
  <2> QED BY <2>1, <2>5, <2>6 DEF Answered
<1>11. ASSUME Send(p) PROVE Answered(caps', state', eps')
  BY <1>2, <1>3, <1>11 DEF Send
<1>12. ASSUME Recv(p) PROVE Answered(caps', state', eps')
  BY <1>4, <1>5, <1>6, <1>7, <1>12 DEF Recv
<1>13. ASSUME Call(p) PROVE Answered(caps', state', eps')
  BY <1>8, <1>9, <1>13 DEF Call
<1> QED BY <1>10, <1>11, <1>12, <1>13

\* Memory, the CPU budget and voluntary release: a reply capability is refused.
LEMMA SyscallAnswered ==
  ASSUME Inv4, Answered(caps, state, eps), NEW p \in Procs,
         FrameAlloc(p) \/ FrameMap(p) \/ FbMap(p) \/ CpuCharge(p) \/ CapRelease(p)
  PROVE  Answered(caps', state', eps')
<1>1. caps \in AllTables /\ TypeOK /\ LendersIn(caps, state)
  BY Inv3Types DEF Inv4, Inv3, TablesSafe
<1>2. state' = state
  BY DEF FrameAlloc, FrameMap, FbMap, Map, CpuCharge, CapRelease
<1>3. CASE FrameMap(p) \/ FbMap(p)
  BY <1>3 DEF FrameMap, FbMap, Map
<1>4. CASE FrameAlloc(p)
  <2>1. PICK f \in free :
          caps' = [caps EXCEPT ![p] =
            Put(@, InstallSlot(@), Cap("Frame", f, {"READ", "WRITE", "MAP"}))]
    BY <1>4 DEF FrameAlloc
  <2>2. InstallSlot(caps[p]) # None /\ eps' = eps
    BY <1>4 DEF FrameAlloc
  <2>3. PICK cap : cap = Cap("Frame", f, {"READ", "WRITE", "MAP"})
    OBVIOUS
  <2>4. PICK l \in Slots : AddsOne(caps, caps', p, l, cap)
    BY <1>1, <2>1, <2>2, <2>3, InstallCells
  <2>5. /\ At(caps, p, l) = None
        /\ \A r \in Procs, z \in Slots : ~(r = p /\ z = l) => At(caps', r, z) = At(caps, r, z)
    BY <2>4 DEF AddsOne, SameBeyond
  <2>6. RepliesKept(caps, caps')
    BY <2>5 DEF RepliesKept, Named
  <2> QED BY <1>2, <2>2, <2>6, QuietAnswered
<1>5. CASE CpuCharge(p)
  <2>1. PICK s \in Slots, amount \in 1 .. CpuBudget :
          /\ CapAt(p, s).kind = "CpuTime"
          /\ caps' = [caps EXCEPT ![p].slots[s].id = @ - amount]
    BY <1>5 DEF CpuCharge, Holds
  <2>2. RepliesKept(caps, caps') /\ eps' = eps
    BY <1>1, <1>5, <2>1, ChargeKeepsReplies DEF CpuCharge
  <2> QED BY <1>2, <2>2, QuietAnswered
<1>6. CASE CapRelease(p)
  <2>1. PICK s \in Slots : CapAt(p, s) # None /\ (ReleaseHome(p, s) \/ ReleaseOwn(p, s))
    BY <1>6 DEF CapRelease
  <2>2. CASE ReleaseHome(p, s)
    <3>1. RepliesKept(caps, caps') /\ eps' = eps
      BY <1>1, <2>1, <2>2, SendHomeKeepsReplies DEF ReleaseHome
    <3> QED BY <1>2, <3>1, QuietAnswered
  <2>3. CASE ReleaseOwn(p, s)
    <3>1. DropsOne(caps, caps', p, s)
      BY <1>1, <2>1, <2>3, RevokeCells DEF ReleaseOwn, At, CapAt
    <3>2. At(caps, p, s).kind # "Reply"
      BY <2>1, <2>3 DEF ReleaseOwn, ReleaseAction, ReclaimableKinds, At, CapAt
    <3>3. RepliesKept(caps, caps')
      BY <1>1, <3>1, <3>2, DropKeepsReplies
    <3>4. \A d \in Endpoints : eps'[d].queue = eps[d].queue
      <4> DEFINE cap == CapAt(p, s)
                 ep  == Dropped(eps[cap.id], Has(cap, "SEND"), Has(cap, "RECV"))
      <4>1. eps' = eps \/ eps' = [eps EXCEPT ![cap.id] = ep]
        BY <2>3 DEF ReleaseOwn
      <4>2. cap.id \in Endpoints => ep.queue = eps[cap.id].queue
        BY <1>1, DroppedQueue DEF TypeOK
      <4> HIDE DEF cap, ep
      <4> QED BY <1>1, <4>1, <4>2 DEF TypeOK
    <3>5. \A d \in Endpoints : \A q : InQueue(eps, d, q) => InQueue(eps', d, q)
      BY <3>4 DEF InQueue
    <3> QED BY <1>2, <3>3, <3>5, QuietAnswered
  <2> QED BY <2>1, <2>2, <2>3
<1> QED BY <1>3, <1>4, <1>5, <1>6

\* Spawning: the endpoint the child is given is one nobody waits on.
LEMMA SpawnAnswered ==
  ASSUME Inv4, Answered(caps, state, eps), NEW p \in Procs, Spawn(p)
  PROVE  Answered(caps', state', eps')
<1>1. /\ caps \in AllTables /\ TypeOK /\ state \in [Procs -> {"Empty", "Ready", "Blocked"}]
      /\ TablesSafe(caps, state, free) /\ state[p] = "Ready"
  BY Inv3Types DEF Inv4, Inv3, Spawn, CanCall
<1>2. ASSUME NEW c \in Slots \cup {None}, SpawnFails(p, c)
      PROVE  Answered(caps', state', eps')
  <2>1. PICK l \in Slots : MovesOne(caps, caps', p, c, p, l) /\ c \in Slots
    BY <1>1, <1>2, SpawnFailsCells
  <2>2. RepliesKept(caps, caps') /\ state' = state /\ eps' = eps
    BY <1>1, <1>2, <2>1, MoveKeepsReplies DEF SpawnFails
  <2> QED BY <2>2, QuietAnswered
<1>3. ASSUME NEW c \in Slots \cup {None}, SpawnChild(p, c)
      PROVE  Answered(caps', state', eps')
  <2>0. PICK e \in Endpoints, q \in Procs : \E given, handle :
          ChildStarts(p, c, e, q, given, handle)
    BY <1>1, <1>3, SpawnChildShape
  <2>1. PICK given, handle : ChildStarts(p, c, e, q, given, handle)
    BY <2>0
  <2>2. /\ state[q] = "Empty" /\ state' = [state EXCEPT ![q] = "Ready"]
        /\ given # None => c \in Slots
        /\ SpawnsFrom(caps, caps', p, c, q, e, given, handle)
        /\ ~eps[e].in_use
    BY <2>1 DEF ChildStarts, FirstFreeEndpoint
  <2>3. RepliesKept(caps, caps')
    BY <1>1, <2>2, SpawnKeepsReplies
  <2>4. \A d \in Endpoints : d # e => eps'[d] = eps[d]
    BY <1>1, <2>1 DEF ChildStarts, TypeOK
  <2>5. ASSUME NEW w, InQueue(eps, e, w) PROVE FALSE
    <3>1. w \in Procs
      BY <1>1, <2>5, WaitersAreProcs DEF InQueue, TypeOK
    <3>2. Reaching(caps[w], e, SideOf(eps, e)) # {}
      BY <2>5, <3>1 DEF Inv4, Reach
    <3>3. Count(caps, e, SideOf(eps, e)) > 0
      BY <3>1, <3>2, ReachingCounts
    <3> QED BY <2>2, <3>3 DEF Inv4, Counted, SideOf
  <2>6. ASSUME NEW d \in Endpoints, NEW w, InQueue(eps, d, w) PROVE InQueue(eps', d, w)
    BY <2>4, <2>5, <2>6 DEF InQueue
  <2>7. \A r \in Procs : state'[r] = "Blocked" => state[r] = "Blocked"
    BY <1>1, <2>2
  <2> QED BY <2>3, <2>6, <2>7, QuietAnswered
<1> QED BY <1>2, <1>3 DEF Spawn

\* Death: those the dying process owes an answer, and those it strands, are
\* woken; everyone else keeps its place or its reply capability.
LEMMA DeathAnswered ==
  ASSUME Inv4, Answered(caps, state, eps), NEW p \in Procs,
         Exit(p) \/ ReclaimLentCap(p) \/ FinishExit(p)
  PROVE  Answered(caps', state', eps')
<1>1. /\ caps \in AllTables /\ TypeOK /\ LendersIn(caps, state)
      /\ state \in [Procs -> {"Empty", "Ready", "Blocked"}]
  BY Inv3Types DEF Inv4, Inv3, TablesSafe
<1>2. CASE Exit(p)
  BY <1>2 DEF Exit
<1>3. CASE ReclaimLentCap(p)
  <2>1. PICK s \in BorrowedSlots(caps[p]) : SendHome(p, s)
    BY <1>3 DEF ReclaimLentCap
  <2>2. s \in Slots /\ CapAt(p, s) # None /\ ReleaseAction(CapAt(p, s)) = "ReclaimTo"
    BY DEF BorrowedSlots, CapAt
  <2>3. RepliesKept(caps, caps') /\ state' = state /\ eps' = eps
    BY <1>1, <1>3, <2>1, <2>2, SendHomeKeepsReplies DEF ReclaimLentCap
  <2> QED BY <2>3, QuietAnswered
<1>4. CASE FinishExit(p)
  <2>1. Forgets(caps, caps', p)
    BY <1>1, <1>4, FinishExitCells
  <2>2. \A q \in Procs : state'[q] = IF q = p THEN "Empty"
                                     ELSE IF q \in Woken(p) THEN "Ready" ELSE state[q]
    BY <1>4 DEF FinishExit
  <2>3. \A e \in Endpoints : eps'[e].queue =
          IF DeathStrandsPeers(p, e) THEN <<>> ELSE eps[e].queue
    BY <1>1, <1>4, AfterQueue DEF FinishExit
  <2> SUFFICES ASSUME NEW q \in Procs, state'[q] = "Blocked"
               PROVE  (\E e \in Endpoints : InQueue(eps', e, q)) \/ Named(caps', "Reply", q)
    BY DEF Answered
  <2>4. q # p /\ q \notin OwedReply(p) /\ q \notin Stranded(p) /\ state[q] = "Blocked"
    BY <2>2 DEF Woken
  <2>5. ASSUME NEW e \in Endpoints, InQueue(eps, e, q) PROVE InQueue(eps', e, q)
    <3>1. ~DeathStrandsPeers(p, e)
      BY <2>4, <2>5 DEF Stranded, InQueue
    <3> QED BY <2>3, <2>5, <3>1 DEF InQueue
  <2>6. ASSUME Named(caps, "Reply", q) PROVE Named(caps', "Reply", q)
    <3>1. PICK r \in Procs, s \in Slots :
            At(caps, r, s) # None /\ At(caps, r, s).kind = "Reply" /\ At(caps, r, s).id = q
      BY <2>6 DEF Named
    <3>2. r # p
      BY <2>4, <3>1 DEF OwedReply, Holds, At, CapAt
    <3>3. /\ At(caps', r, s) # None /\ At(caps', r, s).kind = "Reply"
          /\ At(caps', r, s).id = q
      BY <1>1, <2>1, <3>1, <3>2, ForgetsSame
    <3> QED BY <3>3 DEF Named
  <2> QED BY <2>4, <2>5, <2>6 DEF Answered
<1> QED BY <1>2, <1>3, <1>4

\* A Blocked process is queued, or someone can reply to it, however the reply
\* capability is passed on and whoever dies: as long as a server that someone
\* may call finds a slot for the reply capability (ipc.rs, ipc_call, ipc_reply;
\* scheduler.rs, reap_dying).
THEOREM CallersStayAnswerable ==
  Spec /\ []RoomForReplies => []CallersAnswerable
<1>1. Init => CallersAnswerable
  BY DEF Init, CallersAnswerable
<1>2. Inv4 /\ RoomForReplies /\ CallersAnswerable /\ [Next]_vars => CallersAnswerable'
  <2> SUFFICES ASSUME Inv4, RoomForReplies, CallersAnswerable, [Next]_vars
               PROVE  CallersAnswerable'
    OBVIOUS
  <2>1. Answered(caps, state, eps)
    BY AnsweredNext
  <2>2. Answered(caps', state', eps')
    <3>1. CASE UNCHANGED vars
      BY <2>1, <3>1 DEF vars
    <3>2. CASE Next
      BY <2>1, <3>2, GateAnswered, SyscallAnswered, SpawnAnswered, DeathAnswered DEF Next
    <3> QED BY <3>1, <3>2
  <2> QED BY <2>2, AnsweredNext
<1> QED BY InitInv4, Inv4Inductive, <1>1, <1>2, PTL DEF Spec

============================================================================
