----------------------------- MODULE KernelIpc -----------------------------
(***************************************************************************)
(* The process table, the endpoints and every system call that moves,      *)
(* mints or destroys a capability: kernel/src/{ipc,syscall,process}.rs and *)
(* the lending half of scheduler.rs.                                       *)
(*                                                                         *)
(* A system call runs under the big kernel lock from entry to its return   *)
(* or its block, so it is one action.  Process death is the exception: its *)
(* loop over the dying table is one step per capability, with `exiting`    *)
(* standing for the lock held across the loop.  Calls refused with an      *)
(* error, and calls whose only effect is a result register, change nothing *)
(* here and are stuttering steps.  Which of the Ready processes runs on    *)
(* which core is the scheduler's business (module Scheduler): "Ready"      *)
(* covers the source's Ready and Running.                                  *)
(***************************************************************************)
EXTENDS Capability, Sequences, FiniteSets

CONSTANTS
  VAs,           \* user-chosen addresses for frame_map and fb_map
  MaxUserMaps,   \* MAX_USER_MAPS: frame mappings of one process
  MaxFbMaps,     \* MAX_FB_MAPS: framebuffer mappings of one process
  CpuBudget,     \* INITIAL_CPU_BUDGET
  BootGrants,    \* process |-> sequence of capabilities `run` grants it
  LendKinds,     \* workload: the kinds programs pass to send and spawn
  ReleaseKinds   \* workload: the kinds programs pass to cap_release

ASSUME KernelAssumption ==
  /\ CpuBudget \in Nat
  /\ MaxUserMaps \in Nat /\ MaxFbMaps \in Nat
  /\ LendKinds \subseteq Kinds /\ ReleaseKinds \subseteq Kinds

\* What main.rs grants: at most a table's worth of capabilities that nobody
\* has lent, endpoints it has created, no frames and no reply capability,
\* and every disk range, input source and screen band to one process only.
ASSUME BootAssumption ==
  /\ DOMAIN BootGrants \subseteq Procs
  /\ \A p \in DOMAIN BootGrants :
       /\ BootGrants[p] \in Seq(Caps)
       /\ Len(BootGrants[p]) < MaxCaps
       /\ \A i \in 1 .. Len(BootGrants[p]) :
            /\ BootGrants[p][i].origin = None
            /\ BootGrants[p][i].kind \in ReclaimableKinds \cup {"Endpoint"}
            /\ BootGrants[p][i].kind = "Endpoint" =>
                 BootGrants[p][i].rights \cap {"SEND", "RECV"} # {}
  /\ \A p, q \in DOMAIN BootGrants :
       \A i \in 1 .. Len(BootGrants[p]), j \in 1 .. Len(BootGrants[q]) :
         /\ BootGrants[p][i].kind \in ReclaimableKinds
         /\ BootGrants[q][j].kind = BootGrants[p][i].kind
         /\ BootGrants[q][j].id = BootGrants[p][i].id
         => p = q /\ i = j

VARIABLES
  state,    \* process |-> "Empty", "Ready" or "Blocked"
  caps,     \* process |-> its capability table
  maps,     \* process |-> its live mappings (proc.maps and proc.fb_maps)
  eps,      \* endpoint |-> reference counts and wait queue
  pending,  \* process |-> what a blocked sender carries
  landing,  \* process |-> pending_landing: where a reclaimed capability went
  free,     \* the frames the allocator holds
  exiting   \* the process being torn down, or None

vars == <<state, caps, maps, eps, pending, landing, free, exiting>>

MapRecords == [kind : {"Frame", "Framebuffer"}, va : VAs, slot : Slots]

EndpointRecords == [in_use : BOOLEAN, senders : Nat, receivers : Nat,
                    queue : Seq(Procs), are_senders : BOOLEAN]

PendingRecords == [cap : Slots \cup {None}, call : BOOLEAN]

EmptyEndpoint == [in_use |-> FALSE, senders |-> 0, receivers |-> 0,
                  queue |-> <<>>, are_senders |-> FALSE]

\* What set_pending writes.  The source leaves it in place once taken; nothing
\* reads it again before the next set_pending, so here it is wiped.
NoPending == [cap |-> None, call |-> FALSE]

----------------------------------------------------------------------------
(* Looking things up.                                                      *)

CapAt(p, s) == caps[p].slots[s]

Holds(p, s, kind) == CapAt(p, s) # None /\ CapAt(p, s).kind = kind

\* The slots of a table whose capability can reach endpoint e with `right`.
Reaching(t, e, right) ==
  {s \in Slots : /\ t.slots[s] # None
                 /\ t.slots[s].kind = "Endpoint"
                 /\ t.slots[s].id = e
                 /\ right \in t.slots[s].rights}

\* A process may make a system call: it is on a CPU and the lock is free.
CanCall(p) == state[p] = "Ready" /\ exiting = None

\* endpoint_id_for: the slot holds a live endpoint with the right.
EndpointFor(p, s, e, right) ==
  s \in Reaching(caps[p], e, right) /\ eps[e].in_use

\* take_waiting: the head waiter, when the queue holds the wanted side.
Waiting(e, are_senders) ==
  eps[e].queue # <<>> /\ eps[e].are_senders = are_senders

\* A send or spawn that carries a capability: a slot is given and is not empty.
Moves(p, c) == c # None /\ CapAt(p, c) # None

\* The programs' choice of a slot to send: nothing, a slot that turns out to
\* be empty, or a capability of a kind the workload lends.
MayLend(p, c) == Moves(p, c) => CapAt(p, c).kind \in LendKinds

----------------------------------------------------------------------------
(* The pieces of a state change.                                           *)

\* Mutant: the head waiter is read and left in the queue.
DequeuePeeks(e) == eps

Dequeue(e) == [eps EXCEPT ![e].queue = Tail(@)]

Enqueue(e, p, are_senders) ==
  [eps EXCEPT ![e].queue = Append(@, p), ![e].are_senders = are_senders]

\* Mutant: the capability goes, its mappings stay.
UnmappedNone(ms, kind, s) == ms

\* The mappings that survive once those of one kind made through s go.
Unmapped(ms, kind, s) == {m \in ms : ~(m.kind = kind /\ m.slot = s)}

\* The tables once `from` is left with `left` and `to` has taken cap at s.
Moved(from, left, to, s, cap) ==
  LET taken == [caps EXCEPT ![from] = left]
  IN [taken EXCEPT ![to] = Put(taken[to], s, cap)]

\* transfer_current_to_blocked and transfer_blocked_to_current.  The counts
\* of a moved endpoint capability go down and up again, so eps is untouched.
\* When the receiver's table is full the capability goes back by `install`,
\* which does not look at the slot it came from.
Transfer(from, c, to) ==
  LET cap  == CapAt(from, c)
      left == RevokeForLend(caps[from], c)
      land == InstallHomeSlot(caps[to], cap.origin, to)
      lent == LentTo(cap, [lender |-> from, home |-> c], to)
  IN /\ maps' = [maps EXCEPT ![from] = Unmapped(@, cap.kind, c)]
     /\ caps' = IF land # None
                THEN Moved(from, left, to, land, lent)
                ELSE [caps EXCEPT ![from] = Put(left, InstallSlot(left), cap)]

\* The optional transfer of a send.
Deliver(from, c, to) ==
  IF Moves(from, c) THEN Transfer(from, c, to) ELSE UNCHANGED <<maps, caps>>

\* mint_reply_cap_into_*: a full table drops the reply capability.
MintReply(server, caller) ==
  caps' = [caps EXCEPT ![server] =
             Put(@, InstallSlot(@), Cap("Reply", caller, {}))]

----------------------------------------------------------------------------
(* The IPC gate.                                                           *)

SendRendezvous(p, s, c) == \E e \in Endpoints :
  /\ EndpointFor(p, s, e, "SEND")
  /\ Waiting(e, FALSE)
  /\ Deliver(p, c, Head(eps[e].queue))
  /\ state' = [state EXCEPT ![Head(eps[e].queue)] = "Ready"]
  /\ eps' = Dequeue(e)
  /\ UNCHANGED <<pending, landing, free, exiting>>

SendBlocks(p, s, c) == \E e \in Endpoints :
  /\ EndpointFor(p, s, e, "SEND")
  /\ ~Waiting(e, FALSE)
  /\ eps[e].receivers # 0
  /\ pending' = [pending EXCEPT ![p] = [cap |-> c, call |-> FALSE]]
  /\ eps' = Enqueue(e, p, TRUE)
  /\ state' = [state EXCEPT ![p] = "Blocked"]
  /\ UNCHANGED <<caps, maps, landing, free, exiting>>

\* ipc_send
Send(p) ==
  /\ CanCall(p)
  /\ \E s \in Slots, c \in Slots \cup {None} :
       MayLend(p, c) /\ (SendRendezvous(p, s, c) \/ SendBlocks(p, s, c))

\* A waiting caller is answered with a reply capability and stays Blocked.
RecvCall(p, e) ==
  LET caller == Head(eps[e].queue)
  IN /\ Waiting(e, TRUE)
     /\ pending[caller].call
     /\ MintReply(p, caller)
     /\ eps' = Dequeue(e)
     /\ pending' = [pending EXCEPT ![caller] = NoPending]
     /\ UNCHANGED <<state, maps, landing, free, exiting>>

RecvSend(p, e) ==
  LET sender == Head(eps[e].queue)
  IN /\ Waiting(e, TRUE)
     /\ ~pending[sender].call
     /\ Deliver(sender, pending[sender].cap, p)
     /\ eps' = Dequeue(e)
     /\ pending' = [pending EXCEPT ![sender] = NoPending]
     /\ state' = [state EXCEPT ![sender] = "Ready"]
     /\ UNCHANGED <<landing, free, exiting>>

\* No sender can ever come: report the dead peer and any landing slot.
RecvPeerDied(p, e) ==
  /\ ~Waiting(e, TRUE)
  /\ eps[e].senders = 0
  /\ landing' = [landing EXCEPT ![p] = None]
  /\ UNCHANGED <<state, caps, maps, eps, pending, free, exiting>>

RecvBlocks(p, e) ==
  /\ ~Waiting(e, TRUE)
  /\ eps[e].senders # 0
  /\ eps' = Enqueue(e, p, FALSE)
  /\ state' = [state EXCEPT ![p] = "Blocked"]
  /\ UNCHANGED <<caps, maps, pending, landing, free, exiting>>

\* ipc_recv
Recv(p) ==
  /\ CanCall(p)
  /\ \E s \in Slots, e \in Endpoints :
       /\ EndpointFor(p, s, e, "RECV")
       /\ \/ RecvCall(p, e)
          \/ RecvSend(p, e)
          \/ RecvPeerDied(p, e)
          \/ RecvBlocks(p, e)

CallRendezvous(p, e) ==
  LET server == Head(eps[e].queue)
  IN /\ Waiting(e, FALSE)
     /\ MintReply(server, p)
     /\ eps' = Dequeue(e)
     /\ state' = [state EXCEPT ![server] = "Ready", ![p] = "Blocked"]
     /\ UNCHANGED <<maps, pending, landing, free, exiting>>

CallBlocks(p, e) ==
  /\ ~Waiting(e, FALSE)
  /\ eps[e].receivers # 0
  /\ pending' = [pending EXCEPT ![p] = [cap |-> None, call |-> TRUE]]
  /\ eps' = Enqueue(e, p, TRUE)
  /\ state' = [state EXCEPT ![p] = "Blocked"]
  /\ UNCHANGED <<caps, maps, landing, free, exiting>>

\* ipc_call
Call(p) ==
  /\ CanCall(p)
  /\ \E s \in Slots, e \in Endpoints :
       /\ EndpointFor(p, s, e, "SEND")
       /\ CallRendezvous(p, e) \/ CallBlocks(p, e)

\* ipc_reply
Reply(p) ==
  /\ CanCall(p)
  /\ \E s \in Slots :
       /\ Holds(p, s, "Reply")
       /\ state[CapAt(p, s).id] = "Blocked"
       /\ state' = [state EXCEPT ![CapAt(p, s).id] = "Ready"]
       /\ caps' = [caps EXCEPT ![p] = Revoke(@, s)]
       /\ UNCHANGED <<maps, eps, pending, landing, free, exiting>>

----------------------------------------------------------------------------
(* The system calls.                                                       *)

\* Mutant: the allocator forgets that it handed the frame out.
FrameAllocKeepsFree(p) ==
  /\ CanCall(p)
  /\ InstallSlot(caps[p]) # None
  /\ \E f \in free :
       caps' = [caps EXCEPT ![p] =
         Put(@, InstallSlot(@), Cap("Frame", f, {"READ", "WRITE", "MAP"}))]
  /\ UNCHANGED <<state, maps, eps, pending, landing, free, exiting>>

\* sys_frame_alloc; a frame that finds the table full goes straight back.
FrameAlloc(p) ==
  /\ CanCall(p)
  /\ InstallSlot(caps[p]) # None
  /\ \E f \in free :
       /\ caps' = [caps EXCEPT ![p] =
            Put(@, InstallSlot(@), Cap("Frame", f, {"READ", "WRITE", "MAP"}))]
       /\ free' = free \ {f}
  /\ UNCHANGED <<state, maps, eps, pending, landing, exiting>>

\* sys_frame_map and sys_fb_map: the address is unused, a record is free.
Map(p, kind, limit) ==
  /\ CanCall(p)
  /\ \E s \in Slots, va \in VAs :
       /\ Holds(p, s, kind)
       /\ "MAP" \in CapAt(p, s).rights
       /\ \A m \in maps[p] : m.va # va
       /\ Cardinality({m \in maps[p] : m.kind = kind}) < limit
       /\ maps' = [maps EXCEPT ![p] =
            @ \cup {[kind |-> kind, va |-> va, slot |-> s]}]
  /\ UNCHANGED <<state, caps, eps, pending, landing, free, exiting>>

FrameMap(p) == Map(p, "Frame", MaxUserMaps)
FbMap(p)    == Map(p, "Framebuffer", MaxFbMaps)

\* sys_cpu_charge within the budget; an overdraw is a death, see Exit.
CpuCharge(p) ==
  /\ CanCall(p)
  /\ \E s \in Slots, amount \in 1 .. CpuBudget :
       /\ Holds(p, s, "CpuTime")
       /\ "CONSUME" \in CapAt(p, s).rights
       /\ amount <= CapAt(p, s).id
       /\ caps' = [caps EXCEPT ![p].slots[s].id = @ - amount]
  /\ UNCHANGED <<state, maps, eps, pending, landing, free, exiting>>

SaturatingSub(n, k) == IF n > k THEN n - k ELSE 0

\* Mutant: the endpoint slot is never freed.
DroppedLeaks(ep, senders, receivers) ==
  [ep EXCEPT !.senders = SaturatingSub(@, senders),
             !.receivers = SaturatingSub(@, receivers)]

\* note_cap_removed(cap, true) for every capability a table holds on e: drop
\* the counts and free the endpoint when nothing can reach it any more.
Dropped(ep, senders, receivers) ==
  LET left == [ep EXCEPT !.senders = SaturatingSub(@, senders),
                         !.receivers = SaturatingSub(@, receivers)]
  IN IF left.senders = 0 /\ left.receivers = 0 /\ left.queue = <<>>
     THEN EmptyEndpoint ELSE left

\* Mutant: remove_cap does not look at the rights.
HasAny(cap, right) == 1

Has(cap, right) == IF right \in cap.rights THEN 1 ELSE 0

\* reclaim_cap_home: None when the lender is gone or its table is full.
HomeLanding(o) ==
  IF state[o.lender] = "Empty" THEN None
  ELSE ReclaimSlot(caps[o.lender], o.home)

\* p's borrowed capability at s leaves it and, if there is room, comes home.
SendHome(p, s) ==
  LET cap  == CapAt(p, s)
      o    == cap.origin
      home == LentTo(cap, [lender |-> p, home |-> o.home], o.lender)
  IN caps' = Moved(p, Revoke(caps[p], s), o.lender, HomeLanding(o), home)

\* sys_cap_release of a borrowed capability: it goes home instead.
ReleaseHome(p, s) ==
  /\ ReleaseAction(CapAt(p, s)) = "ReclaimTo"
  /\ SendHome(p, s)
  /\ maps' = [maps EXCEPT ![p] = Unmapped(@, "Framebuffer", s)]
  /\ UNCHANGED <<eps, free>>

\* sys_cap_release of everything else; a Reply capability is refused.
ReleaseOwn(p, s) ==
  LET cap == CapAt(p, s)
  IN /\ ReleaseAction(cap) \notin {"ReclaimTo", "Refuse"}
     /\ caps' = [caps EXCEPT ![p] = Revoke(@, s)]
     /\ eps' = IF ReleaseAction(cap) = "DropEndpoint"
               THEN [eps EXCEPT ![cap.id] =
                       Dropped(@, Has(cap, "SEND"), Has(cap, "RECV"))]
               ELSE eps
     /\ free' = IF ReleaseAction(cap) = "FreeFrame"
                THEN free \cup {cap.id} ELSE free
     /\ maps' = [maps EXCEPT ![p] = Unmapped(@, cap.kind, s)]

CapRelease(p) ==
  /\ CanCall(p)
  /\ \E s \in Slots :
       /\ CapAt(p, s) # None
       /\ CapAt(p, s).kind \in ReleaseKinds
       /\ ReleaseHome(p, s) \/ ReleaseOwn(p, s)
  /\ UNCHANGED <<state, pending, landing, exiting>>

----------------------------------------------------------------------------
(* Spawning.                                                               *)

\* create_endpoint and find_free_slot take the first free entry.
FirstFreeEndpoint(e) ==
  ~eps[e].in_use /\ \A d \in Endpoints : d < e => eps[d].in_use

FirstEmptySlot(q) ==
  state[q] = "Empty" /\ \A r \in Procs : r < q => state[r] # "Empty"

\* The table setup_process builds: budget, result channel, optional grant.
ChildTable(e, grant) ==
  [EmptyTable EXCEPT !.slots = [@ EXCEPT
     ![0] = Cap("CpuTime", CpuBudget, {"CONSUME"}),
     ![1] = Cap("Endpoint", e, {"SEND"}),
     ![2] = grant]]

\* spawn_scheduled: the child is launched, then the caller's handle minted.
\* A table with no room loses the handle, and the child runs all the same.
SpawnChild(p, c) == \E e \in Endpoints, q \in Procs :
  LET cap    == IF Moves(p, c) THEN CapAt(p, c) ELSE None
      left   == IF cap = None THEN caps[p] ELSE RevokeForLend(caps[p], c)
      grant  == IF cap = None \/ cap.origin # None THEN cap
                ELSE [cap EXCEPT !.origin = [lender |-> p, home |-> c]]
      handle == InstallSlot(left)
  IN /\ FirstFreeEndpoint(e)
     /\ FirstEmptySlot(q)
     /\ caps' = [caps EXCEPT
          ![p] = Put(left, handle, Cap("Endpoint", e, {"RECV"})),
          ![q] = ChildTable(e, grant)]
     /\ eps' = [eps EXCEPT ![e] =
          [EmptyEndpoint EXCEPT !.in_use = TRUE, !.senders = 1,
             !.receivers = IF handle = None THEN 0 ELSE 1]]
     /\ maps' = [maps EXCEPT ![p] =
          IF cap = None THEN @ ELSE Unmapped(@, cap.kind, c)]
     /\ state' = [state EXCEPT ![q] = "Ready"]
     /\ UNCHANGED <<pending, landing, free, exiting>>

\* spawn_scheduled when the child cannot be set up (a full process table, a
\* bad image, no memory): the capability is put back.  A reservation takes
\* it to its own slot; without one it goes wherever `install` finds room.
SpawnFails(p, c) ==
  LET cap  == CapAt(p, c)
      left == RevokeForLend(caps[p], c)
  IN /\ \E e \in Endpoints : FirstFreeEndpoint(e)
     /\ Moves(p, c)
     /\ caps' = [caps EXCEPT ![p] = Put(left, ReclaimSlot(left, c), cap)]
     /\ maps' = [maps EXCEPT ![p] = Unmapped(@, cap.kind, c)]
     /\ UNCHANGED <<state, eps, pending, landing, free, exiting>>

\* sys_spawn and sys_spawn_from_buffer
Spawn(p) ==
  /\ CanCall(p)
  /\ \E c \in Slots \cup {None} :
       MayLend(p, c) /\ (SpawnChild(p, c) \/ SpawnFails(p, c))

----------------------------------------------------------------------------
(* Death: exit, a fault, a CPU budget overdrawn.                           *)

\* on_exit: take the process off its CPU, the lock held until FinishExit.
Exit(p) ==
  /\ CanCall(p)
  /\ exiting' = p
  /\ UNCHANGED <<state, caps, maps, eps, pending, landing, free>>

\* reclaim_lent_caps, one iteration: the first borrowed capability goes home
\* and its landing is noted, unless one is noted already.
ReclaimLentCap(p) ==
  /\ exiting = p
  /\ \E s \in BorrowedSlots(caps[p]) :
       /\ \A r \in BorrowedSlots(caps[p]) : s <= r
       /\ SendHome(p, s)
       /\ landing' = [landing EXCEPT ![CapAt(p, s).origin.lender] =
            IF @ = None THEN HomeLanding(CapAt(p, s).origin) ELSE @]
  /\ UNCHANGED <<state, maps, eps, pending, free, exiting>>

\* Mutant: only the senders are counted.
DeathStrandsReceivers(p, e) ==
  LET senders == Cardinality(Reaching(caps[p], e, "SEND"))
  IN eps[e].in_use /\ senders > 0 /\ eps[e].senders <= senders

\* Mutant: any holder's death empties the queue, the last one or not.
DeathWakesAll(p, e) ==
  Reaching(caps[p], e, "SEND") \cup Reaching(caps[p], e, "RECV") # {}

\* death_strands_peers: the death removes the last sender or last receiver.
DeathStrandsPeers(p, e) ==
  LET senders   == Cardinality(Reaching(caps[p], e, "SEND"))
      receivers == Cardinality(Reaching(caps[p], e, "RECV"))
  IN /\ eps[e].in_use
     /\ \/ senders > 0 /\ eps[e].senders <= senders
        \/ receivers > 0 /\ eps[e].receivers <= receivers

\* Mutants: a death forgets the callers, or the queues.
OwedReplyNone(p) == {}
StrandedNone(p)  == {}

\* reap_dying: callers owed a reply, and everyone on a stranded endpoint.
OwedReply(p) ==
  {q \in Procs : /\ state[q] = "Blocked"
                 /\ \E s \in Slots : Holds(p, s, "Reply") /\ CapAt(p, s).id = q}

Stranded(p) ==
  {q \in Procs : \E e \in Endpoints :
     DeathStrandsPeers(p, e) /\ \E i \in 1 .. Len(eps[e].queue) :
                                  eps[e].queue[i] = q}

Woken(p) == OwedReply(p) \cup Stranded(p)

\* teardown's drain, on one endpoint whose stranded queue is already empty.
EndpointAfter(p, e) ==
  LET ep == IF DeathStrandsPeers(p, e)
            THEN [eps[e] EXCEPT !.queue = <<>>] ELSE eps[e]
      senders   == Cardinality(Reaching(caps[p], e, "SEND"))
      receivers == Cardinality(Reaching(caps[p], e, "RECV"))
  IN IF senders + receivers = 0 THEN ep
     ELSE Dropped(ep, senders, receivers)

\* on_exit, once nothing is left to send home: reap_dying,
\* clear_origins_naming, teardown, and the slot emptied for reuse.
FinishExit(p) ==
  /\ exiting = p
  /\ BorrowedSlots(caps[p]) = {}
  /\ state' = [q \in Procs |-> IF q = p THEN "Empty"
                               ELSE IF q \in Woken(p) THEN "Ready"
                               ELSE state[q]]
  /\ landing' = [q \in Procs |-> IF q \in Woken(p) \cup {p} THEN None
                                 ELSE landing[q]]
  /\ caps' = [q \in Procs |-> IF q = p THEN EmptyTable
                              ELSE ClearOrigin(caps[q], p)]
  /\ free' = free \cup {CapAt(p, s).id : s \in {r \in Slots : Holds(p, r, "Frame")}}
  /\ eps' = [e \in Endpoints |-> EndpointAfter(p, e)]
  /\ maps' = [maps EXCEPT ![p] = {}]
  /\ pending' = [q \in Procs |-> IF q \in Stranded(p) THEN NoPending
                                 ELSE pending[q]]
  /\ exiting' = None

----------------------------------------------------------------------------
(* The launch by scheduler::run, and the system.                           *)

BootTable(p) ==
  IF p \in DOMAIN BootGrants
  THEN [EmptyTable EXCEPT !.slots = [s \in Slots |->
          IF s = 0 THEN Cap("CpuTime", CpuBudget, {"CONSUME"})
          ELSE IF s <= Len(BootGrants[p]) THEN BootGrants[p][s]
          ELSE None]]
  ELSE EmptyTable

\* Every capability that reaches e with the right, over all tables.
Referents(tabs, e, right) ==
  {ps \in Procs \X Slots : ps[2] \in Reaching(tabs[ps[1]], e, right)}

BootEndpoint(e) ==
  LET tabs      == [p \in Procs |-> BootTable(p)]
      senders   == Cardinality(Referents(tabs, e, "SEND"))
      receivers == Cardinality(Referents(tabs, e, "RECV"))
  IN [EmptyEndpoint EXCEPT !.in_use = senders + receivers > 0,
        !.senders = senders, !.receivers = receivers]

Init ==
  /\ state = [p \in Procs |->
       IF p \in DOMAIN BootGrants THEN "Ready" ELSE "Empty"]
  /\ caps = [p \in Procs |-> BootTable(p)]
  /\ maps = [p \in Procs |-> {}]
  /\ eps = [e \in Endpoints |-> BootEndpoint(e)]
  /\ pending = [p \in Procs |-> NoPending]
  /\ landing = [p \in Procs |-> None]
  /\ free = Frames
  /\ exiting = None

Next == \E p \in Procs :
  \/ Send(p) \/ Recv(p) \/ Call(p) \/ Reply(p)
  \/ FrameAlloc(p) \/ FrameMap(p) \/ FbMap(p)
  \/ CpuCharge(p) \/ CapRelease(p) \/ Spawn(p)
  \/ Exit(p) \/ ReclaimLentCap(p) \/ FinishExit(p)

Spec == Init /\ [][Next]_vars

\* Death runs to its end under the lock, and a program that keeps getting the
\* CPU ends at last: what the workload, not the kernel, has to guarantee.
FairSpec ==
  /\ Spec
  /\ \A p \in Procs :
       /\ SF_vars(Exit(p))
       /\ WF_vars(ReclaimLentCap(p) \/ FinishExit(p))

----------------------------------------------------------------------------
(* Properties.                                                             *)

\* Type invariant: a CPU budget never goes below zero, every capability names
\* an object of its kind, and every waiter, lender and landing a table slot.
TypeOK ==
  /\ state \in [Procs -> {"Empty", "Ready", "Blocked"}]
  /\ caps \in [Procs -> Tables]
  /\ maps \in [Procs -> SUBSET MapRecords]
  /\ eps \in [Endpoints -> EndpointRecords]
  /\ pending \in [Procs -> PendingRecords]
  /\ landing \in [Procs -> Slots \cup {None}]
  /\ free \in SUBSET Frames
  /\ exiting \in Procs \cup {None}

\* The counts every block-time and death-time decision reads are exactly the
\* live capabilities, whatever moved, bounced, died or came home.
RefcountExact == \A e \in Endpoints :
  /\ eps[e].senders = Cardinality(Referents(caps, e, "SEND"))
  /\ eps[e].receivers = Cardinality(Referents(caps, e, "RECV"))

\* An endpoint slot is in use exactly while some capability names it: none is
\* freed under a holder, none leaks once the last holder is gone.
EndpointLifetime == \A e \in Endpoints :
  eps[e].in_use <=> \E p \in Procs, s \in Slots :
                      Holds(p, s, "Endpoint") /\ CapAt(p, s).id = e

\* The side a waiter queued on e is on.
Side(e) == IF eps[e].are_senders THEN "SEND" ELSE "RECV"

Queued(e, q) == \E i \in 1 .. Len(eps[e].queue) : eps[e].queue[i] = q

\* "A queued waiter always still holds a cap" (ipc.rs): every waiter is
\* Blocked, waits once, in one queue, and can reach the endpoint from the
\* side the queue is marked with.
WaitersHoldCaps == \A e \in Endpoints :
  \A i \in 1 .. Len(eps[e].queue) :
    LET q == eps[e].queue[i]
    IN /\ state[q] = "Blocked"
       /\ Reaching(caps[q], e, Side(e)) # {}
       /\ \A d \in Endpoints : \A j \in 1 .. Len(eps[d].queue) :
            eps[d].queue[j] = q => d = e /\ j = i

\* A reply capability pins its caller: the caller is Blocked in no queue, and
\* one capability at most names it, wherever it has been passed on to.
ReplyPinned == \A p \in Procs, s \in Slots :
  Holds(p, s, "Reply") =>
    LET caller == CapAt(p, s).id
    IN /\ caller \in Procs
       /\ state[caller] = "Blocked"
       /\ \A e \in Endpoints : ~Queued(e, caller)
       /\ \A q \in Procs, r \in Slots :
            Holds(q, r, "Reply") /\ CapAt(q, r).id = caller => q = p /\ r = s

\* An origin never outlives its lender's slot and never names its holder
\* ("a cap's origin names who lent it, never its holder", syscall.rs).
LendersLive == \A p \in Procs, s \in Slots :
  CapAt(p, s) # None /\ CapAt(p, s).origin # None =>
    /\ state[CapAt(p, s).origin.lender] # "Empty"
    /\ CapAt(p, s).origin.lender # p

\* A disk range, input source or screen band is never in two tables, or
\* twice in one.
OneHolder == \A p, q \in Procs : \A s, r \in Slots :
  /\ CapAt(p, s) # None /\ CapAt(q, r) # None
  /\ CapAt(p, s).kind \in ReclaimableKinds
  /\ CapAt(q, r).kind = CapAt(p, s).kind
  /\ CapAt(q, r).id = CapAt(p, s).id
  => p = q /\ s = r

\* A frame is either in the allocator or in some process's table: none leaks
\* and none is handed out while a capability still names it.
FramesConserved == \A f \in Frames :
  (f \in free) <=>
    \A p \in Procs, s \in Slots : ~(Holds(p, s, "Frame") /\ CapAt(p, s).id = f)

\* No frame is in two tables, whoever sent, released or bounced it.
FramesUnshared == \A p, q \in Procs : \A s, r \in Slots :
  /\ Holds(p, s, "Frame") /\ Holds(q, r, "Frame")
  /\ CapAt(p, s).id = CapAt(q, r).id
  => p = q /\ s = r

\* "A live framebuffer mapping exists only while the process holds a
\* capability naming it" (capability.rs), and the same for frames.  A dying
\* process runs no more: its address space goes before the lock is released.
MapAuthority == \A p \in Procs \ {exiting} : \A m \in maps[p] :
  Holds(p, m.slot, m.kind)

\* "A reserved slot is empty but not allocatable" (ABI.md).
ReservedEmpty == \A p \in Procs : \A s \in caps[p].reserved : CapAt(p, s) = None

\* Every outstanding loan of a reclaimable kind has its own home slot, empty
\* and reserved in the lender's table.
HomesHeldOpen == \A p \in Procs : \A s \in BorrowedSlots(caps[p]) :
  LET o == CapAt(p, s).origin
  IN /\ CanReclaimTo(caps[o.lender], o.home)
     /\ \A q \in Procs : \A r \in BorrowedSlots(caps[q]) :
          CapAt(q, r).origin = o => q = p /\ r = s

\* What is lent has one holder, who owes it to a living lender.
LoansSound == OneHolder /\ LendersLive

\* A frame has one place: the allocator, or one slot of one table.
FramesOwned == FramesConserved /\ FramesUnshared

\* Endpoints live as long as their capabilities, and their waiters can reach them.
EndpointsSound == RefcountExact /\ EndpointLifetime /\ WaitersHoldCaps

\* Nobody waits on an endpoint that no live capability of the other side
\* can reach.
NoneStranded == \A e \in Endpoints :
  eps[e].queue # <<>> =>
    \E p \in Procs :
      Reaching(caps[p], e, IF eps[e].are_senders THEN "RECV" ELSE "SEND") # {}

\* Only the stranded are told their peer died: a waiter that a death takes
\* out of its queue has no live counterpart left.
OnlyStrandedWoken == [][\A e \in Endpoints, q \in Procs :
  exiting # None /\ Queued(e, q) /\ ~Queued(e, q)' =>
    \A p \in Procs :
      Reaching(caps[p], e, IF eps[e].are_senders THEN "RECV" ELSE "SEND")' = {}]_vars

\* Nobody waits forever, as long as no server blocks while it owes a reply and
\* every program ends: a Blocked process is woken, by its peer's answer or by
\* the report of its death.
BlockedResumes ==
  [](\A p \in Procs, s \in Slots : Holds(p, s, "Reply") => state[p] # "Blocked")
  => \A p \in Procs : state[p] = "Blocked" ~> state[p] # "Blocked"

\* A server with no slot left owes an answer to everyone who could call it, so
\* no reply capability is minted into its table: what CallersAnswerable needs,
\* as mint_reply_cap_into_* drops what finds no slot.
RoomForReplies == \A p \in Procs, e \in Endpoints :
  Reaching(caps[p], e, "RECV") # {} /\ InstallSlot(caps[p]) = None =>
    \A q \in Procs : Reaching(caps[q], e, "SEND") # {} =>
      \E r \in Procs, s \in Slots : Holds(r, s, "Reply") /\ CapAt(r, s).id = q

\* ABI.md on call: "the caller stays blocked until the server `reply`s -- or
\* is woken with IPC_PEER_DIED": a Blocked process is queued on an endpoint,
\* or someone holds the capability to reply to it.
CallersAnswerable == \A q \in Procs : state[q] = "Blocked" =>
  \/ \E e \in Endpoints : Queued(e, q)
  \/ \E p \in Procs, s \in Slots : Holds(p, s, "Reply") /\ CapAt(p, s).id = q

============================================================================
