---------------------------- MODULE Capability ----------------------------
(***************************************************************************)
(* The capability table of one process (kernel/src/capability.rs): what a  *)
(* capability is, how a loan records its lender, where an arriving         *)
(* capability lands, and what releasing one means.  Everything here is a   *)
(* pure function of a table value, as it is in the source; the state       *)
(* machine that owns the tables is KernelIpc.                              *)
(***************************************************************************)
EXTENDS Naturals

CONSTANTS
  NumProcs,      \* MAX_PROCESSES: slots of the process table
  MaxCaps,       \* MAX_CAPS: slots of one capability table
  NumEndpoints,  \* MAX_ENDPOINTS: slots of the endpoint table
  NumFrames,     \* frames the allocator can hand to programs
  None           \* the absent value: an empty slot, no origin, NO_CAP

Procs == 0 .. (NumProcs - 1)
Slots == 0 .. (MaxCaps - 1)
Endpoints == 0 .. (NumEndpoints - 1)
Frames == 0 .. (NumFrames - 1)

Kinds == {"Frame", "CpuTime", "Endpoint", "Reply", "BlockRange",
          "EventSource", "Ring", "Framebuffer", "BoundDevice"}

Rights == {"READ", "WRITE", "MAP", "CONSUME", "SEND", "RECV"}

\* The process that lent a capability and the slot it left from.
Origins == [lender : Procs, home : Slots]

\* What the payload of a CapObject ranges over: a frame, an endpoint, the
\* caller awaiting a reply, and otherwise a number: the disk range or screen
\* band, or the CPU ticks that remain.
Ids(kind) == CASE kind = "Frame"    -> Frames
               [] kind = "Endpoint" -> Endpoints
               [] kind = "Reply"    -> Procs
               [] OTHER             -> Nat

CapRecords == [kind : Kinds, id : Nat, rights : SUBSET Rights,
               origin : Origins \cup {None}]

Caps == {c \in CapRecords : c.id \in Ids(c.kind)}

Tables == [slots : [Slots -> Caps \cup {None}], reserved : SUBSET Slots]

\* A child's table takes its CPU budget, its result endpoint and one grant.
ASSUME SizeAssumption ==
  /\ NumProcs \in Nat \ {0}
  /\ MaxCaps \in Nat /\ MaxCaps >= 3
  /\ NumEndpoints \in Nat /\ NumFrames \in Nat

ASSUME NoneAssumption ==
  None \notin Origins /\ None \notin CapRecords /\ None \notin Nat

EmptyTable == [slots |-> [s \in Slots |-> None], reserved |-> {}]

Cap(kind, id, rights) ==
  [kind |-> kind, id |-> id, rights |-> rights, origin |-> None]

----------------------------------------------------------------------------
(* Lending.                                                                *)

\* The kinds no syscall can mint again.
ReclaimableKinds == {"Framebuffer", "BlockRange", "EventSource"}

\* Mutant: every hop records its own source, so the root lender is forgotten.
LentToAnew(cap, source, dest) ==
  [cap EXCEPT !.origin =
     IF @ # None /\ @.lender = dest THEN None ELSE source]

\* A first loan records its source, a loan passed on keeps the root lender,
\* and a capability that reaches its lender again is owned outright.
LentTo(cap, source, dest) ==
  [cap EXCEPT !.origin = IF @ = None THEN source
                         ELSE IF @.lender = dest THEN None ELSE @]

LendReservesHome(cap) == cap.origin = None /\ cap.kind \in ReclaimableKinds

\* Mutant: the lend copies the capability instead of moving it.
RevokeForLendCopies(t, s) == t

\* revoke_and_unmap_for_lend, on the table (the mappings are KernelIpc's).
RevokeForLend(t, s) ==
  [slots    |-> [t.slots EXCEPT ![s] = None],
   reserved |-> IF LendReservesHome(t.slots[s]) THEN t.reserved \cup {s}
                                                ELSE t.reserved]

\* Mutant: the slot is read and never emptied.
RevokeKeeps(t, s) == t

Revoke(t, s) == [t EXCEPT !.slots = [@ EXCEPT ![s] = None]]

----------------------------------------------------------------------------
(* Arriving.  Each rule names the slot a capability would land in, or None *)
(* when the table has no room for it; Put places it there.                 *)

\* Mutant: a slot held for a homecoming is handed out.
FreeSlotsAll(t) == {s \in Slots : t.slots[s] = None}

FreeSlots(t) == {s \in Slots : t.slots[s] = None /\ s \notin t.reserved}

\* install: the first slot that is empty and not held for a homecoming.
InstallSlot(t) ==
  IF FreeSlots(t) = {} THEN None
  ELSE CHOOSE s \in FreeSlots(t) : \A r \in FreeSlots(t) : s <= r

\* reclaim_to: the slot must be reserved and still empty.
CanReclaimTo(t, home) == home \in t.reserved /\ t.slots[home] = None

\* reclaim_to, then reclaim: how reclaim_cap_home places a capability.
ReclaimSlot(t, home) ==
  IF CanReclaimTo(t, home) THEN home ELSE InstallSlot(t)

\* install_home: `prior` is the origin the capability had before LentTo.
InstallHomeSlot(t, prior, dest) ==
  IF prior # None /\ prior.lender = dest THEN ReclaimSlot(t, prior.home)
  ELSE InstallSlot(t)

\* Mutant: a capability comes home and its reservation stays.
PutKeepsReservation(t, s, cap) ==
  IF s = None THEN t ELSE [t EXCEPT !.slots = [@ EXCEPT ![s] = cap]]

Put(t, s, cap) ==
  IF s = None THEN t
  ELSE [slots |-> [t.slots EXCEPT ![s] = cap], reserved |-> t.reserved \ {s}]

----------------------------------------------------------------------------
(* Leaving for good.                                                       *)

ReleaseAction(cap) ==
  IF cap.kind \in ReclaimableKinds /\ cap.origin # None THEN "ReclaimTo"
  ELSE CASE cap.kind = "Frame"       -> "FreeFrame"
         [] cap.kind = "Ring"        -> "ReleaseRing"
         [] cap.kind = "Endpoint"    -> "DropEndpoint"
         [] cap.kind = "Reply"       -> "Refuse"
         [] cap.kind = "Framebuffer" -> "UnmapFramebuffer"
         [] cap.kind = "BoundDevice" -> "UnbindDevice"
         [] OTHER                    -> "DropSlot"

\* The slots whose capability goes home when its holder dies.
BorrowedSlots(t) ==
  {s \in Slots : t.slots[s] # None /\ ReleaseAction(t.slots[s]) = "ReclaimTo"}

\* Mutant: the sweep misses the table.
ClearOriginMisses(t, lender) == t

\* clear_origin: drop every claim of the process that is exiting.
ClearOrigin(t, lender) ==
  [t EXCEPT !.slots = [s \in Slots |->
     IF /\ t.slots[s] # None
        /\ t.slots[s].origin # None
        /\ t.slots[s].origin.lender = lender
     THEN [t.slots[s] EXCEPT !.origin = None]
     ELSE t.slots[s]]]

============================================================================
