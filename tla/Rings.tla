------------------------------- MODULE Rings -------------------------------
(***************************************************************************)
(* Completion rings and event subscriptions: kernel/src/rings.rs, the      *)
(* record path of input.rs, and the request bookkeeping of virtio_blk.rs   *)
(* (Inflights, ring_post, complete_irq).                                   *)
(*                                                                         *)
(* A ring is a pair of frames the kernel shares with one process: the      *)
(* process appends to the submission queue and advances the head of the    *)
(* completion queue, the kernel consumes the one and produces the other.   *)
(* The completion queue is modelled as it is in memory, a buffer addressed *)
(* by two free-running indices that wrap; the submission queue as the      *)
(* sequence between its two indices.  Every kernel entry is one action     *)
(* under the big kernel lock, except the drain of ring_submit, which is    *)
(* one step per entry with `drain` for the lock.  What the process does in *)
(* memory interleaves with everything.  Ring capabilities stay with the    *)
(* process that registered, and its two frames stay allocated until then.  *)
(***************************************************************************)
EXTENDS Integers, Sequences, FiniteSets

CONSTANTS
  NumProcs,    \* MAX_PROCESSES
  NumRings,    \* MAX_RINGS
  Entries,     \* `entries` of ring_register: a power of two
  IndexMod,    \* 2^32: where the indices wrap, a multiple of Entries
  NumSlots,    \* request slots of the device (Inflights::slots)
  NumSubs,     \* MAX_SUBS
  Cookies,     \* user_data values programs choose
  Listeners,   \* processes that hold an EventSource capability
  DiskUsers,   \* processes that hold a BlockRange and an I/O frame
  MaxRegs,     \* bound: registrations in a behaviour
  MaxEvents,   \* bound: input events in a behaviour
  None

Procs    == 0 .. NumProcs - 1
RingIds  == 0 .. NumRings - 1
Slots    == 0 .. NumSlots - 1
SubSlots == 0 .. NumSubs - 1
Indices  == 0 .. IndexMod - 1

ASSUME RingsAssumption ==
  /\ {NumProcs, NumRings, Entries, IndexMod, NumSlots, NumSubs} \subseteq Nat \ {0}
  /\ IndexMod % Entries = 0 /\ IndexMod > Entries
  /\ {MaxRegs, MaxEvents} \subseteq Nat
  /\ Listeners \subseteq Procs /\ DiskUsers \subseteq Procs

VARIABLES
  proc,     \* process |-> "Empty", "Ready" or "Parked" (in ring_wait)
  ring,     \* RINGS
  mem,      \* ring |-> what the two shared frames hold
  routing,  \* Inflights::routing: request slot |-> whom to answer, or None
  free,     \* Inflights::free: the stack of free request slots
  subs,     \* SUBSCRIPTIONS: pool slot |-> subscription, or None
  drain,    \* the ring ring_submit is draining, or None
  clock,    \* events the source has produced so far
  regs,     \* registrations so far
  await,    \* ring |-> the cookies its process awaits an answer for
  got       \* ring |-> cookie |-> the last event its process has reaped

\* `reg` tells the tenants of a ring slot apart, `clean` says that nothing has
\* been written over an unreaped entry and no answer to an earlier tenant has
\* arrived: both are bookkeeping of the model, the kernel has neither.
RingRecords == [in_use : BOOLEAN, owner : Procs, cq_tail : Indices,
                waiting : BOOLEAN, reg : 0 .. MaxRegs, clean : BOOLEAN]

EmptyRing == [in_use |-> FALSE, owner |-> 0, cq_tail |-> 0, waiting |-> FALSE,
              reg |-> 0, clean |-> TRUE]

\* A submission: the operation and its cookie.
Submissions == [op : {"IO", "EVENT_SUB", "CANCEL"}, ud : Cookies]

\* A completion: an answer ("done"), an event with its number and EVENT_DROPPED
\* flag, or a refused subscription ("sub_err").
Completions == [kind : {"done", "event", "sub_err"}, ud : Cookies,
                n : 0 .. MaxEvents, dropped : BOOLEAN, reg : 0 .. MaxRegs]

Memory == [sq : Seq(Submissions), head : Indices,
           buf : [0 .. Entries - 1 -> Completions \cup {None}]]

FreshMemory == [sq |-> <<>>, head |-> 0, buf |-> [i \in 0 .. Entries - 1 |-> None]]

Routings == [ring : RingIds, ud : Cookies, reg : 0 .. MaxRegs]

SubRecords == [ring : RingIds, ud : Cookies, dropped : 0 .. MaxEvents, reg : 0 .. MaxRegs]

\* A request slot at rest routes to nobody, a free pool slot holds no subscription.
ASSUME NoneAssumption == None \notin Routings /\ None \notin SubRecords

kernelVars == <<routing, free, subs, drain>>
ghostVars  == <<clock, regs, await, got>>
vars == <<proc, ring, mem, kernelVars, ghostVars>>

Init ==
  /\ proc = [p \in Procs |-> "Ready"]
  /\ ring = [r \in RingIds |-> EmptyRing]
  /\ mem = [r \in RingIds |-> FreshMemory]
  /\ routing = [i \in Slots |-> None]
  /\ free = [i \in 1 .. NumSlots |-> i - 1]
  /\ subs = [i \in SubSlots |-> None]
  /\ drain = None
  /\ clock = 0 /\ regs = 0
  /\ await = [r \in RingIds |-> {}]
  /\ got = [r \in RingIds |-> [u \in Cookies |-> 0]]

----------------------------------------------------------------------------
(* The completion queue.  A posting is a function of the rings, their      *)
(* memory and the processes to wake, so that several can follow one        *)
(* another in one action.                                                  *)

Queues == [ring |-> ring, mem |-> mem, wakes |-> {}]

\* Mutant: an index grows past its width.
NextIndexUnwrapped(i) == i + 1

\* wrapping_add(1).
NextIndex(i) == (i + 1) % IndexMod

\* tail.wrapping_sub(head).
UnreapedCount(Q, r) == (Q.ring[r].cq_tail - Q.mem[r].head) % IndexMod

IsFull(Q, r) == UnreapedCount(Q, r) >= Entries

\* The owner parked in ring_wait, if it is, is to be woken.
Wake(Q, r) ==
  [ring  |-> [Q.ring EXCEPT ![r].waiting = FALSE],
   mem   |-> Q.mem,
   wakes |-> IF Q.ring[r].waiting THEN Q.wakes \cup {Q.ring[r].owner} ELSE Q.wakes]

\* cq_post, past its full-check: one entry at the tail, the tail advanced.
\* A released ring drops the completion.
CqPost(Q, r, e) ==
  IF ~Q.ring[r].in_use THEN Q
  ELSE Wake([ring  |-> [Q.ring EXCEPT
                         ![r].cq_tail = NextIndex(@),
                         ![r].clean = @ /\ ~IsFull(Q, r) /\ e.reg = Q.ring[r].reg],
             mem   |-> [Q.mem EXCEPT ![r].buf[Q.ring[r].cq_tail % Entries] = e],
             wakes |-> Q.wakes], r)

\* post_completion: no full-check.
Done(t)   == [kind |-> "done", ud |-> t.ud, n |-> 0, dropped |-> FALSE, reg |-> t.reg]
SubErr(t) == [Done(t) EXCEPT !.kind = "sub_err"]

\* The queues after a posting, and the processes it wakes.
Publish(Q) ==
  /\ ring' = Q.ring /\ mem' = Q.mem
  /\ proc' = [p \in Procs |-> IF p \in Q.wakes THEN "Ready" ELSE proc[p]]

----------------------------------------------------------------------------
(* What a process does in its own memory.                                  *)

\* The process that may use ring r: it is alive, owns the ring and is not in
\* a system call (ring_id_for is the check the kernel makes).
CanUse(p, r) == proc[p] = "Ready" /\ ring[r].in_use /\ ring[r].owner = p /\ drain # r

\* What lies between the two indices of r, oldest first.
Unreaped(r) ==
  [i \in 1 .. UnreapedCount(Queues, r) |-> mem[r].buf[(mem[r].head + i - 1) % Entries]]

\* A program does not reuse a cookie it still has a use for.
CookieFree(r, u) ==
  /\ u \notin await[r]
  /\ \A i \in SubSlots : subs[i] # None => ~(subs[i].ring = r /\ subs[i].ud = u)
  /\ \A i \in 1 .. Len(mem[r].sq) : mem[r].sq[i].ud # u
  /\ \A i \in 1 .. Len(Unreaped(r)) : Unreaped(r)[i].ud # u

\* Append a submission; the queue has room for Entries of them.
Produce(p, r) ==
  /\ CanUse(p, r) /\ Len(mem[r].sq) < Entries
  /\ \E s \in Submissions :
       /\ s.op # "CANCEL" => CookieFree(r, s.ud)
       /\ mem' = [mem EXCEPT ![r].sq = Append(@, s)]
       /\ await' = [await EXCEPT ![r] = IF s.op = "IO" THEN @ \cup {s.ud} ELSE @]
  /\ UNCHANGED <<proc, ring, kernelVars, clock, regs, got>>

\* Take the completion at the head.  The entry stays in memory and is not read
\* again before the kernel writes it, so it is wiped, except where a posting
\* has already gone round the buffer.
Reap(p, r) ==
  /\ CanUse(p, r) /\ mem[r].head # ring[r].cq_tail
  /\ LET m == mem[r]
         i == m.head % Entries
         e == m.buf[i]
     IN /\ await' = [await EXCEPT ![r] = IF e.kind = "done" THEN @ \ {e.ud} ELSE @]
        /\ got' = [got EXCEPT ![r][e.ud] = IF e.kind = "event" THEN e.n ELSE @]
        /\ mem' = [mem EXCEPT ![r] =
             [sq |-> m.sq, head |-> NextIndex(m.head),
              buf |-> [m.buf EXCEPT ![i] =
                         IF UnreapedCount(Queues, r) > Entries THEN e ELSE None]]]
  /\ UNCHANGED <<proc, ring, kernelVars, clock, regs>>

----------------------------------------------------------------------------
(* System calls.                                                           *)

FreeRings == {r \in RingIds : ~ring[r].in_use}

\* ring_register: the first free slot; the headers are zeroed.  (When the
\* table has no room for the capability the slot is given up again.)
RingRegister(p) ==
  /\ proc[p] = "Ready" /\ drain = None /\ regs < MaxRegs
  /\ \E r \in FreeRings :
       /\ \A q \in FreeRings : r <= q
       /\ ring' = [ring EXCEPT ![r] = [EmptyRing EXCEPT !.in_use = TRUE, !.owner = p,
                                                        !.reg = regs + 1]]
       /\ mem' = [mem EXCEPT ![r] = FreshMemory]
       /\ await' = [await EXCEPT ![r] = {}]
       /\ got' = [got EXCEPT ![r] = [u \in Cookies |-> 0]]
  /\ regs' = regs + 1
  /\ UNCHANGED <<proc, kernelVars, clock>>

\* ring_submit: the doorbell.  Its loop is DrainEntry and DrainEnds.
RingSubmit(p, r) ==
  /\ CanUse(p, r) /\ drain = None
  /\ drain' = r
  /\ UNCHANGED <<proc, ring, mem, routing, free, subs, ghostVars>>

\* The submission being dispatched, and the target of its answer.
Entry  == Head(mem[drain].sq)
Target == [ring |-> drain, ud |-> Entry.ud, reg |-> ring[drain].reg]

\* Mutant: the consumed entry stays in the queue.
ConsumedNot == Queues

\* The queues once the entry is consumed.
Consumed == [ring |-> ring, mem |-> [mem EXCEPT ![drain].sq = Tail(@)], wakes |-> {}]

\* post_read and post_write: claim a request slot, or answer with an error.
PostIo ==
  /\ Entry.op = "IO"
  /\ \/ /\ ring[drain].owner \in DiskUsers /\ free # <<>>
        /\ routing' = [routing EXCEPT ![free[Len(free)]] = Target]
        /\ free' = SubSeq(free, 1, Len(free) - 1)
        /\ Publish(Consumed)
     \/ /\ ring[drain].owner \notin DiskUsers
        /\ Publish(CqPost(Consumed, drain, Done(Target)))
        /\ UNCHANGED <<routing, free>>
  /\ UNCHANGED <<subs, drain, ghostVars>>

SubsAt(r, u) == {i \in SubSlots : subs[i] # None /\ subs[i].ring = r /\ subs[i].ud = u}

FreeSubs == {i \in SubSlots : subs[i] = None}

\* post_event_sub: arm a subscription under a cookie the ring does not have.
PostEventSub ==
  /\ Entry.op = "EVENT_SUB"
  /\ IF /\ ring[drain].owner \in Listeners
        /\ SubsAt(drain, Entry.ud) = {} /\ FreeSubs # {}
     THEN /\ \E i \in FreeSubs :
               /\ \A j \in FreeSubs : i <= j
               /\ subs' = [subs EXCEPT ![i] = [ring |-> drain, ud |-> Entry.ud, dropped |-> 0,
                                              reg |-> ring[drain].reg]]
          /\ got' = [got EXCEPT ![drain][Entry.ud] = clock]
          /\ Publish(Consumed)
     ELSE /\ Publish(CqPost(Consumed, drain, SubErr(Target)))
          /\ UNCHANGED <<subs, got>>
  /\ UNCHANGED <<routing, free, drain, clock, regs, await>>

\* post_cancel: by exact key, without a completion.
PostCancel ==
  /\ Entry.op = "CANCEL"
  /\ subs' = [i \in SubSlots |-> IF i \in SubsAt(drain, Entry.ud) THEN None ELSE subs[i]]
  /\ Publish(Consumed)
  /\ UNCHANGED <<routing, free, drain, ghostVars>>

DrainEntry ==
  /\ drain # None /\ mem[drain].sq # <<>>
  /\ PostIo \/ PostEventSub \/ PostCancel

\* The queue is empty, or the request pool is (Outcome::Full): what is left
\* stays for the next doorbell.
DrainEnds ==
  /\ drain # None
  /\ mem[drain].sq # <<>> =>
       Entry.op = "IO" /\ ring[drain].owner \in DiskUsers /\ free = <<>>
  /\ drain' = None
  /\ UNCHANGED <<proc, ring, mem, routing, free, subs, ghostVars>>

\* Mutant: the queue is not looked at before parking.
NothingToReapAny(r) == TRUE

NothingToReap(r) == ring[r].cq_tail = mem[r].head

\* ring_wait: park on an empty queue; otherwise it returns at once.
RingWait(p, r) ==
  /\ CanUse(p, r) /\ drain = None /\ NothingToReap(r)
  /\ ring' = [ring EXCEPT ![r].waiting = TRUE]
  /\ proc' = [proc EXCEPT ![p] = "Parked"]
  /\ UNCHANGED <<mem, kernelVars, ghostVars>>

\* Mutant: the subscriptions stay.
ReleasedSubsNone(R) == subs

\* Subscriptions::release_ring, for a set of rings.
ReleasedSubs(R) ==
  [i \in SubSlots |-> IF subs[i] # None /\ subs[i].ring \in R THEN None ELSE subs[i]]

\* release, for a set of rings.  Requests in flight stay in flight.
Release(R) ==
  /\ ring' = [r \in RingIds |-> IF r \in R THEN EmptyRing ELSE ring[r]]
  /\ mem' = [r \in RingIds |-> IF r \in R THEN FreshMemory ELSE mem[r]]
  /\ subs' = ReleasedSubs(R)
  /\ await' = [r \in RingIds |-> IF r \in R THEN {} ELSE await[r]]
  /\ got' = [r \in RingIds |-> IF r \in R THEN [u \in Cookies |-> 0] ELSE got[r]]
  /\ UNCHANGED <<routing, free, drain, clock, regs>>

\* cap_release of a Ring capability.
CapRelease(p, r) ==
  /\ CanUse(p, r) /\ drain = None
  /\ Release({r})
  /\ UNCHANGED proc

Owned(p) == {r \in RingIds : ring[r].in_use /\ ring[r].owner = p}

\* A process dies; teardown drops its Ring capabilities.
Exit(p) ==
  /\ proc[p] = "Ready" /\ drain = None
  /\ Release(Owned(p))
  /\ proc' = [proc EXCEPT ![p] = "Empty"]

\* The process slot gets another tenant.
Spawn(p) ==
  /\ proc[p] = "Empty" /\ drain = None
  /\ proc' = [proc EXCEPT ![p] = "Ready"]
  /\ UNCHANGED <<ring, mem, kernelVars, ghostVars>>

----------------------------------------------------------------------------
(* Interrupts.                                                             *)

\* complete_irq, for one request, whose slot goes back on the stack; an
\* interrupt that covers several is that many of these.  The device finishes
\* requests in any order.
CompleteIrq ==
  /\ drain = None
  /\ \E i \in {j \in Slots : routing[j] # None} :
       /\ routing' = [routing EXCEPT ![i] = None]
       /\ free' = Append(free, i)
       /\ Publish(CqPost(Queues, routing[i].ring, Done(routing[i])))
  /\ UNCHANGED <<subs, drain, ghostVars>>

EventFor(sub) == [kind |-> "event", ud |-> sub.ud, n |-> clock + 1,
                  dropped |-> sub.dropped > 0, reg |-> sub.reg]

\* Mutant: a drop is not counted.
CountDropNot(sub) == sub

CountDrop(sub) == [sub EXCEPT !.dropped = @ + 1]

\* One subscription's share of an event: posted, or dropped and counted when
\* the queue is full (post_event).
DeliverTo(D, i) ==
  LET sub == subs[i]
  IN IF sub = None THEN D
     ELSE IF D.q.ring[sub.ring].in_use /\ IsFull(D.q, sub.ring)
     THEN [D EXCEPT !.s[i] = CountDrop(sub)]
     ELSE [q |-> CqPost(D.q, sub.ring, EventFor(sub)),
           s |-> [D.s EXCEPT ![i].dropped = 0]]

\* Subscriptions::deliver: the subscriptions in pool order.
Delivered[i \in 0 .. NumSubs] ==
  IF i = 0 THEN [q |-> Queues, s |-> subs] ELSE DeliverTo(Delivered[i - 1], i - 1)

\* record and deliver_event: a key, a mouse packet.
Record ==
  /\ drain = None /\ clock < MaxEvents
  /\ clock' = clock + 1
  /\ subs' = Delivered[NumSubs].s
  /\ Publish(Delivered[NumSubs].q)
  /\ UNCHANGED <<routing, free, drain, regs, await, got>>

----------------------------------------------------------------------------
UserStep(p, r) == Produce(p, r) \/ Reap(p, r)

SystemCall(p) ==
  \/ RingRegister(p) \/ Exit(p) \/ Spawn(p)
  \/ \E r \in RingIds : RingSubmit(p, r) \/ RingWait(p, r) \/ CapRelease(p, r)

Next ==
  \/ \E p \in Procs : SystemCall(p) \/ \E r \in RingIds : UserStep(p, r)
  \/ DrainEntry \/ DrainEnds \/ CompleteIrq \/ Record

Spec == Init /\ [][Next]_vars

----------------------------------------------------------------------------
(* Properties.                                                             *)

\* Type invariant.
TypeOK ==
  /\ proc \in [Procs -> {"Empty", "Ready", "Parked"}]
  /\ ring \in [RingIds -> RingRecords]
  /\ \A r \in RingIds : /\ mem[r].sq \in Seq(Submissions) /\ Len(mem[r].sq) <= Entries
                        /\ mem[r].head \in Indices
                        /\ mem[r].buf \in [0 .. Entries - 1 -> Completions \cup {None}]
  /\ routing \in [Slots -> Routings \cup {None}]
  /\ free \in Seq(Slots)
  /\ subs \in [SubSlots -> SubRecords \cup {None}]
  /\ drain \in RingIds \cup {None}
  /\ clock \in 0 .. MaxEvents /\ regs \in 0 .. MaxRegs
  /\ await \in [RingIds -> SUBSET Cookies]
  /\ got \in [RingIds -> [Cookies -> 0 .. MaxEvents]]

\* No wake-up is lost: whoever is parked in ring_wait is marked on a live ring
\* of its own whose queue is empty, and whoever is marked is parked.
ParkedOnEmpty ==
  /\ \A p \in Procs : proc[p] = "Parked" =>
       \E r \in Owned(p) : ring[r].waiting /\ ring[r].cq_tail = mem[r].head
  /\ \A r \in RingIds : ring[r].waiting => proc[ring[r].owner] = "Parked"

\* "a reused slot inherits no stale subscription" (release), and no slot
\* outlives its process: every ring in use has a living owner, every
\* subscription belongs to the present tenant of its ring.
NoneInherited ==
  /\ \A r \in RingIds : ring[r].in_use => proc[ring[r].owner] # "Empty"
  /\ \A i \in SubSlots : subs[i] # None =>
       ring[subs[i].ring].in_use /\ ring[subs[i].ring].reg = subs[i].reg

\* Where the answer to cookie u of ring r's present tenant is.
InSq(r, u)     == {i \in 1 .. Len(mem[r].sq) : mem[r].sq[i] = [op |-> "IO", ud |-> u]}
InFlight(r, u) == {i \in Slots : routing[i] = [ring |-> r, ud |-> u, reg |-> ring[r].reg]}
InCq(r, u)     == {i \in 1 .. Len(Unreaped(r)) :
                     Unreaped(r)[i] = Done([ud |-> u, reg |-> ring[r].reg])}

\* Every request a program awaits is in exactly one place -- submitted, with
\* the device, or answered and not yet reaped -- and nothing else is: none is
\* lost at a full request pool, none is answered twice, as long as the ring is
\* clean.
RequestsAccounted ==
  \A r \in RingIds : ring[r].in_use /\ ring[r].clean =>
    \A u \in Cookies :
      Cardinality(InSq(r, u)) + Cardinality(InFlight(r, u)) + Cardinality(InCq(r, u))
        = IF u \in await[r] THEN 1 ELSE 0

\* The places of the events of the stream with cookie u that its program has not
\* reaped.
Stream(r, u) ==
  {i \in 1 .. Len(Unreaped(r)) : Unreaped(r)[i].kind = "event" /\ Unreaped(r)[i].ud = u}

\* The number of the last event of the stream before place i.
Before(r, u, i) ==
  LET P == {j \in Stream(r, u) : j < i}
  IN IF P = {} THEN got[r][u] ELSE Unreaped(r)[CHOOSE j \in P : \A k \in P : k <= j].n

\* A reader can trust its stream: events arrive in order, one that follows a
\* gap carries EVENT_DROPPED and no other does, and the count ring_dropped
\* returns is the number of events missed since the last one queued.
StreamsTellLosses ==
  \A r \in RingIds : ring[r].in_use /\ ring[r].clean =>
    /\ \A u \in Cookies : \A i \in Stream(r, u) :
         LET e == Unreaped(r)[i]
         IN e.n > Before(r, u, i) /\ (e.dropped <=> e.n > Before(r, u, i) + 1)
    /\ \A j \in SubSlots : subs[j] # None /\ subs[j].ring = r =>
         subs[j].dropped = clock - Before(r, subs[j].ud, Len(Unreaped(r)) + 1)

\* release, on a ring that goes: "Any requests still in flight against it
\* complete into a released slot, which `cq_post` drops": no ring's queue holds
\* an answer to a request of an earlier tenant.
AnswersOwnRequests ==
  \A r \in RingIds : ring[r].in_use =>
    \A i \in 1 .. Len(Unreaped(r)) :
      Unreaped(r)[i].kind = "done" => Unreaped(r)[i].reg = ring[r].reg

============================================================================
