------------------------------ MODULE BlockIo ------------------------------
(***************************************************************************)
(* A kernel-bridged virtio block device: the pool of in-flight slots, the  *)
(* split virtqueue shared with the device, the boot self-tests that poll   *)
(* it, the completion interrupt that demultiplexes it, and the identity    *)
(* IOMMU domain its DMA goes through.  kernel/src/virtio_blk.rs and the    *)
(* block half of kernel/src/iommu.rs.                                      *)
(*                                                                         *)
(* The device (external) takes published chains, serves them in any order, *)
(* and runs at any point between two steps of the kernel.  A read and a    *)
(* write take the same path and differ in one descriptor flag.             *)
(***************************************************************************)
EXTENDS Naturals, Sequences, FiniteSets

CONSTANTS
  NoReq,        \* a model value: no request, no routing
  BlkFrames,    \* frames requests name
  BlkClients,   \* processes with a completion ring
  QSize,        \* the negotiated queue size
  IdxMod,       \* modulus of the free-running ring indices (2^16)
  MaxBlkReqs    \* bound: requests ever posted

\* Who a slot's completion goes to: a ring, or the boot's polling.
Targets == [ring : BlkClients \cup {"poll"}, ud : Nat]

\* An index is reduced modulo the queue size, so the wrap must not tear it.
\* POISON_IOVA is the address of no frame.
ASSUME QueueAssumption ==
  /\ QSize \in Nat \ {0} /\ IdxMod \in Nat \ {0} /\ IdxMod % QSize = 0
  /\ "poison" \notin BlkFrames
  /\ NoReq \notin Nat /\ NoReq \notin Targets
  /\ NoReq \notin [slot : Nat, id : Nat, frame : BlkFrames \cup {"poison"}]

VARIABLES
  tests,      \* boot self-tests still to run
  poller,     \* the polled request: its slot, number, frame and test, or NoReq
  gave_up,    \* a self-test ended without its answer
  verdict,    \* the last self-test: test, status, whether it was served, fault
  blkPool,    \* routing of the live slots, stack of free slots
  blkChain,   \* slot |-> descriptors, header and status byte
  blkAvail,   \* driver's ring: idx, elements, NO_INTERRUPT
  blkUsed,    \* device's ring: idx, elements
  last_used,  \* used elements consumed
  device,     \* chains taken: avail index seen, slots being served
  blkIrq,     \* the device's completion interrupt is asserted
  draining,   \* complete_irq has acknowledged and not yet drained
  unread,     \* client |-> completions in its CQ
  parked,     \* clients blocked in ring_wait
  owner,      \* frame |-> a client, "kernel" or "free"
  domain,     \* the frames the shared identity domain maps
  fault,      \* the unit has recorded a translation fault
  reqs        \* requests posted

bootVars   == <<tests, poller, gave_up, verdict>>
poolVars   == <<blkPool, last_used>>
queueVars  == <<blkChain, blkAvail, domain, reqs>>   \* what post_request writes
blkDeviceVars == <<blkUsed, device, blkIrq, fault>>
clientVars == <<unread, parked>>

blkVars == <<bootVars, poolVars, queueVars, blkDeviceVars, clientVars, draining, owner>>

DescPerReq == 3

BlkSlots == 0 .. (QSize \div DescPerReq) - 1

ChainHead(slot) == slot * DescPerReq

BLK_OK == 0
BLK_E_DEV == 4

\* The frame that stands for POISON_IOVA: no domain maps it.
Poison == "poison"

----------------------------------------------------------------------------
(* The in-flight pool.                                                     *)

AnyLive == \E s \in BlkSlots : blkPool.routing[s] # NoReq

\* Inflights::submit: the slot on top of the free stack.
Top == blkPool.free[Len(blkPool.free)]

Submit(target) ==
  [routing |-> [blkPool.routing EXCEPT ![Top] = target],
   free |-> SubSeq(blkPool.free, 1, Len(blkPool.free) - 1)]

\* slot_of: a head that is aligned and in range.
SlotOf(head) ==
  IF head % DescPerReq = 0 /\ head \div DescPerReq \in BlkSlots
  THEN head \div DescPerReq ELSE NoReq

\* Mutant: completions are taken to come back in the order of the slots.
DemuxInOrder(head) ==
  LET live == {s \in BlkSlots : blkPool.routing[s] # NoReq}
  IN IF live = {} THEN NoReq ELSE CHOOSE s \in live : \A t \in live : s <= t

\* The slot a used element completes.
Demux(head) == SlotOf(head)

\* Inflights::complete on a pool: a head that is not live changes nothing.
Complete(p, slot) ==
  IF slot = NoReq THEN p
  ELSE IF p.routing[slot] = NoReq THEN p
  ELSE [routing |-> [p.routing EXCEPT ![slot] = NoReq], free |-> Append(p.free, slot)]

----------------------------------------------------------------------------
(* The queue.                                                              *)

Wrap(i) == i % IdxMod

\* Mutant: the fault probe's skip is forgotten.
MapDmaAlways(frame, skip_map) == domain \cup {frame}

\* block_map_dma: add-only and idempotent; skipped by the fault probe.
MapDma(frame, skip_map) == IF skip_map THEN domain ELSE domain \cup {frame}

\* post_request: map the frame, write flags, header, status sentinel and the
\* three descriptors, publish the head, notify.
PostRequest(slot, id, frame, quiet, skip_map) ==
  /\ blkChain' = [blkChain EXCEPT ![slot] = [id |-> id, frame |-> frame, status |-> NoReq]]
  /\ blkAvail' = [idx |-> Wrap(blkAvail.idx + 1), quiet |-> quiet,
               ring |-> [blkAvail.ring EXCEPT ![blkAvail.idx % QSize] = ChainHead(slot)]]
  /\ domain' = MapDma(frame, skip_map)
  /\ reqs' = id

\* Mutant: one completion per interrupt.
UnseenOne ==
  IF blkUsed.idx = last_used THEN <<>> ELSE <<blkUsed.ring[last_used % QSize]>>

\* The used elements not yet consumed, oldest first.
Unseen ==
  LET n == Wrap(blkUsed.idx + IdxMod - last_used)
  IN [i \in 1 .. n |-> blkUsed.ring[Wrap(last_used + i - 1) % QSize]]

\* drain_completions after the first n elements: the pool, and the targets
\* with their status, in ring order.
Drained ==
  LET heads == Unseen
      after[n \in 0 .. Len(heads)] ==
        IF n = 0 THEN [pool |-> blkPool, out |-> <<>>]
        ELSE LET prev == after[n - 1]
                 slot == Demux(heads[n])
             IN IF slot = NoReq THEN prev
                ELSE IF prev.pool.routing[slot] = NoReq THEN prev
                ELSE [pool |-> Complete(prev.pool, slot),
                      out |-> Append(prev.out,
                                [target |-> prev.pool.routing[slot],
                                 status |-> IF blkChain[slot].status = BLK_OK
                                            THEN BLK_OK ELSE BLK_E_DEV,
                                 served |-> blkChain[slot].status # NoReq])]
  IN after[Len(heads)]

Consume == blkPool' = Drained.pool /\ last_used' = Wrap(last_used + Len(Unseen))

----------------------------------------------------------------------------
(* The device (external).                                                  *)

DeviceTake ==
  /\ device.seen # blkAvail.idx
  /\ device' = [seen |-> Wrap(device.seen + 1),
                busy |-> device.busy \cup {blkAvail.ring[device.seen % QSize] \div DescPerReq}]
  /\ UNCHANGED <<bootVars, poolVars, queueVars, clientVars, blkUsed, blkIrq, fault, draining, owner>>

\* DMA, status byte, used element, interrupt.  An access the domain does not
\* map faults: no data lands, whatever the status says.
DeviceServe(slot, status) ==
  /\ slot \in device.busy
  /\ device' = [device EXCEPT !.busy = @ \ {slot}]
  /\ fault' = (fault \/ blkChain[slot].frame \notin domain)
  /\ blkChain' = [blkChain EXCEPT ![slot].status = status]
  /\ blkUsed' = [idx |-> Wrap(blkUsed.idx + 1),
              ring |-> [blkUsed.ring EXCEPT ![blkUsed.idx % QSize] = ChainHead(slot)]]
  /\ blkIrq' = (blkIrq \/ ~blkAvail.quiet)
  /\ UNCHANGED <<bootVars, poolVars, clientVars, blkAvail, domain, reqs, draining, owner>>

----------------------------------------------------------------------------
(* Boot: polled self-tests, one after the other.                           *)

\* selftest_read and the two reads of fault_selftest: a scratch frame, or the
\* poisoned address with the mapping skipped, and read_block_polled's post.
PollStart(f) ==
  LET poison == tests[1] = "poison"
      frame == IF poison THEN Poison ELSE f
  IN /\ tests # <<>> /\ poller = NoReq
     /\ owner[f] = "free" /\ blkPool.free # <<>> /\ reqs < MaxBlkReqs
     /\ owner' = IF poison THEN owner ELSE [owner EXCEPT ![f] = "kernel"]
     /\ blkPool' = Submit([ring |-> "poll", ud |-> reqs + 1])
     /\ PostRequest(Top, reqs + 1, frame, TRUE, poison)
     /\ poller' = [slot |-> Top, id |-> reqs + 1, frame |-> frame]
     /\ UNCHANGED <<blkDeviceVars, clientVars, tests, gave_up, verdict, last_used, draining>>

\* A read that fails without an answer.
NoAnswer == [status |-> BLK_E_DEV, served |-> TRUE]

\* The test ends, take_fault reads and clears the unit's record, and the
\* scratch frame goes back to the allocator.
PollEnds(result) ==
  /\ owner' = IF poller.frame = Poison THEN owner
              ELSE [owner EXCEPT ![poller.frame] = "free"]
  /\ verdict' = [test |-> tests[1], status |-> result.status,
                 served |-> result.served, fault |-> fault]
  /\ fault' = FALSE
  /\ poller' = NoReq
  /\ tests' = Tail(tests)
  /\ UNCHANGED <<queueVars, blkUsed, device, blkIrq, clientVars, draining>>

\* The used index moved: drain one completion and report its status.
PollSees ==
  /\ poller # NoReq
  /\ blkUsed.idx # last_used
  /\ Consume
  /\ UNCHANGED gave_up
  /\ PollEnds(IF Drained.out = <<>> THEN NoAnswer ELSE Drained.out[1])

\* POLL_MAX spins and no answer: the slot is returned to the pool.
PollTimesOut ==
  /\ poller # NoReq
  /\ blkUsed.idx = last_used
  /\ blkPool' = Complete(blkPool, poller.slot)
  /\ gave_up' = TRUE
  /\ UNCHANGED last_used
  /\ PollEnds(NoAnswer)

----------------------------------------------------------------------------
(* Runtime: ring requests and the completion interrupt.                    *)

\* The self-tests are over and the big kernel lock is free.
Runtime == tests = <<>> /\ poller = NoReq /\ ~draining

\* sys_frame_alloc and sys_cap_release on a frame, as far as DMA cares.
TakeFrame(c, f) ==
  /\ Runtime /\ owner[f] = "free"
  /\ owner' = [owner EXCEPT ![f] = c]
  /\ UNCHANGED <<bootVars, poolVars, queueVars, blkDeviceVars, clientVars, draining>>

GiveFrame(c, f) ==
  /\ Runtime /\ owner[f] = c /\ c \notin parked
  /\ owner' = [owner EXCEPT ![f] = "free"]
  /\ UNCHANGED <<bootVars, poolVars, queueVars, blkDeviceVars, clientVars, draining>>

\* ring_post; with the pool full it changes nothing (backpressure).
RingPost(c, f) ==
  /\ Runtime /\ c \notin parked /\ owner[f] = c
  /\ blkPool.free # <<>> /\ reqs < MaxBlkReqs
  /\ blkPool' = Submit([ring |-> c, ud |-> reqs + 1])
  /\ PostRequest(Top, reqs + 1, f, FALSE, FALSE)
  /\ UNCHANGED <<bootVars, blkDeviceVars, clientVars, last_used, draining, owner>>

\* complete_irq, first half: the interrupt is acknowledged at the device.
IrqAck ==
  /\ Runtime /\ blkIrq
  /\ blkIrq' = FALSE
  /\ draining' = TRUE
  /\ UNCHANGED <<bootVars, poolVars, queueVars, clientVars, blkUsed, device, fault, owner>>

\* Second half: drain the ring, post every completion, wake the owners, EOI.
IrqDrain ==
  LET out == Drained.out
      to(c) == {out[i] :
                  i \in {j \in 1 .. Len(out) : out[j].target.ring = c}}
  IN /\ draining
     /\ Consume
     /\ unread' = [c \in BlkClients |-> unread[c] \cup to(c)]
     /\ parked' = {c \in parked : to(c) = {}}
     /\ draining' = FALSE
     /\ UNCHANGED <<bootVars, queueVars, blkDeviceVars, owner>>

\* ring_wait, and the reap that follows it.
Park(c) ==
  /\ Runtime /\ c \notin parked /\ unread[c] = {}
  /\ \E s \in BlkSlots : blkPool.routing[s] # NoReq /\ blkPool.routing[s].ring = c
  /\ parked' = parked \cup {c}
  /\ UNCHANGED <<bootVars, poolVars, queueVars, blkDeviceVars, unread, draining, owner>>

Reap(c) ==
  /\ c \notin parked /\ unread[c] # {}
  /\ unread' = [unread EXCEPT ![c] = {}]
  /\ UNCHANGED <<bootVars, poolVars, queueVars, blkDeviceVars, parked, draining, owner>>

\* init: queue 0 enabled, every slot free, the ring frames mapped, translation
\* on; then the self-tests of device 0.
BlkInit ==
  /\ tests = <<"ramp", "poison", "control">>
  /\ poller = NoReq
  /\ gave_up = FALSE
  /\ verdict = NoReq
  /\ blkPool = [routing |-> [s \in BlkSlots |-> NoReq],
             free |-> [i \in 1 .. Cardinality(BlkSlots) |-> i - 1]]
  /\ blkChain = [s \in BlkSlots |-> [id |-> NoReq, frame |-> NoReq, status |-> NoReq]]
  /\ blkAvail = [idx |-> 0, ring |-> [i \in 0 .. QSize - 1 |-> 0], quiet |-> FALSE]
  /\ blkUsed = [idx |-> 0, ring |-> [i \in 0 .. QSize - 1 |-> 0]]
  /\ last_used = 0
  /\ device = [seen |-> 0, busy |-> {}]
  /\ blkIrq = FALSE /\ draining = FALSE
  /\ unread = [c \in BlkClients |-> {}] /\ parked = {}
  /\ owner = [f \in BlkFrames |-> "free"]
  /\ domain = {}
  /\ fault = FALSE
  /\ reqs = 0

DeviceStep == DeviceTake \/ \E s \in BlkSlots, st \in {BLK_OK, 1} : DeviceServe(s, st)

\* A behaviour is followed to its first given-up read: the slot is then reused
\* under a device that may still answer, and nothing below holds any more.
BlkNext ==
  /\ ~gave_up
  /\ \/ DeviceStep
     \/ \E f \in BlkFrames : PollStart(f)
     \/ PollSees \/ PollTimesOut
     \/ \E c \in BlkClients, f \in BlkFrames :
          TakeFrame(c, f) \/ GiveFrame(c, f) \/ RingPost(c, f)
     \/ IrqAck \/ IrqDrain
     \/ \E c \in BlkClients : Park(c) \/ Reap(c)

BlkSpec == BlkInit /\ [][BlkNext]_blkVars

----------------------------------------------------------------------------
(* Properties.                                                             *)

\* Every answer that reaches a process or a self-test is the device's own
\* answer to that very request: complete_irq and the polling self-tests never
\* hand on a completion before the device has served the request, nor with
\* another request's status, though the device answers out of order.
AnswersServed ==
  /\ \A c \in BlkClients : \A u \in unread[c] : u.served /\ u.target.ring = c
  /\ verdict # NoReq => verdict.served

\* No completion is forgotten: while a finished request waits in the used ring
\* at runtime, its interrupt is asserted or the handler is about to drain.
CompletionSignalled == Runtime /\ Unseen # <<>> => blkIrq \/ draining

\* The fault control tells: an access outside the domain raises a fault and one
\* inside it raises none, whatever status the device reports.
FaultControl == verdict # NoReq /\ ~gave_up => (verdict.fault <=> verdict.test = "poison")

\* Each request is answered, once it is served, with its own answer.
CompletionsRight == AnswersServed /\ CompletionSignalled /\ FaultControl

============================================================================
