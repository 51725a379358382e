--------------------------- MODULE DirectBinding ---------------------------
(***************************************************************************)
(* A directly bound block device: its bring-up with an IOMMU domain of its *)
(* own, the window bind_device maps into a library OS, the executor that   *)
(* writes descriptors there and waits in bind_wait, and the teardown that  *)
(* releasing the capability runs.  kernel/src/{virtio_blk,iommu,syscall}.rs*)
(* and the bound mode of libos/src/ring.rs, driven as bind-user drives it. *)
(*                                                                         *)
(* A frame is named for what it is for.  The device (external) serves the  *)
(* published chains in any order, concurrently with kernel and program.    *)
(***************************************************************************)
EXTENDS Naturals, Sequences, FiniteSets

CONSTANTS
  NoVal,      \* a model value: nothing
  Chains,     \* in-flight slots: min(qsize / 3, B_MAX_INFLIGHT)
  MaxBatch,   \* bound: reads joined in one block_on
  MaxReads    \* bound: reads ever created

VARIABLES
  unit,     \* the remapping unit: up, enabled, bound context entry, domain, fault
  dev,      \* the bound device's record: "off", "failed", "ready" or "gone"
  use,      \* frame |-> "free", "kernel" (held for the binding) or "other"
  window,   \* the frames mapped into the library OS
  pc,       \* where the program is
  unbind,   \* progress of a release: NoVal, "reset" or "freed"
  reads,    \* cookie |-> the BoundRead future
  slot_cookie, \* slot |-> the read in flight on it, 0 when free
  bound_done,  \* the done table: cookie and status, oldest first
  chain,    \* slot |-> what its descriptors say
  avail,    \* chain heads published and not yet taken by the device
  used,     \* chain heads the device finished, oldest first
  used_seen,\* used elements the reactor has reaped
  cell,     \* slot |-> the read whose sector its data sub-buffer holds
  busy,     \* slots the device is serving
  rung,     \* the doorbell was rung since the last take
  irq,      \* the completion interrupt is pending
  waiter    \* the holder is parked in bind_wait

bindVars == <<unit, dev, use, window, pc, unbind, reads, slot_cookie, bound_done, chain,
              avail, used, used_seen, cell, busy, rung, irq, waiter>>

bringUpVars  == <<unit, dev, use, unbind>>
deviceVars   == <<avail, used, busy, cell, irq>>
reactorVars  == <<reads, slot_cookie, bound_done, chain, used_seen>>

RingFrames == {"desc", "avail", "used", "buf", "data"}
Scratch == "scratch"
BindFrames == RingFrames \cup {Scratch}

Slots == 1 .. Chains
Cookies == 1 .. MaxReads
OK == 0
TIMEOUT == 254     \* B_STATUS_TIMEOUT
SENTINEL == 255    \* the status byte before the device writes it

\* What a BoundRead future holds; joined: it belongs to the batch of the moment.
BoundReads ==
  [slot : Slots \cup {NoVal}, posted : BOOLEAN, poison : BOOLEAN,
   result : {NoVal, OK, TIMEOUT}, joined : BOOLEAN]

ASSUME BindingAssumption ==
  /\ Chains \in Nat \ {0} /\ MaxBatch \in Nat /\ MaxReads \in Nat
  /\ NoVal \notin Nat /\ NoVal \notin BoundReads /\ NoVal \notin {"reset", "freed"}

----------------------------------------------------------------------------
(* Bring-up.                                                               *)

\* init of the kernel-bridged devices: block_prepare_device brings the unit up
\* when there is one and the device's DMA goes through it.
PrepareBlock(through) ==
  /\ pc = "boot" /\ dev = "off" /\ ~unit.up
  /\ through
  /\ unit' = [unit EXCEPT !.up = TRUE]
  /\ UNCHANGED <<dev, use, unbind, window, pc, reactorVars, deviceVars, rung, waiter>>

\* init of the bound device.  It needs ACCESS_PLATFORM, the unit, and a queue;
\* four ring frames are taken before the last two are known, and a failure
\* keeps them.  bind_prepare maps them, bind_map_dma the data frame.
InitBound(access_platform, qsize) ==
  /\ pc = "boot" /\ dev = "off"
  /\ LET works == access_platform /\ unit.up /\ qsize > 0
         prepared == access_platform /\ unit.up
     IN /\ dev' = IF works THEN "ready" ELSE "failed"
        /\ use' = [f \in BindFrames |->
                     IF f \in RingFrames \ {"data"} \/ (works /\ f = "data")
                     THEN "kernel" ELSE use[f]]
        /\ unit' = IF ~prepared THEN unit
                   ELSE [unit EXCEPT !.context = TRUE,
                           !.domain = IF works THEN RingFrames ELSE RingFrames \ {"data"}]
  /\ UNCHANGED <<unbind, window, pc, reactorVars, deviceVars, rung, waiter>>

\* block_enable, then bind_selftest_read: a scratch frame is mapped, read into
\* and freed; its mapping stays.  Ends boot.
EnableAndSelftest ==
  /\ pc = "boot" /\ dev # "off"
  /\ unit' = [unit EXCEPT !.enabled = unit.up,
                          !.domain = IF dev = "ready" THEN @ \cup {Scratch} ELSE @]
  /\ pc' = IF dev = "ready" THEN "start" ELSE "exited"
  /\ UNCHANGED <<dev, use, unbind, window, reactorVars, deviceVars, rung, waiter>>

----------------------------------------------------------------------------
(* The library OS: init_bound, read_bound, join, block_on.                 *)

\* sys_bind_device through init_bound: six pages mapped, none recorded.  The
\* reap cursor starts at the index the self-test left.
BindDevice ==
  /\ pc = "start"
  /\ window' = RingFrames
  /\ used_seen' = Len(used)
  /\ pc' = "idle"
  /\ UNCHANGED <<bringUpVars, deviceVars, reads, slot_cookie, bound_done, chain, rung, waiter>>

\* bound_alloc for the i-th of the reads created together: the i-th free slot.
IdleSlots == {s \in Slots : slot_cookie[s] = 0}

NthFree(i) ==
  IF i > Cardinality(IdleSlots) THEN NoVal
  ELSE CHOOSE s \in IdleSlots : Cardinality({t \in IdleSlots : t <= s}) = i

Created == {c \in Cookies : reads[c] # NoVal}

Batch == {c \in Created : reads[c].joined}

\* read_bound / read_bound_poison, n of them, joined: a slot is claimed at
\* creation, nothing is posted before the first poll.  (A program that uses a
\* window whose frames have a new owner is not followed.)
JoinReads(n, poison) ==
  LET first == Cardinality(Created)
      new(c) == c - first
  IN /\ pc = "idle" /\ first + n <= MaxReads
     /\ \A f \in window : use[f] # "other"
     /\ reads' = [c \in Cookies |->
          IF new(c) \in 1 .. n
          THEN [slot |-> NthFree(new(c)), posted |-> FALSE, poison |-> poison,
                result |-> IF NthFree(new(c)) = NoVal THEN TIMEOUT ELSE NoVal,
                joined |-> TRUE]
          ELSE IF c \in Created THEN [reads[c] EXCEPT !.joined = FALSE] ELSE NoVal]
     /\ slot_cookie' = [s \in Slots |->
          IF \E i \in 1 .. n : NthFree(i) = s
          THEN first + CHOOSE i \in 1 .. n : NthFree(i) = s ELSE slot_cookie[s]]
     /\ cell' = [s \in Slots |-> IF \E i \in 1 .. n : NthFree(i) = s THEN 0 ELSE cell[s]]
     /\ pc' = "poll"
     /\ UNCHANGED <<bringUpVars, window, bound_done, chain, avail, used, used_seen, busy,
                    rung, irq, waiter>>

\* The entries of a sequence at some of its places, in order.
AtPlaces(q, places) ==
  [i \in 1 .. Cardinality(places) |->
     q[CHOOSE k \in places : Cardinality({j \in places : j <= k}) = i]]

\* take, for read c: the place of its oldest staged status, if there is one.
StagedFor(c) ==
  {i \in 1 .. Len(bound_done) :
     bound_done[i].ud = c /\ \A j \in 1 .. i - 1 : bound_done[j].ud # c}

\* The reads of the batch that are polled.
Unfinished == {c \in Batch : reads[c].result = NoVal}

\* The reads of the batch that reach bound_enqueue on this poll, in order.
ToPost == {c \in Unfinished : ~reads[c].posted}

\* One poll of the joined future: every unfinished read posts its chain if it
\* has not, and takes its completion if it is staged.
Poll ==
  /\ pc = "poll"
  /\ reads' = [c \in Cookies |->
       IF c \notin Unfinished THEN reads[c]
       ELSE [slot |-> reads[c].slot, posted |-> TRUE, poison |-> reads[c].poison,
             result |-> IF StagedFor(c) = {} THEN NoVal
                        ELSE bound_done[CHOOSE i \in StagedFor(c) : TRUE].status,
             joined |-> TRUE]]
  /\ chain' = [s \in Slots |->
       IF slot_cookie[s] \in ToPost
       THEN [ud |-> slot_cookie[s], frame |-> IF reads[slot_cookie[s]].poison
                                              THEN "poison" ELSE "data", status |-> SENTINEL]
       ELSE chain[s]]
  /\ avail' = avail \cup {reads[c].slot : c \in ToPost}
  /\ bound_done' = AtPlaces(bound_done, (1 .. Len(bound_done))
                                         \ UNION {StagedFor(c) : c \in Unfinished})
  /\ pc' = IF \A c \in Batch : reads'[c].result # NoVal THEN "idle" ELSE "ring"
  /\ UNCHANGED <<bringUpVars, window, slot_cookie, used, used_seen, cell, busy, rung,
                 irq, waiter>>

\* bound_doorbell: one ring for the whole batch.
Doorbell ==
  /\ pc = "ring"
  /\ rung' = TRUE
  /\ pc' = "check"
  /\ UNCHANGED <<bringUpVars, window, reactorVars, deviceVars, waiter>>

\* bound_park's own look at the used index.
CheckUsed ==
  /\ pc = "check"
  /\ pc' = IF Len(used) = used_seen THEN "wait" ELSE "reap"
  /\ UNCHANGED <<bringUpVars, window, reactorVars, deviceVars, rung, waiter>>

\* Mutant: bind_wait parks without a second look at the used index.
BindWaitBlind ==
  /\ pc = "wait" /\ dev = "ready"
  /\ waiter' = TRUE
  /\ pc' = "parked"
  /\ UNCHANGED <<bringUpVars, window, reactorVars, deviceVars, rung>>

\* bind_wait: the index is read again under the lock; park only if unmoved.
BindWait ==
  /\ pc = "wait" /\ dev = "ready"
  /\ waiter' = (Len(used) = used_seen)
  /\ pc' = IF Len(used) = used_seen THEN "parked" ELSE "check"
  /\ UNCHANGED <<bringUpVars, window, reactorVars, deviceVars, rung>>

\* The cookies in flight, in the order of their slots.
Outstanding == AtPlaces(slot_cookie, {s \in Slots : slot_cookie[s] # 0})

\* bind_wait refuses a capability that is gone; bound_fail_all resolves every read
\* in flight.
BindWaitFails ==
  /\ pc = "wait" /\ dev # "ready"
  /\ bound_done' = bound_done \o [i \in 1 .. Len(Outstanding) |->
                            [ud |-> Outstanding[i], status |-> TIMEOUT]]
  /\ slot_cookie' = [s \in Slots |-> 0]
  /\ pc' = "reap"
  /\ UNCHANGED <<bringUpVars, window, reads, chain, used_seen, deviceVars, rung, waiter>>

\* Mutant: the chain head is taken for the slot.
SlotOfHeadRaw(n) == (used[n] % Chains) + 1

\* The slot a used element names: its head over three.
SlotOfHead(n) == used[n]

\* bound_reap: every new used element frees its slot and stages its status.
BoundReap ==
  LET new == used_seen + 1 .. Len(used)
      done(n) == SlotOfHead(n)
  IN /\ pc = "reap"
     /\ bound_done' = bound_done \o [i \in 1 .. Len(used) - used_seen |->
                     [ud |-> slot_cookie[done(used_seen + i)],
                      status |-> chain[done(used_seen + i)].status]]
     /\ slot_cookie' = [s \in Slots |-> IF \E n \in new : done(n) = s THEN 0
                                        ELSE slot_cookie[s]]
     /\ used_seen' = Len(used)
     /\ pc' = "poll"
     /\ UNCHANGED <<bringUpVars, window, reads, chain, deviceVars, rung, waiter>>

----------------------------------------------------------------------------
(* The device (external) and its interrupt.                                *)

DeviceFetch(s) ==
  /\ rung /\ s \in avail /\ dev = "ready"
  /\ avail' = avail \ {s}
  /\ busy' = busy \cup {s}
  /\ rung' = (avail # {s})
  /\ UNCHANGED <<bringUpVars, window, pc, reactorVars, used, cell, irq, waiter>>

\* The data goes where the domain says; an address it does not map faults and
\* nothing lands, though the status byte and the used element still do.
DeviceFinish(s) ==
  LET lands == chain[s].frame \in unit.domain
  IN /\ s \in busy
     /\ busy' = busy \ {s}
     /\ cell' = IF lands THEN [cell EXCEPT ![s] = chain[s].ud] ELSE cell
     /\ unit' = [unit EXCEPT !.fault = @ \/ ~lands]
     /\ chain' = [chain EXCEPT ![s].status = OK]
     /\ used' = Append(used, s)
     /\ irq' = TRUE
     /\ UNCHANGED <<dev, use, unbind, window, pc, reads, slot_cookie, bound_done, used_seen,
                    avail, rung, waiter>>

\* complete_irq, bound branch: wake whoever is parked, touch no ring.
BoundIrq ==
  /\ irq
  /\ irq' = FALSE
  /\ waiter' = FALSE
  /\ pc' = IF waiter THEN "check" ELSE pc
  /\ UNCHANGED <<bringUpVars, window, reactorVars, avail, used, busy, cell, rung>>

----------------------------------------------------------------------------
(* cap_release of the BoundDevice: unbind, in its three stages.            *)

\* The record is taken and the device reset: nothing is served any more.
UnbindReset ==
  /\ pc = "idle" /\ dev = "ready"
  /\ dev' = "gone"
  /\ busy' = {}
  /\ unbind' = "reset"
  /\ pc' = "release"
  /\ UNCHANGED <<unit, use, window, reactorVars, avail, used, cell, rung, irq, waiter>>

\* The five frames go back to the allocator.
UnbindFree ==
  /\ unbind = "reset"
  /\ use' = [f \in BindFrames |-> IF f \in RingFrames THEN "free" ELSE use[f]]
  /\ unbind' = "freed"
  /\ UNCHANGED <<unit, dev, window, pc, reactorVars, deviceVars, rung, waiter>>

\* bind_teardown: context entry cleared, table frames freed, unit flushed.
BindTeardown ==
  /\ unbind = "freed"
  /\ unit' = [unit EXCEPT !.context = FALSE, !.domain = {}]
  /\ unbind' = NoVal
  /\ pc' = "idle"
  /\ UNCHANGED <<dev, use, window, reactorVars, deviceVars, rung, waiter>>

\* Another process allocates a frame.
OtherAllocates(f) ==
  /\ use[f] = "free" /\ pc \in {"idle", "release"} /\ unbind # "reset"
  /\ use' = [use EXCEPT ![f] = "other"]
  /\ UNCHANGED <<unit, dev, unbind, window, pc, reactorVars, deviceVars, rung, waiter>>

----------------------------------------------------------------------------
BindInit ==
  /\ unit = [up |-> FALSE, enabled |-> FALSE, context |-> FALSE, domain |-> {},
             fault |-> FALSE]
  /\ dev = "off" /\ pc = "boot" /\ unbind = NoVal
  /\ use = [f \in BindFrames |-> "free"]
  /\ window = {}
  /\ reads = [c \in Cookies |-> NoVal]
  /\ slot_cookie = [s \in Slots |-> 0]
  /\ chain = [s \in Slots |-> [ud |-> 0, frame |-> "data", status |-> SENTINEL]]
  /\ bound_done = <<>> /\ avail = {} /\ used = <<>> /\ used_seen = 0
  /\ cell = [s \in Slots |-> 0]
  /\ busy = {} /\ rung = FALSE /\ irq = FALSE /\ waiter = FALSE

Executor ==
  \/ BindDevice \/ Poll \/ Doorbell \/ CheckUsed \/ BindWait \/ BindWaitFails \/ BoundReap
  \/ \E n \in 1 .. MaxBatch, poison \in BOOLEAN : JoinReads(n, poison)

BoundDeviceStep == \E s \in Slots : DeviceFetch(s) \/ DeviceFinish(s)

BindNext ==
  \/ \E through \in BOOLEAN : PrepareBlock(through)
  \/ \E access_platform \in BOOLEAN, qsize \in {0, 3 * Chains} : InitBound(access_platform, qsize)
  \/ EnableAndSelftest
  \/ Executor
  \/ BoundDeviceStep
  \/ BoundIrq
  \/ UnbindReset \/ UnbindFree \/ BindTeardown
  \/ \E f \in BindFrames : OtherAllocates(f)

\* A step the program owes: everything but a new join, or a first bind.
BoundProgramStep ==
  Poll \/ Doorbell \/ CheckUsed \/ BindWait \/ BindWaitFails \/ BoundReap

\* The device serves what it is told of, its interrupt is delivered, and the
\* scheduler runs a process that is not blocked.
BindFairness ==
  /\ WF_bindVars(BoundDeviceStep)
  /\ WF_bindVars(BoundIrq)
  /\ WF_bindVars(BoundProgramStep)

BindSpec == BindInit /\ [][BindNext]_bindVars /\ BindFairness

----------------------------------------------------------------------------
(* Properties.                                                             *)

\* A read that got a slot and is reported as done has been served: its status is
\* the device's, its sector is in its own sub-buffer, and a poisoned one left
\* nothing there.  Overlapping reads finished in any order, several per wake, are
\* never crossed, and the domain confines the device.
OverlapDelivers ==
  \A c \in Batch : reads[c].slot # NoVal /\ reads[c].result \notin {NoVal, TIMEOUT} =>
    /\ reads[c].result = OK
    /\ cell[reads[c].slot] = IF reads[c].poison THEN 0 ELSE c

\* No completion is lost between the program's look at the used ring and its
\* park, and none is waited for on a released device: block_on always returns.
BlockOnReturns == (pc = "poll") ~> (pc = "idle")

============================================================================
