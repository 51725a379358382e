----------------------------- MODULE RemapUnit -----------------------------
(***************************************************************************)
(* The remapping unit of kernel/src/iommu.rs: the device tables, the       *)
(* enabling of translation, and the invalidations that make a change of    *)
(* the tables seen, by register polls (VT-d) or through a command ring and *)
(* a semaphore in memory (AMD-Vi).  Every poll has a limit after which the *)
(* driver goes on.  The page tables are in module DmaTables; here a domain *)
(* is the set of pages it maps.                                            *)
(***************************************************************************)
EXTENDS Naturals, Sequences, FiniteSets

CONSTANTS
  NoDomain,     \* a model value: an absent entry, nothing cached
  BlockDevs,    \* the kernel's block devices, in the shared domain
  BoundDev,     \* the directly bound device, in its own domain
  IoPages,      \* pages a domain may map
  CmdRing,      \* entries of AMD-Vi's command ring
  MaxWaits      \* bound: completion waits ever posted

ASSUME RemapAssumption ==
  /\ BoundDev \notin BlockDevs
  /\ CmdRing \in Nat /\ CmdRing > 1 /\ MaxWaits \in Nat

VARIABLES
  backend,    \* "Vtd" or "AmdVi"
  entry,      \* device |-> the domain its table entry names
  pages,      \* domain |-> the pages it maps, or NoDomain once freed
  enabled,    \* BlockIommu::enabled
  phase,      \* what the driver is doing
  late,       \* the last wait for an invalidation was given up
  rtps, tes,  \* the unit has its root pointer, translates
  icc, ivt,   \* VT-d: an invalidation of contexts, of the IOTLB is requested
  cmds,       \* AMD-Vi: the commands the unit has not executed
  sem,        \* AMD-Vi: the semaphore in memory
  sem_val,    \* AMD-Vi: the value of the last wait
  ctx,        \* device |-> the entry the unit has cached
  iotlb       \* domain |-> the pages cached as present, as absent

tableVars   == <<backend, entry, pages, enabled>>
requestVars == <<rtps, tes, icc, ivt, cmds, sem>>
cacheVars   == <<ctx, iotlb>>
remapVars   == <<tableVars, phase, late, requestVars, sem_val, cacheVars>>

BLOCK_DID == 1
BOUND_DID == 2
Domains == {BLOCK_DID, BOUND_DID}
RemapDevices == BlockDevs \cup {BoundDev}

Idle == phase = "idle"
Uncached == [d \in RemapDevices |-> NoDomain]
NoPages  == [did \in Domains |-> [present |-> {}, absent |-> {}]]

\* VtdUnit::bring_up leaves translation off and nothing requested.
RegistersReset == rtps = FALSE /\ tes = FALSE /\ icc = FALSE /\ ivt = FALSE

\* AmdViUnit::bring_up points the unit at an empty command ring.
CommandRingReset == cmds = <<>> /\ sem = 0 /\ sem_val = 0

\* The unit of the first vendor found, with empty tables.
RemapInit ==
  /\ backend \in {"Vtd", "AmdVi"}
  /\ entry = Uncached
  /\ pages = [did \in Domains |-> {}]
  /\ enabled = FALSE /\ phase = "idle" /\ late = FALSE
  /\ RegistersReset /\ CommandRingReset
  /\ ctx = Uncached /\ iotlb = NoPages

----------------------------------------------------------------------------
(* The device tables.                                                      *)

\* set_device: a context entry or a device table entry.
SetDevice(d, did) == entry' = [entry EXCEPT ![d] = did]

\* clear_device.
ClearDevice(d) == entry' = [entry EXCEPT ![d] = NoDomain]

\* block_prepare_device: the fixed frames, then the entry.
PrepareDevice(d) ==
  /\ Idle /\ ~enabled /\ d \in BlockDevs
  /\ \E fixed \in IoPages : pages' = [pages EXCEPT ![BLOCK_DID] = @ \cup {fixed}]
  /\ SetDevice(d, BLOCK_DID)
  /\ UNCHANGED <<backend, enabled, phase, late, requestVars, sem_val, cacheVars>>

\* bind_prepare: its own domain; the unit is up once a block device is prepared.
BindPrepare ==
  /\ Idle /\ ~enabled /\ entry[BoundDev] = NoDomain
  /\ \E d \in BlockDevs : entry[d] # NoDomain
  /\ \E fixed \in IoPages : pages' = [pages EXCEPT ![BOUND_DID] = {fixed}]
  /\ SetDevice(BoundDev, BOUND_DID)
  /\ UNCHANGED <<backend, enabled, phase, late, requestVars, sem_val, cacheVars>>

----------------------------------------------------------------------------
(* Invalidation.                                                           *)

\* post_command: the tail moves on without a look at the head, and a ring
\* whose tail has reached its head is empty.  With so many waits given up that
\* this happens, CachesCoherent fails: the flush is lost, the wait after it is
\* not (CmdRing <= 2 * MaxWaits shows it; the ring has 256 entries).
PostCommand(ring, cmd) == IF Len(ring) + 1 = CmdRing THEN <<>> ELSE Append(ring, cmd)

\* Mutant: every wait waits for the same value.
WaitTargetFixed == 1

\* completion_wait: a value of its own for each wait.
WaitTarget == sem_val + 1

\* invalidate_all of VT-d begins: a request to the context register.
RequestFlush == icc' = TRUE /\ UNCHANGED <<ivt, cmds, sem, sem_val>>

\* AmdViUnit::invalidate_all begins: a flush and a wait in the command ring,
\* with the semaphore cleared in between.
PostFlush ==
  /\ sem_val < MaxWaits
  /\ sem_val' = WaitTarget
  /\ sem' = 0
  /\ cmds' = PostCommand(PostCommand(cmds, 0), WaitTarget)
  /\ UNCHANGED <<icc, ivt>>

BeginInvalidate == IF backend = "Vtd" THEN RequestFlush ELSE PostFlush

WaitFor == IF backend = "Vtd" THEN "contexts" ELSE "completion"

\* VT-d: contexts first, then the IOTLB; each poll sees its bit clear or gives
\* up, and only what was seen counts.
ContextsFlushed(seen) ==
  /\ phase = "contexts" /\ (seen => ~icc)
  /\ ivt' = TRUE
  /\ phase' = "iotlb" /\ late' = ~seen
  /\ UNCHANGED <<tableVars, rtps, tes, icc, cmds, sem, sem_val, cacheVars>>

IotlbFlushed(seen) ==
  /\ phase = "iotlb" /\ (seen => ~ivt)
  /\ phase' = "idle" /\ late' = (late \/ ~seen)
  /\ UNCHANGED <<tableVars, requestVars, sem_val, cacheVars>>

\* AMD-Vi: the semaphore has the value of this wait, or the poll gives up.
CompletionSeen(seen) ==
  /\ phase = "completion" /\ (seen => sem = sem_val)
  /\ phase' = "idle" /\ late' = ~seen
  /\ UNCHANGED <<tableVars, requestVars, sem_val, cacheVars>>

----------------------------------------------------------------------------
(* Enabling, and the changes afterwards.                                   *)

\* VtdUnit::enable: the root pointer, acknowledged; translation, acknowledged;
\* a poll given up ends the call.  Then all caches are flushed.
VtdEnable == phase' = "rtps" /\ UNCHANGED <<enabled, requestVars, sem_val>>

\* AmdViUnit::enable: one write, and the flush.
AmdViEnable ==
  /\ tes' = TRUE /\ UNCHANGED rtps
  /\ BeginInvalidate
  /\ enabled' = TRUE /\ phase' = WaitFor

\* block_enable.
Enable ==
  /\ Idle /\ ~enabled /\ \E d \in BlockDevs : entry[d] # NoDomain
  /\ IF backend = "Vtd" THEN VtdEnable ELSE AmdViEnable
  /\ UNCHANGED <<backend, entry, pages, late, cacheVars>>

RootSet ==
  /\ phase = "rtps" /\ rtps /\ phase' = "tes"
  /\ UNCHANGED <<tableVars, late, requestVars, sem_val, cacheVars>>

TranslationSet ==
  /\ phase = "tes" /\ tes
  /\ BeginInvalidate
  /\ enabled' = TRUE /\ phase' = WaitFor
  /\ UNCHANGED <<backend, entry, pages, late, rtps, tes, cacheVars>>

EnableFails ==
  /\ phase \in {"rtps", "tes"} /\ phase' = "off"
  /\ UNCHANGED <<tableVars, late, requestVars, sem_val, cacheVars>>

\* Mutant: a page that was not mapped before is mapped without a flush.
AfterMapNothing(added) == phase' = phase /\ UNCHANGED <<requestVars, sem_val>>

\* A new mapping is flushed for; one that was there needs nothing.
AfterMap(added) ==
  IF added THEN BeginInvalidate /\ phase' = WaitFor /\ UNCHANGED <<rtps, tes>>
  ELSE phase' = phase /\ UNCHANGED <<requestVars, sem_val>>

\* block_map_dma, once enabled.
BlockMapDma(p) ==
  /\ Idle /\ enabled
  /\ pages' = [pages EXCEPT ![BLOCK_DID] = @ \cup {p}]
  /\ AfterMap(p \notin pages[BLOCK_DID])
  /\ UNCHANGED <<backend, entry, enabled, late, cacheVars>>

\* bind_map_dma: a page of its own every time.
BindMapDma(p) ==
  /\ Idle /\ enabled /\ entry[BoundDev] # NoDomain /\ p \notin pages[BOUND_DID]
  /\ pages' = [pages EXCEPT ![BOUND_DID] = @ \cup {p}]
  /\ AfterMap(TRUE)
  /\ UNCHANGED <<backend, entry, enabled, late, cacheVars>>

\* bind_teardown: the entry goes, then the domain, then the flush.  The caller
\* has reset the device.
Detach ==
  /\ Idle /\ enabled /\ entry[BoundDev] # NoDomain
  /\ ClearDevice(BoundDev)
  /\ phase' = "detached"
  /\ UNCHANGED <<backend, pages, enabled, late, requestVars, sem_val, cacheVars>>

FreeDomain ==
  /\ phase = "detached"
  /\ pages' = [pages EXCEPT ![BOUND_DID] = {}]
  /\ AfterMap(TRUE)
  /\ UNCHANGED <<backend, entry, enabled, late, cacheVars>>

----------------------------------------------------------------------------
(* The unit.                                                               *)

\* It takes the root pointer, then translation, in its own time.
UnitAcks ==
  /\ backend = "Vtd"
  /\ \/ phase \in {"rtps", "off"} /\ ~rtps /\ rtps' = TRUE /\ UNCHANGED tes
     \/ phase \in {"tes", "off"} /\ rtps /\ ~tes /\ tes' = TRUE /\ UNCHANGED rtps
  /\ UNCHANGED <<tableVars, phase, late, icc, ivt, cmds, sem, sem_val, cacheVars>>

\* VT-d: a requested flush.
UnitFlushes ==
  /\ \/ icc /\ icc' = FALSE /\ ctx' = Uncached /\ UNCHANGED <<ivt, iotlb>>
     \/ ivt /\ ivt' = FALSE /\ iotlb' = NoPages /\ UNCHANGED <<icc, ctx>>
  /\ UNCHANGED <<tableVars, phase, late, rtps, tes, cmds, sem, sem_val>>

\* AMD-Vi: the next command; 0 flushes everything, a value goes to the semaphore.
UnitExecutes ==
  /\ tes /\ cmds # <<>>
  /\ cmds' = Tail(cmds)
  /\ IF Head(cmds) = 0 THEN ctx' = Uncached /\ iotlb' = NoPages /\ UNCHANGED sem
     ELSE sem' = Head(cmds) /\ UNCHANGED cacheVars
  /\ UNCHANGED <<tableVars, phase, late, rtps, tes, icc, ivt, sem_val>>

\* A device's access: the entry and the page, from the caches or from memory,
\* are cached, absent pages too (caching mode).  The bound device is quiet once
\* it has been reset.
UnitTranslates(d, p) ==
  LET did  == IF ctx[d] # NoDomain THEN ctx[d] ELSE entry[d]
      here == IF p \in iotlb[did].present THEN TRUE
              ELSE IF p \in iotlb[did].absent THEN FALSE
              ELSE p \in pages[did]
  IN /\ tes /\ did # NoDomain
     /\ d = BoundDev => entry[BoundDev] # NoDomain
     /\ ctx' = [ctx EXCEPT ![d] = did]
     /\ iotlb' = IF here THEN [iotlb EXCEPT ![did].present = @ \cup {p}]
                 ELSE [iotlb EXCEPT ![did].absent = @ \cup {p}]
     /\ UNCHANGED <<tableVars, phase, late, requestVars, sem_val>>

RemapNext ==
  \/ \E d \in BlockDevs : PrepareDevice(d)
  \/ BindPrepare \/ Enable \/ RootSet \/ TranslationSet \/ EnableFails
  \/ \E seen \in BOOLEAN : ContextsFlushed(seen) \/ IotlbFlushed(seen) \/ CompletionSeen(seen)
  \/ \E p \in IoPages : BlockMapDma(p) \/ BindMapDma(p)
  \/ Detach \/ FreeDomain
  \/ UnitAcks \/ UnitFlushes \/ UnitExecutes
  \/ \E d \in RemapDevices, p \in IoPages : UnitTranslates(d, p)

RemapSpec == RemapInit /\ [][RemapNext]_remapVars

----------------------------------------------------------------------------
(* Properties.                                                             *)

\* When the driver has seen its flush complete, nothing the unit has cached
\* contradicts the tables: no device is routed through an entry that is gone,
\* no mapped page is refused, no freed page is reached.  That holds although
\* earlier waits may have been given up and their completions come late.
CachesCoherent ==
  (Idle /\ enabled /\ ~late) =>
    /\ \A d \in RemapDevices : ctx[d] # NoDomain => ctx[d] = entry[d]
    /\ \A did \in Domains : /\ iotlb[did].present \subseteq pages[did]
                            /\ iotlb[did].absent \cap pages[did] = {}

============================================================================
