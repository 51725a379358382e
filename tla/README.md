# Plinth-OS in TLA+

Plinth is an exokernel: it owns physical memory, CPU time and a few devices and
multiplexes them through capabilities; everything else is unprivileged library
code. This directory models the kernel, its devices and the programs on top where
correctness depends on the order of things -- who holds what, who waits for whom,
what happens when somebody dies, or a device answers, half-way -- checks them with TLC on small systems and proves the
central ones with TLAPS for every system size.

## 1. The system

| Part | State | Operations | Source |
|---|---|---|---|
| Capability tables | per process: 16 slots, a reserved bit per slot; a capability has an object, rights and an origin (who lent it, from which slot) | mint, install, revoke, reserve, reclaim_to, install_home, clear_origin, charge, drain | `kernel/src/capability.rs` |
| IPC endpoints | per endpoint: sender and receiver counts, one wait queue of one side; per process: what a blocked sender carries | send, recv, call, reply; create, count, release, reap | `kernel/src/ipc.rs` |
| Process table and lending | per process: Empty, Ready, Running, Blocked; the landing slot to report | spawn, block, wake, exit, reclaim lent capabilities, sweep origins | `kernel/src/scheduler.rs`, `process.rs` |
| System calls | the caller's table, its mappings, its CPU budget | frame_alloc, frame_map, fb_map, cap_release, cpu_charge, spawn, bind_device, fault_reg/return, ring calls | `kernel/src/syscall.rs` |
| Scheduler | per core: current process, run queue, quantum; the big kernel lock; halted cores | timer tick, block, exit, wake, steal, idle, reschedule IPI | `scheduler.rs`, `bkl.rs`, `percpu.rs`, `irq.rs`, `smp.rs` |
| Completion rings | per ring: submission and completion indices in shared memory, a waiter | enter, post, wait, release | `rings.rs` |
| Input events | per source: subscriptions, drop counts | arm, disarm, deliver | `input.rs`, `keyboard.rs`, `mouse.rs`, `xhci.rs` |
| Block device | per device: virtqueue, requests in flight, binding | submit, interrupt, bind, bind_wait, unbind | `virtio_blk.rs` |
| IOMMU | per domain: page tables; invalidation queue | attach, map, unmap, invalidate | `iommu.rs` |
| Frame allocator | a bitmap and a search hint | alloc, dealloc | `frame_alloc.rs` |
| Faults | per process: upcall registration, in-handler flag | fault_reg, page fault, fault_return | `fault.rs` |
| Loading and paging | page tables, ELF segments | create/destroy address space, map, unmap | `memory.rs`, `elf.rs` |
| Library OSes | executor and ring reactor; filesystems; keymaps; allocators | poll, wake, submit; create, delete, read | `libos`, `librwfs`, `libfs`, `libinput`, `demo-app` |
| Programs | the shell: screen, pointer, selection, streams; the demos: their place and the slots they hold | event loop, views, launching; the boot's batches in order | `shell-user`, the other `*-user` crates, `main.rs` |
| Bring-up and devices | tables, PCI, ACPI, NVMe, serial, framebuffer console | start-up sequences | `acpi.rs`, `pci.rs`, `nvme.rs`, `console.rs`, `fbcon.rs`, ... |

How they meet: every system call and every interrupt that touches shared kernel
state takes the big kernel lock (`bkl.rs`) and keeps it to its return, or, when
it blocks, until the next process is resumed or the core goes idle. The scheduler
owns the process table; IPC, rings and the block device block the current process
and wake others through `wake_with`. Capabilities are the only names a process
has for anything, and death walks the dying table to release each of them.

What is hard here: a capability that leaves one table and enters another with
failure paths in between; reference counts kept by hand at a dozen sites;
deciding at block time and at death time that nobody is left to answer; loans
that must find their way home through a chain of borrowers any of whom may die;
slots of the process table and of the endpoint table being reused; the lock being
handed from one core's system call to another process's resume. PROJECT.json
lists these hazards at the line where each bites.

## 2. Modules

| Module | Models |
|---|---|
| `Capability` | capability tables as values: landing rules, lending, reservations, release decisions |
| `KernelIpc` | the process table, endpoints, mappings and frames, and every system call that moves, mints or destroys a capability |
| `Loans` | abstract: what the kernel promises about a capability it cannot mint again |
| `KernelLoans` | the refinement mapping from `KernelIpc` to `Loans` |
| `KernelIpcProofs`, `KernelSafetyProofs`, `KernelLoansProofs` | theorems about `KernelIpc`, each module on top of the one before |
| `MCKernelIpc` | boot scenarios for TLC |
| `Scheduler` | cores, run queues, preemption, blocking, stealing, the idle loops and `run` |
| `SchedulerProofs` | its theorems |
| `MCScheduler` | which cores are online |
| `Rings` | completion rings, event subscriptions, requests in flight |
| `RingsProofs` | its theorems |
| `MCRings` | the symmetry of cookies |
| `DmaTables` | an IOMMU domain's page tables and the allocator of device addresses |
| `RemapUnit` | the remapping unit: device tables, enabling, invalidation and the unit's caches |
| `BlockIo` | the kernel's own block device: virtqueue, boot tests, interrupt, shared domain |
| `DirectBinding` | a device bound to a library OS, from bring-up to release |
| `Xhci` | the USB keyboard: controller rings, enumeration, reports |
| `MCDevices` | the five together, one per behaviour |
| `Reactor` | the library OS's executor over one ring: futures, staging table, `block_on` |
| `RwFs` | the read-write filesystem: bitmap, directory, persistence |
| `FaultUpcall` | page-fault upcalls and self-paging programs |
| `Shell` | the shell's screen, pointer and event loop |
| `MCUserland` | the four together, one per behaviour |
| `Demos` | the boot's demos about what `KernelIpc` models |
| `MCDemos` | the empty boot |
| `ComponentProofs` | theorems about `RemapUnit`, `RwFs`, `Shell`, `Reactor` and `DirectBinding` |
| `DeviceProofs` | theorems about `Xhci` and `BlockIo` |
| `DmaProofs` | theorems about `DmaTables` |

### Capability and KernelIpc

State and code: `caps[p]` is the `CapTable` of process slot p (`slots`, and
`reserved` as a set instead of a bit mask), `state[p]` its `State` with Ready and
Running merged, `maps[p]` the records of `proc.maps` and `proc.fb_maps`, `eps[e]`
an `Endpoint` with its queue as a sequence, `pending[p]` the words `set_pending`
leaves for the receiver (which capability, and whether it is a call; the message
itself is left out, no decision reads it), `landing[p]` the slot's
`pending_landing`, `free` the allocator's frames. An object is its kind and a
number: the frame, the endpoint, the caller a Reply names, the ticks left of a
CPU budget.

Actions: `Send`, `Recv`, `Call`, `Reply` are the four operations of the gate, each
with its rendezvous, blocking and dead-peer outcomes as disjuncts; `FrameAlloc`,
`FrameMap`, `FbMap`, `CpuCharge`, `CapRelease`, `Spawn` the system calls; `Exit`,
`ReclaimLentCap`, `FinishExit` the death of a process. A call is one action since
it runs under the lock from entry to return or block. Death is one step for the
start, one per borrowed capability and one for the rest, with `exiting` for the
lock: nobody else moves in between, and the intermediate states are there for
`LoansSound` and the refinement to look at.

Left out: calls that fail change nothing and are stuttering steps; results are
not kept, except where a later step reads them (`landing`). Address-space and
image set-up is one nondeterministic outcome, `SpawnFails`. `Ring` and
`BoundDevice` capabilities are not handed out by this module's boot scenarios
(`Rings` and `DirectBinding` follow their life).
`LendKinds` and `ReleaseKinds` restrict what the programs of a run choose to lend
and release, never what the kernel does.

### Loans

An object has a holder and an owner. It is passed on, returned to its owner,
given up by an owner who holds it; a process dies only once it holds nothing
borrowed, and what it had lent then belongs to whoever has it. `ImplementsLoans`
says that the kernel does this, with the owner read off the capability's origin:
a hop that records the wrong lender, a death that destroys a borrowed screen, a
reused process slot inheriting a claim are all steps `Loans` does not have.

### Scheduler

State and code: `state[s]` is `TABLE[s].state`, with Blocked split into `Blocked`
(on a peer) and `Parked` (in `ring_wait`); `queue` is `CORE_QUEUE`, `current`
`CURRENT_SLOT`, `next_home` `NEXT_HOME_CORE`, `launcher` `IS_LAUNCHER`. `mode[c]`
says where a core is: in ring 3, in `run`'s set-up, back on the boot path, or
halted in one of the three loops -- `wait` (`switch_to_next`), `input`
(`idle_until_runnable`), `idle` (`ap_idle_loop`). `frame[c]` is the argument pair of
the `switch_to_next` call a halted core will go on with: the remembered position
and why it was called. `subs` and `inflight` are what the two `any_waiter`s look at.

Actions are kernel entries: `TimerTick`, `BlockCurrent`, `OnExit`, `WakePeer`,
`Spawn`, `RingSubmit` by a core in ring 3; `InputEvent`, `DiskCompletes` by devices;
`WakeInSwitch`, `WakeInInput`, `WakeInIdle` by a core that leaves `hlt`; `RunStart`,
`SetupProcess`, `SetupFails`, `RunEnter` by the boot path, with `bkl` held across
them. Each ends in one of the outcomes of `switch_to_next`: `ResumeProcess`, `Steal`,
`Park` in one of the loops, or the return to `run`. Which peers a death or a message
wakes is left open here (`KernelIpc` decides it); a scripted key and a USB report,
polled on the way into `idle_until_runnable`, may wake any parked subscriber.

`stub[c]` is the finer grain: after `timer_tick` has released the lock its core is
still on the preempted process's kernel stack until `timer_entry` loads the next
stack pointer.

### Rings

State and code: `ring` is `RINGS`, `mem[r]` what the two shared frames of ring r hold
(the submission queue between its indices, the completion queue's head and its
buffer), `routing` and `free` are `Inflights`, `subs` is `SUBSCRIPTIONS`. `proc[p]` says
whether a process slot is empty, running or parked in `ring_wait`. The indices wrap
at `IndexMod`, in the code 2^32: a multiple of `Entries` larger than any distance the
run can reach.

Actions: `RingRegister`, `RingSubmit`, `RingWait`, `CapRelease`, `Exit`, `Spawn` are
system calls, `DrainEntry` and `DrainEnds` the loop of `ring_submit` with the lock held,
`CompleteIrq` and `Record` the interrupts, `Produce` and `Reap` what the program does in
its own memory, at any time, without the kernel.

Bookkeeping that the kernel does not have: `reg` numbers the tenants of a ring slot,
`clean` says whether anything unreaped has been overwritten or anything foreign has
arrived, `await` and `got` are what the program still expects and has last seen,
`clock` numbers the events. `CookieFree` is the programs' part: they do not reuse a
cookie they still wait on, which the reactor guarantees by counting.

### The devices

`MCDevices` puts five modules into one run. They share no state, so a behaviour
exercises one (`subject`) and leaves the others at their start; each invariant speaks
of one of them. In all of them the hardware is an actor of its own (mapped as
external), which reads and writes the shared memory between any two steps of the
driver.

**DmaTables.** `table` is the memory that holds page tables, `root` the domain, `pool`
the allocator, `iova` the `IovaAllocator`, `mapped` what the callers asked for. Actions:
`NewDomain`, `MapBuffer` (an address from the allocator, then `DomainMap`), `UnmapBuffer`,
`DomainTeardown`. A map that runs out of frames
leaves the tables it linked. `HardwareWalk` reads the entries as the unit does, so a
format that is encoded wrongly is seen.

**RemapUnit.** `entry` and `pages` are the tables in memory, `ctx` and `iotlb` what the unit
has cached of them (absent pages too, as a unit in caching mode does), `icc`, `ivt`,
`cmds`, `sem` the requests it has not answered. `phase` is what the driver polls for;
every poll may be given up, after which the driver goes on and `late` remembers it.
Actions are the driver's (`PrepareDevice`, `BindPrepare`, `Enable`, `BlockMapDma`,
`BindMapDma`, `Detach`, `FreeDomain` and the polls) and the unit's (`UnitAcks`,
`UnitFlushes`, `UnitExecutes`, `UnitTranslates`).

**BlockIo.** `blkPool` is `Inflights`, `blkChain` the descriptors, header and status byte of
each slot, `blkAvail` and `blkUsed` the two rings with indices that wrap at `IdxMod`,
`last_used` the driver's position. The boot tests (`PollStart`, `PollSees`, `PollTimesOut`)
run first, then `RingPost`, the device, `IrqAck` and `IrqDrain`. A behaviour is followed to
the first boot read that was given up.

**DirectBinding.** `unit`, `dev`, `use`, `window` are the kernel's side, `reads`, `slot_cookie`,
`bound_done` the executor's, `chain`, `avail`, `used`, `cell` the shared memory. `JoinReads`,
`Poll`, `Doorbell`, `CheckUsed`, `BindWait`, `BoundReap` are the loop of `block_on`; a release
may come at any time the program is not inside it, in the steps `UnbindReset`,
`UnbindFree`, `BindTeardown`.

**Xhci.** `ring` is the driver's view of the command, control and interrupt rings, `hc` the
controller's; `evring` with `ev` and `hcev` the event ring. `stage` walks through `init`: each
request is issued, waited for by `PollEvent`, and may run out (`SpinRunsOut`). `tried` is how
far the scan of the `Connected` ports has come, `resetting` the ports whose reset is still
going on; a port wait that runs out moves the scan on, and its event may come later. Afterwards
`ReaderParks` and `Heartbeat` are the two places that call `poll_keyboard`.

### What runs in processes

`MCUserland` puts four modules into one run the way `MCDevices` does.

**Reactor.** `fut` is the future `block_on` drives, with its children; `done` the staging
table, `lost` the two counters and what was last reported of them, `sq` and `cq` the
ring. `PollFuture`, `Submit`, `Wait`, `ReapOne`, `ReapDone`, `ReportLosses` are one turn of `block_on`;
`Drain`, `Event`, `Answer` are the kernel as `Rings` has it, reduced to what one program
sees. Programs start single reads, joins, collections and selects as the demos do.

**RwFs.** `bitmap` and `dir` are the metadata in memory, `diskmeta` its copy on the disk,
`disk` the version each data sector holds. `Format`, `Create` with `CreateDataFails` and
`CreateRefused`, `Delete`; each persist may fail. `Scan` is the allocator's loop over the
bits, checked against the definition of first fit. `DiskCurrent`, a part of
`FilesystemSound`, compares memory with the metadata on the disk, and excuses only what a
failed persist leaves.

**FaultUpcall.** `pager[p]` has the process's registration, `in_fault`, mappings, the access
its program is making and the context in its registers; `saved_trap` is the one
`SAVED_TRAP`. A handler is entered with interrupts masked, so `TimerTick` does not
preempt it. On another core a second process can fault meanwhile (see section 6), so the
run has one.

**Shell.** `screen` is a grid of pointer-sized blocks with the `Cursor` and its save-under.
Events are reaped one by one into `staged` (`ReapBegins`, `ReapEntry`, `ReapEnds`; the
kernel goes on posting in between, and `reaping` counts what it posts and what is
lost) and taken by `select2`; `KeyAtHome`, `MouseAtHome`,
`KeyInView`, `MouseInView` are the arms of the two event loops, `AppPaints`, `AppEnds`,
`LaunchFails` the life of an application the screen is lent to.

### Demos

`Demos` EXTENDS `KernelIpc` and adds programs: a program is the sequence of its system
calls with the answers it insists on, taken call for call from the `*-user` crates, and
`Batches` are those of `main.rs`, in its order and with its grants, that are about what
`KernelIpc` models: frames, endpoints, spawn, disk ranges and the screen. Not among them
are lazy, bind and rwfs, whose programs are in `FaultUpcall`, `DirectBinding` and `RwFs`,
and the readers of input (evt, evtstream, kbd, unified, mouse, gfxtext). Each of these
runs alone, so leaving it out changes nothing for the others but the resources it might
not give back.

`pc` and `regs` are a program's place and the slots its locals name, `answer` what the last
call returned and the program has not looked at, `failed` the programs whose check failed,
with the answer. Any runnable process may take the next step: a slice may be as short or as
long as the timer makes it, and the processes may be spread over any number of cores.
A program that issues a call the kernel refuses sees the refusal (`Refused`,
`SpawnRefused` when the process table is full), one whose peer died sees that
(`PeerGone`). A program whose check fails ends, as in the code, and the boot goes on.

## 3. Runs

| Run | Bounds | Checks |
|---|---|---|
| lend | 3 processes, 4 slots, 2 endpoints; one disk range, lent by spawn and by message, released, with CPU budgets released to make room | `LoansSound` (`OneHolder`, `LendersLive`), `ReservedEmpty`, `HomesHeldOpen`, `ImplementsLoans` |
| memory | 2 processes, 4 slots, frames, a screen and endpoint capabilities, mapped, sent, released | `FramesOwned` (`FramesConserved`, `FramesUnshared`), `MapAuthority`, `EndpointsSound` (`RefcountExact`, `EndpointLifetime`, `WaitersHoldCaps`) |
| strand | one server, two clients, endpoint and reply capabilities lent, spawning once somebody has died | `NoneStranded`, `OnlyStrandedWoken`, `ReplyPinned` |
| rpc | one server, its clients, a slot for every reply, fairness | `CallersAnswerable`, `BlockedResumes` |
| mixed_loans | the system of lend, with a frame to lend as well | `HomesHeldOpen` fails |
| sched | 2 cores online of 3 (the middle id is not), 3 slots, one demo whose set-up may fail, one spawned child, one program with rings, fairness | `QueuesSound` (`TypeOK`, `QueuedOnce`, `RunsAtHome`), `WaitAnchored`, `RunReturnsClean`, `ReadyRuns`, `LauncherReturns` |
| tick_stack | 2 cores, 3 slots | a documented claim, violated: section 6 |
| rings | 2 processes, 1 ring slot with 2 entries and indices modulo 6, 1 request slot, 2 subscriptions, 2 cookies, 2 registrations, 3 events | `TypeOK`, `ParkedOnEmpty`, `NoneInherited`, `RequestsAccounted`, `StreamsTellLosses` |
| stale_answer | the same with one cookie and no events | a documented claim, violated: section 6 |
| devices | tables of 3 levels in 5 frames; a queue of 6 descriptors (2 chains) with indices modulo 6, 6 requests of 2 clients; 2 bound slots, batches of 3, 4 reads; 3 completion waits, 2 pages; xHCI rings of 5 slots and 4 events, 2 connected ports, one hot plug, 2 key changes, one report without a change | `HardwareAgrees`, `SpaceConserved` (`TablesConserved`, `IovasFresh`), `CachesCoherent`, `CompletionsRight` (`AnswersServed`, `CompletionSignalled`, `FaultControl`), `OverlapDelivers`, `BlockOnReturns`, `RingsInStep`, `AnswersMatch`, `KeysReachReader` |
| userland | 2 streams, a queue and a staging table of 2, 4 cookies, 3 events; 3 names, 4 data sectors, 2 directory slots, 5 creates; 2 pagers on 1 core, 2 lazy pages, 2 frames; a screen of 3 by 5 blocks with four icons, a queue and a table of 2, 2 completions posted during a reap | `StreamHeardInOrder`, `ReadsReturnOrCounted`, `FilesystemSound` (`SpaceAccounted`, `FilesIntact`, `FirstFit`, `DiskCurrent`), `FaultServed`, `PictureIntact`, `BacklogKept` |
| demos | 4 processes (`MAX_PROCESSES`), 9 slots, 4 endpoints, 9 frames, 3 rings, 10 rounds where a demo repeats to exhaustion | `DemosSucceed`, `DemosComplete` |

Bounds. Three processes are the fewest for a chain lender, middleman, borrower
and for a third party to die in between. Slots: a process starts with a CPU budget
and its channels, and the object passed around needs one more, so tables fill up
and transfers bounce; `rpc` (section 6 says what a full table would do there) has a slot
for every reply. Endpoints are few enough that a spawn can find none left, many
enough that one can succeed. Frames and addresses come in ones: the rules compare
them and do not count them, and `MappingsAuthorized` is proved for any number.

Where a row names parts in parentheses, the invariant is their conjunction, and
PROJECT.json lists several ways to break it.

Deadlock is not checked in these runs: a system whose programs have all exited,
or in which all wait for each other, really stops, and the kernel leaves it to
`run` to notice the first and to nobody the second. What must not happen is
stated as `NoneStranded`, `CallersAnswerable` and `BlockedResumes` instead.

Fairness. `rpc` uses `FairSpec`: the steps of a death follow one another
(`WF`: they run in one go under the lock), and every program that gets the CPU
again and again ends at last (`SF` on `Exit`): the round-robin scheduler gives
every Ready process its turn, ending is the programs' part. Nothing else is
assumed: sends and replies need not happen. `BlockedResumes` then says that
blocked processes are woken by answers or by deaths. Its premise, that nobody
blocks while owing a reply, is the programs' part as well: a circle of servers
calling each other is a deadlock the kernel does not promise to break.


`sched` uses the scheduler's `FairSpec`: weak fairness of every core's own steps
(each core arms its periodic tick, `timer::arm`/`arm_ap`, and every halt is `sti; hlt`
with the lock released, so the tick preempts ring 3 and ends any halt without an
inter-processor interrupt) and of the disk's completions. Programs are under no
obligation to exit, block or yield. Three slots are the fewest with which a scan can
pass over somebody. With two cores a thief has one donor; that the safety
properties hold with a choice of donors is left to the proofs, which are for any
number of cores.

One ring slot is enough for `rings`, and the point: with one, every registration after
the first reuses it, and every request in flight belongs to it or to a former tenant.
Three events are one more than the queue holds. Cookies are interchangeable, which
the run uses as a symmetry.

Devices: five table frames are one fewer than the whole window needs, so maps fail
half-way. Six requests take the virtqueue's indices once around. A batch of three on
two slots has a read that finds none; four reads reuse a slot. Five slots per xHCI ring
are wrapped by the enumeration alone; two ports are the fewest that leave a next one to
wait for. `BindFairness` asks for the device, the interrupt
and the executor's own steps; `UsbFairness` for the controller, the reader going back to
park, and the heartbeat, which is a timer interrupt. Releases, key presses, port
events, ends of port resets and new batches are under no obligation.

Userland: three events overrun a queue of two; one more name than directory slots and
a bitmap one bit longer than the data area exercise the refusals. Two frames are not
enough for both pagers, so handlers fail as well. Two completions posted during a reap
overrun the shell's table when the queue was full as it began. The screen is the smallest on which
four icons leave room for the pointer to be on, beside and between them.
`ReactorFairness` asks for the executor's steps and the device's answers;
`PagerFairness` for the handler's steps and the timer (weak) and for a process's turn
and its access when it gets one (strong: it is preempted again and again).

Demos: the process table has the code's four slots. Ten rounds are one more than a table has slots, as `REUSE_ROUNDS` (20) is more
than 16; frames, rings and endpoints are as few as the largest demo needs, so that
one lost is missed. `DemoSpec` has weak fairness of its next-state action: some process
always goes on.

## 4. Proofs

`KernelIpcProofs` first shows, for tables of every size, that every landing rule names
an empty slot or none (`LandsInEmptySlot`), that placing, taking and sweeping
keep a table good -- well typed, with its reserved slots empty -- and what each
operation leaves alone (`Keeps`).

The theorems about `KernelIpc` hold for every number of processes, slots, endpoints,
frames and addresses, every boot scenario and every choice of what programs lend and
release, unless a hypothesis is named. They rest on the assumptions on the constants
(`SizeAssumption`, `NoneAssumption`, `KernelAssumption`, `BootAssumption`), which TLC
evaluates in every run. `KernelIpcProofs` has the lemmas they share: what a step does
to the tables is one of a few shapes -- a capability moves, is minted, is dropped, an
origin is cleared -- and each shape is shown once to preserve what is said of tables.

| Theorem | States | Inductive invariant, and why it is needed |
|---|---|---|
| `TypesAndReservations` | `TypeOK`, `ReservedEmpty` | `Inv1`, the two together: a capability placed keeps `ReservedEmpty` because landing rules name empty slots, which needs the types; a table stays well typed because all that is written is a capability, the CPU budget after a charge included |
| `MappingsAuthorized` | `MapAuthority` | `Inv2` adds that a process slot without a process has no mappings: a spawn would hand them to its child |
| `LoansStaySound`, `FramesStayOwned`, `RepliesStayPinned` | `LoansSound`, `FramesOwned`, `ReplyPinned` | `Inv3`: no two capabilities name the same frame, loan or caller, anywhere; the allocator has the frames nobody names; lenders live; an empty process slot has a bare table; every waiter is Blocked and waits once. Each of the three needs the others: a reply wakes a caller that must not be queued, a queued caller must not be owed a reply, a table given to a child must be bare |
| `EndpointsStaySound` | `EndpointsSound` | `Inv4` adds that the counts are the cardinalities of the capabilities that reach the endpoint. Every shape of step comes with a lemma on how it changes these sets |
| `NobodyStranded` | `NoneStranded`, while programs do not release endpoint capabilities | also `Inv4`: a queue that is not empty has a count of the other side above 0. Without the hypothesis it is false of the code: `cap_release` of the last capability of one side wakes nobody |
| `DeathWakesTheStranded` | `OnlyStrandedWoken` | an action property, from `Inv4`: the endpoint's count minus the dying table's is 0 exactly when nobody else can come |
| `CallersStayAnswerable` | `CallersAnswerable`, while `RoomForReplies` holds | from `Inv4`, step by step: the head of a queue leaves it to run or with its reply capability in a table, no other waiter moves, and a reply capability changes tables, is used, or dies with a holder whose death wakes the caller. The hypothesis is on the state, not on the steps: a server with a full table owes everyone who could call it. It holds in all of `rpc`, whose server has a slot for its budget, one for its endpoint and one for each of its three clients. Without it the property is false of the code (section 6): `mint_reply_cap_into_*` drops what finds no slot |
| `HomesStayOpen` | `HomesHeldOpen`, while programs lend only kinds that reserve their slot | `Inv5`: a loan's home is reserved in its lender's table and is no other loan's home, and what a blocked sender offers is of such a kind. Without the hypothesis it is false of the code: run mixed_loans |
| `KernelImplementsLoans` | `ImplementsLoans`, same hypothesis | step by step: a step leaves holder and owner of every object as they are, or passes one object on, or returns it, or gives it up, or is a death that orphans what was lent |

The two hypotheses are about `LendKinds` and `ReleaseKinds`, what the programs choose to
do; each run that checks one of these properties satisfies its hypothesis.

`SchedulerProofs` proves `SchedulerQueuesSound`, `WaitersKeepTheirProcess` and
`RunLeavesClean`, the three safety invariants of `Scheduler`, for every number of cores
and process slots and whichever cores came up, from one inductive invariant, `SInv`. It
says more than the three together: only the boot core launches, only the launcher waits
after an exit, and during set-up the table holds exactly the batch so far, slot 0 in the
boot core's queue. A kernel entry changes the table before it decides what to run; the
lemmas are about that moment (`Entered`: the core's process is off the CPU, the others
stand as before), so that `switch_to_next`, `idle_until_runnable` and `try_steal` are
each shown once to lead back to `SInv`, whichever call or wake-up came to them. That a
process pushed to a queue finds room there is a pigeonhole argument: no process is
queued twice, so a full queue would hold every slot, the new one included.

`RingsProofs` proves `RingsTypeCorrect`, `NoWakeupLost` and `TenantsStartClean`, the
invariants `TypeOK`, `ParkedOnEmpty` and `NoneInherited` of `Rings`, for every number of
processes, rings, entries, request slots and subscriptions, any width of the indices
that is a multiple of the entries, and any number of registrations and events. `RInv`
adds what the two need of each other: a parked process has one mark only, so that the
completion which wakes it leaves none behind, and no ring is released under a mark,
because its owner is not parked. A posting is shown once to keep this (`PostAgrees`), and
an event, which posts to one subscription after the other, by a least counterexample
over the pool (`DeliveredGood`; that the recursive function exists is proved the same
way). Type correctness needs more than it seems: what a program reaps must be a
completion, so `WInv` adds that no entry between the two indices is blank, which is
arithmetic of indices that wrap (`PlaceWraps`, `CountSteps`), also when answers, which
are posted without a look at the room left, have gone round the buffer.

`EveryRequestAccounted` is `RequestsAccounted`. `AInv` adds to `WInv` the books of each
clean ring (`BooksAt`): a cookie that is not awaited is in no queue, one that is awaited
is in exactly one of submission queue, device and completion queue, and there once. By
itself this is not inductive. A clean queue must not have been overrun and its answers
must be the present tenant's (`Trim`), or reaping would not take what was counted; the
free request slots must be different ones and at rest (`Pool`), or a claim would
overwrite a request in flight; and every request in flight bears the number of a past
or present registration (`Numbered`), so that a new tenant starts with empty books.
A request on its way between two queues is owed (`Owed`): taking a submission leaves
its answer owed (`TakenBooks`), as does an interrupt (`GivenBackBooks`), and a claimed
slot (`ClaimedBooks`) or a posting (`PostAnswer`) settles it. What either index does to
the places in the buffer is said once (`PostMoves`, `ReapMoves`). The one assumption
this adds is that a request slot at rest routes to nobody (`NoneAssumption`).

`StreamsTellTheirLosses` is `StreamsTellLosses`. `LInv` takes each completion queue as
the sequence of what lies between its indices (`Seen`): a posting on a ring that stays
clean appends to it (`SeenPost`), a reaping takes its head (`SeenReap`), and the rest is
about sequences. Per stream it says that every event tells of the losses before it
(`Told`) and that the subscription has counted the losses since the last one
(`Current`), both against the last event before a place, or the last one reaped when
there is none (`Prior`). What makes it inductive is what arming needs: a stream that
waits in the submission queue is not armed, has nothing queued, and waits once
(`Waiting`), or its new count would start on top of old events; and a ring has one
subscription under a cookie (`Unique`), or one event would be told twice. An event
reaches the subscriptions one after the other, so the events heard of are a function of
the pool slot while it is delivered (`HeardTo`). It is here that cookies must not be
reused while a stream is alive (`CookieFree`), and that an empty pool slot must differ
from every subscription (`NoneAssumption`).

`ComponentProofs` takes five components one after the other; each rests on the
assumption its module makes on the constants.

| Theorem | States | Inductive invariant, and why it is needed |
|---|---|---|
| `CachesCoherentWithRoom`, `VtdCachesCoherent` | `CachesCoherent`, on AMD-Vi as long as the command ring has room, on VT-d without a premise | `RemapInv` adds `FlushKnown`: what is stale in a cache is still to be flushed by a command that lies in the ring before the wait the driver polls for, or by the register it polls. Flushes that were given up are in the ring too, which is why the semaphore's value counts. The premise is the one `post_command` does not check (section 6); VT-d invalidates through registers and has no ring to overrun |
| `FilesStaySound` | `FilesystemSound`, with a bitmap no shorter than the data area (one sector of bits, `format.rs`) | `FsInv`: a bit is set exactly for a sector some file in memory has, files do not overlap and every sector of a file holds its version. What is on the disk is what is in memory, or what the persist that failed last left there (`DiskStaysCurrent`). The search is a loop over the bits: that the recursive function exists and what its state says of the bits behind it (`ScanKeepsRun`) are shown by least counterexample (`LeastExists`), and `AllocIsFirstFit` follows |
| `PictureStaysIntact` | `PictureIntact` | `ShellInv`: at home the pointer is shown, and all but its block is the page of the selection, whose colour there is the saved one; away from home it is not shown. Icons do not overlap (`HitIsCell`), which needs the sizes in `ShellAssumption`, so two repainted cells make the page of the new selection (`CellsRepainted`) |
| `BacklogIsKept` | `BacklogKept`, with a staging table no smaller than the completion queue (16 entries both) | `ReaperInv`: the shell starts to reap with an empty table only; while it reaps, what is in table and queue has all been there or been posted since, so what is lost from a table that is full is no more than what came late (`ReapCourse`). The bound is not 0: `reap` reads the tail again before every entry, and a burst during a reap does overrun the table |
| `StreamsHeardInOrder` | `StreamHeardInOrder` | `ReactorInv` adds that what is on the way to a stream (staged, then queued) is numbered upwards and from the last number heard, and that no number is above those produced: an answer to a read carries no cookie of a stream. Taking an entry out of the table keeps the order of the others (`PollKeepsOrder`, by ranks), so does the drain (`DrainKeeps`), which ends because no more can be in flight than the table has places (`DrainStops`) |
| `OverlapsDeliver` | `OverlapDelivers` | `BindInv`: a slot in use is that of an unfinished read of the batch, whose chain its descriptors are once posted; published, served and finished chains are apart and all in use; a staged status is the only one of its read, whose slot is free again; the domain maps the data frame while the device is there. So a batch begins with every slot free and nothing with the device (`IdleAtRest`), after a release too |

`DeviceProofs` is about the two drivers that share queues with a device. An index that
wraps is followed by what lies between it and the other side's index.

| Theorem | States | Inductive invariant, and why it is needed |
|---|---|---|
| `RingsStayInStep`, `AnswersStayMatched` | `RingsInStep`, `AnswersMatch` | `UsbInv`. Of a ring's memory: below the producer's index lie this lap's entries, above it the last lap's with the other cycle bit, each numbered by its place (`RingWritten`, `EventsWritten`), and the consumer is in the same lap behind the producer or in the lap before ahead of it (`Abreast`, `EventsAbreast`); the cycle bit alone then says what is new. Of the answers to commands and control transfers: while a request is waited for, at most one answer to it is on its way and only its last TRB can raise one; in every other stage that may still wait on the ring nothing is under way (`CmdCourse`, `Ep0Course`). A producer ring is never looked at for room, which is safe because a request is issued only when the one before has left it, and because a transfer of three TRBs fits (`XhciAssumption`) |
| `CompletionsStayRight` | `CompletionsRight`, to the first polled read that is given up | `BlkInv`: a slot on the free stack is there once and is not live; the heads published, being served and finished are of live slots, no slot is two of these, and none is twice between two indices, so a ring of `QSize` entries has room for one head per slot (`WindowShort`); a finished chain has a status. A drain step by step frees exactly what was finished (`DrainFrees`). During the boot tests only the polled slot is live, and the unit has a fault exactly when the poisoned read was served. `QueueAssumption` asks that the queue size divide the modulus of the indices: otherwise the wrap would tear the ring |

`DmaProofs` is about the tables of a domain, for any depth, table size, number of frames
and window of device addresses.

| Theorem | States | Inductive invariant, and why it is needed |
|---|---|---|
| `DevicesReachWhatIsMapped`, `DmaSpaceKept` | `HardwareAgrees`, `SpaceConserved` | `DmaInv`: there is an `A` with `A[w][d]` the table walk `w` visits at depth `d`. It follows the entries from the root to what is mapped (`Walked`); two walks meet in a table exactly when they have taken the same way to it (`Branched`), so writing an entry of one walk moves no other; every link names the level of its child (`Levelled`, what AMD-Vi checks and VT-d does not); its tables are those outside the pool (`Owned`). Each step gives its own `A`, so nothing is computed along a walk: a map grows it along one walk, to where the frames ran out (`GrownTree`), an unmap leaves it. That the recursive walks of `map`, of the unit and of `free_subtree` visit the tables of `A` is shown by a least depth at which they differ (`SameCourse`). For the addresses, `Unused`: what lies on the stack or past the cursor is not mapped, and nothing is on the stack twice |

The assumptions on the constants: what marks an absent entry is neither an entry nor a frame
(`NoEntryAssumption`), the frames are finitely many and a table has an entry
(`DmaAssumption`), and the pages of the window have walks of their own
(`WindowAssumption`: 256 pages from 1 GiB, three levels or more of 512 entries).

Only model-checked: `DemosSucceed`, and everything temporal beyond invariants, action
properties and the refinement: liveness under fairness is out of the prover's reach.

## 5. Not modelled

Formatting and logging, ACPI and PCI discovery, serial and framebuffer consoles
and the build tool have no state of interest to a model checker, or none that
outlives start-up. Bounds inside a modelled part that a
reader may look for: a Ring capability is never lent on, the frames of a ring's
queues stay with their process (`Rings` does not know `KernelIpc`'s frames), what a
message carries besides a capability is left out everywhere, feature negotiation
and register layouts of the devices are left out, and every mount of the
filesystem formats (as `rwfs-user` does), so that what a crash leaves on the disk
is never read. The allocator of the library OS, the archive's header, ELF and
page-table walks, packet assembly of the mouse and the frame bitmap are sequential
algorithms without an interleaving; they are in the plan.

## 6. Where code and documentation disagree

Three are runs that TLC ends with a counterexample:

* **mixed_loans** -- a loan of a kind that does not reserve its slot (a frame) remembers
  the slot as its home all the same. If a disk range is later lent from that slot, the
  frame that comes home first takes the place reserved for the disk range, which then
  has no home: `reclaim_to` looks at the bit and not at whose it is.
* **tick_stack** -- `timer_tick` makes the preempted process Ready and releases the
  lock while it is still on that process's kernel stack. Another core can steal and
  run the process before `timer_entry` has left the stack.
* **stale_answer** -- a request in flight outlives its ring; the slot's next tenant
  receives the answer. `rings.rs` says that it is dropped.

Others were met while modelling. The models follow the code, and the properties are
stated so that they hold of it; each item is what a stronger property would say.

Capabilities and IPC

* A capability that bounces off a full table goes back by `install`, which avoids the
  slot it has just left because that slot is now reserved: it moves, or with no other
  slot free it is lost. `ipc.rs` says the sender gets back exactly what it had.
* A server with a full table takes a call, the reply capability is dropped, and the
  caller waits for ever, also after the server's death. `ABI.md` promises a reply or
  `IPC_PEER_DIED`. (`CallersAnswerable` with `TwoClients` and tables of 3 slots shows it.)

Faults and demos

* `fault.rs` keeps one `SAVED_TRAP` and says that the `in_fault` flag of the process guards
  it. On two cores two processes are in their handlers at once, and the one that
  faulted first resumes with the context of the other. `FaultUpcall` models it: with a
  second core in `PagerCores`, `pager[p].state = "run" => OnCourse(p)` fails. A guard per
  core, or the context in the process, would do; with one core the code is right,
  since a handler runs with interrupts masked.
* `caprelease` says "every round reuses what the previous round gave back", but a round waits
  for the child's message, not for its end. Three children that have sent and not yet
  exited fill the process table of four, and the fourth spawn fails. It takes three
  cores, two of which keep a child from ending -- waiting for the kernel lock, say -- for
  as long as the parent needs for its next rounds. `DemosSucceed` excuses it.

Rings and block devices

* A frame named by a request in flight, and the queue frames of a ring, are not
  pinned: they can be released and have another owner when they are written.
* `ABI.md` and the reactor describe the dropped count of a stream as counting since
  the stream was armed; the kernel starts it again with every event it manages to
  deliver (`Subscriptions::deliver`).
* `read_block_polled` gives its slot back when it gives up, with the request still at
  the device; the next boot test reuses the slot and can take the late answer for its
  own.
* `unbind` returns the ring frames to the allocator while the program still has them
  mapped, and `bind_teardown` frees the domain before it flushes the unit.

IOMMU and USB

* The AMD-Vi command ring is written without looking at the unit's head: after enough
  waits that were given up it overwrites commands.
* `VtdUnit::enable` reports failure when its poll runs out; the unit may still start to
  translate afterwards.
* `program_and_run` resets a port and waits for any Port Status Change event. A wait that is
  given up is answered late, into the wait for the next connected port (`PollEvent` with
  `tried` and `resetting`): the driver goes on with a port whose reset is not done, against
  "the connected, now-reset port -- Address Device targets it". The event names its
  port; the loop does not look. A hot plug during the wait does the same.
* `decode_report` emits at most 16 bytes per report, so a report that changes many keys
  at once loses some; `poll_keyboard` does not look at the completion code of a
  transfer.
* Without the heartbeat of the interactive build nothing polls the keyboard while
  nothing else happens, and keys wait (set `HeartbeatOn` to FALSE).

Library code

* `create` says that any failure after the allocation is rolled back. When the data has been
  written and the persist fails, the file stays in the directory and the bitmap in memory,
  and can be read, though the call has reported an error. So does a delete: memory and disk
  disagree until the next persist, which is what `DiskCurrent` excuses.
* A burst of completions during one `reap` overruns the reactor's staging table, which is as
  large as the queue; the reactor counts what it throws away.
* The shell's pressed-button and hover state is not updated by what happens in a view,
  so the first packet after it may act on a stale edge.

## 7. Plan


The modules above were written in the order of damage: what one process can do to
another first (capabilities, IPC, lending, scheduling, rings), devices and their
DMA next, programs last. What is left, in this order:

1. `RingFrames` -- `Rings` composed with `KernelIpc`'s frames: a queue frame or an I/O
   buffer released, lent or drained while a ring or a request in flight names it.
2. `WaitQueue` -- the link array of `ipc.rs` (`Links`, head and tail), refining the
   sequence that `KernelIpc` uses: no slot in two queues, no cycle, order kept.
3. `FrameBitmap` -- words and bits, the tail word, the count; refines a set of frames.
4. Pure algorithms against references over bounded inputs: first-fit allocator,
   ELF segment checks, archive lookup, key map, page-table roll-back, and the
   mouse's packet resynchronisation.

Abstract specifications: `Loans` (done); a FIFO for `WaitQueue`; a set of frames for
`FrameBitmap`.
