----------------------------- MODULE Scheduler -----------------------------
(***************************************************************************)
(* The preemptive scheduler on several cores: kernel/src/scheduler.rs.     *)
(* Each core has a queue of its own, time-slices it round-robin, parks     *)
(* when nothing is Ready, and steals from the other queues.                *)
(*                                                                         *)
(* A kernel entry holds the big kernel lock from its first instruction to  *)
(* its return, its `sti; hlt` or its jump to ring 3, so it is one action.  *)
(* Two things are finer.  `run` sets its processes up one by one, with     *)
(* `bkl` held across the loop.  And timer_tick gives the lock up while its *)
(* core is still on the preempted process's kernel stack: `stub` is what   *)
(* that core has yet to do.  A halted core may wake at any time, for an    *)
(* inter-processor interrupt or for its own periodic tick.                 *)
(***************************************************************************)
EXTENDS Integers, FiniteSets

CONSTANTS
  NumCores,   \* percpu::MAX_CORES
  Online,     \* the cores this boot brought up
  NumSlots,   \* MAX_PROCESSES
  MaxRuns,    \* bound: demos the boot path launches
  MaxSpawns,  \* bound: processes spawned over all of them
  Ringers,    \* workload: the slots whose processes use rings
  None

Cores     == 0 .. NumCores - 1
Slots     == 0 .. NumSlots - 1
Positions == 0 .. NumSlots - 1
BSP       == 0

ASSUME SchedulerAssumption ==
  /\ NumCores \in Nat /\ NumSlots \in Nat \ {0}
  /\ Ringers \subseteq Slots
  /\ Online \subseteq Cores /\ BSP \in Online
  /\ MaxRuns \in Nat /\ MaxSpawns \in Nat
  /\ None \notin Int

VARIABLES
  state,      \* slot |-> its State; Blocked in ring_wait is "Parked"
  queue,      \* core |-> position |-> slot or None: CORE_QUEUE
  current,    \* core |-> slot: CURRENT_SLOT, stale once its process has left
  next_home,  \* NEXT_HOME_CORE
  launcher,   \* the cores with IS_LAUNCHER set
  mode,       \* core |-> what it is doing
  frame,      \* core |-> the switch_to_next call it is halted in, or None
  stub,       \* core |-> slot whose kernel stack timer_entry is leaving, or None
  bkl,        \* the core that holds the lock across steps, or None
  batch,      \* what `run` is setting up: how many, and how many are done
  subs,       \* slots whose process holds a live event subscription
  inflight,   \* slots with a disk request the device has not answered
  runs,       \* demos launched
  spawns      \* processes spawned

tableVars  == <<state, queue, current>>
deviceVars == <<subs, inflight>>
launchVars == <<next_home, launcher, bkl, batch, runs>>
vars == <<tableVars, deviceVars, launchVars, mode, frame, stub, spawns>>

States == {"Empty", "Ready", "Running", "Blocked", "Parked"}
Frames == [pos : Positions, why : {"Exited", "Blocked"}]

TypeOK ==
  /\ state \in [Slots -> States]
  /\ queue \in [Cores -> [Positions -> Slots \cup {None}]]
  /\ current \in [Cores -> Slots]
  /\ next_home \in 0 .. NumCores
  /\ launcher \subseteq {BSP}
  /\ mode \in [Cores -> {"off", "boot", "setup", "user", "wait", "input", "idle"}]
  /\ frame \in [Cores -> Frames \cup {None}]
  /\ stub \in [Cores -> Slots \cup {None}]
  /\ bkl \in {BSP, None}
  /\ batch \in [count : 0 .. NumSlots, done : 0 .. NumSlots]
  /\ subs \subseteq Slots /\ inflight \subseteq Slots
  /\ runs \in 0 .. MaxRuns /\ spawns \in 0 .. MaxSpawns

Init ==
  /\ state = [s \in Slots |-> "Empty"]
  /\ queue = [c \in Cores |-> [i \in Positions |-> None]]
  /\ current = [c \in Cores |-> 0]
  /\ next_home = 1
  /\ launcher = {}
  /\ mode = [c \in Cores |-> IF c = BSP THEN "boot"
                             ELSE IF c \in Online THEN "idle" ELSE "off"]
  /\ frame = [c \in Cores |-> None] /\ stub = [c \in Cores |-> None]
  /\ bkl = None
  /\ batch = [count |-> 0, done |-> 0]
  /\ subs = {} /\ inflight = {}
  /\ runs = 0 /\ spawns = 0

-----------------------------------------------------------------------------
(* Queues.  Every operator takes the table st and the queues q it looks at, *)
(* because a kernel entry decides on what it has itself just changed.       *)

\* The least of a set of numbers: what `iter().position` and the offset
\* loops of pick_next and try_steal find first.  None for no number.
First(S) ==
  IF S = {} THEN None ELSE CHOOSE i \in S : \A j \in S : i <= j

FreePositions(q, c)  == {i \in Positions : q[c][i] = None}
PositionsOf(q, c, s) == {i \in Positions : q[c][i] = s}

\* core_states, reduced to the positions pick_next can return.
ReadyPositions(st, q, c) ==
  {i \in Positions : q[c][i] # None /\ st[q[c][i]] = "Ready"}

PushToCoreQueue(q, c, s) ==
  [q EXCEPT ![c] = [@ EXCEPT ![First(FreePositions(q, c))] = s]]

\* Mutant: the entry stays behind.
RemoveFromCoreQueueNever(q, c, s) == q

RemoveFromCoreQueue(q, c, s) ==
  [q EXCEPT ![c] = [@ EXCEPT ![First(PositionsOf(q, c, s))] = None]]

\* Mutant: the scan stops one position early.
PickNextOffsetsShort(st, q, c, pos) ==
  {k \in 1 .. NumSlots - 2 : (pos + k) % NumSlots \in ReadyPositions(st, q, c)}

\* The next Ready position strictly after pos, wrapping, never pos itself.
PickNextOffsets(st, q, c, pos) ==
  {k \in 1 .. NumSlots - 1 : (pos + k) % NumSlots \in ReadyPositions(st, q, c)}

PickNext(st, q, c, pos) ==
  LET k == First(PickNextOffsets(st, q, c, pos))
  IN  IF k = None THEN None ELSE (pos + k) % NumSlots

FirstClaimable(st, q, c) == First(ReadyPositions(st, q, c))

\* Mutant: the donor's own process is fair game.
StealableAny(st, q, d) == ReadyPositions(st, q, d)

\* The positions of a donor's queue try_steal may take: Ready, and not the
\* process the donor is waiting to resume.
Stealable(st, q, d) == {i \in ReadyPositions(st, q, d) : q[d][i] # current[d]}

\* The cores with something to steal, as distances from the thief c: the
\* order in which it asks them.
StealOffsets(st, q, c) ==
  {k \in 1 .. NumCores - 1 : Stealable(st, q, (c + k) % NumCores) # {}}

\* Where next_home_core's cursor stops: the first online core from it on.
HomeCore(cursor) ==
  (cursor + First({k \in 0 .. NumCores - 1 : (cursor + k) % NumCores \in Online}))
    % NumCores

\* Mutant: only running processes count.
TableIdle(st) == \A s \in Slots : st[s] # "Running"

TableEntirelyEmpty(st) == \A s \in Slots : st[s] = "Empty"

FirstFreeSlot == First({s \in Slots : state[s] = "Empty"})

AnyWaiter == subs' \cup inflight' # {}

-----------------------------------------------------------------------------
(* What a kernel entry ends in.                                             *)

\* Mutant: CURRENT_SLOT keeps naming the previous process.
ResumeProcessStale(c, s, st, q) ==
  /\ state' = [st EXCEPT ![s] = "Running"]
  /\ queue' = q
  /\ UNCHANGED current
  /\ mode' = [mode EXCEPT ![c] = "user"]
  /\ frame' = [frame EXCEPT ![c] = None]

\* resume_process: the core runs slot s, whose entry is in its own queue.
ResumeProcess(c, s, st, q) ==
  /\ state' = [st EXCEPT ![s] = "Running"]
  /\ queue' = q
  /\ current' = [current EXCEPT ![c] = s]
  /\ mode' = [mode EXCEPT ![c] = "user"]
  /\ frame' = [frame EXCEPT ![c] = None]

Park(c, where, call, st, q) ==
  /\ state' = st /\ queue' = q
  /\ mode' = [mode EXCEPT ![c] = where]
  /\ frame' = [frame EXCEPT ![c] = call]
  /\ UNCHANGED current

\* try_steal: the first stealable process of the first core that has one
\* moves to the thief's queue, and every caller resumes it there.
Steal(c, st, q) ==
  \E d \in {(c + First(StealOffsets(st, q, c))) % NumCores} :
    \E s \in {q[d][First(Stealable(st, q, d))]} :
      \E moved \in {PushToCoreQueue(RemoveFromCoreQueue(q, d, s), c, s)} :
        ResumeProcess(c, s, st, moved)

\* The end of switch_to_next's loop: nobody left anywhere, or halt and retry.
NothingForMe(c, call, st, q) ==
  IF TableEntirelyEmpty(st)
  THEN Park(c, IF c \in launcher THEN "boot" ELSE "idle", None, st, q)
  ELSE Park(c, "wait", call, st, q)

\* Mutant: no way out once the waiter is gone.
IdleUntilRunnableNeverReturns(c, call, st, q) ==
  IF ReadyPositions(st, q, c) # {}
  THEN ResumeProcess(c, q[c][FirstClaimable(st, q, c)], st, q)
  ELSE IF StealOffsets(st, q, c) # {}
  THEN Steal(c, st, q)
  ELSE Park(c, "input", call, st, q)

\* idle_until_runnable, and the retry of switch_to_next when it returns.
IdleUntilRunnable(c, call, st, q) ==
  IF ReadyPositions(st, q, c) # {}
  THEN ResumeProcess(c, q[c][FirstClaimable(st, q, c)], st, q)
  ELSE IF StealOffsets(st, q, c) # {}
  THEN Steal(c, st, q)
  ELSE IF AnyWaiter
  THEN Park(c, "input", call, st, q)
  ELSE NothingForMe(c, call, st, q)

\* wake_with for every slot of W.
Woken(st, W) == [s \in Slots |-> IF s \in W THEN "Ready" ELSE st[s]]

\* switch_to_next on the table and queues its caller leaves behind.  Before
\* it idles it polls: a scripted key or a USB report may wake subscribers.
SwitchToNext(c, call, st, q) ==
  LET next == PickNext(st, q, c, call.pos)
      own  == IF next # None THEN next ELSE call.pos
  IN  IF own \in ReadyPositions(st, q, c)
      THEN ResumeProcess(c, q[c][own], st, q)
      ELSE IF call.why = "Exited" /\ c \notin launcher
      THEN Park(c, "idle", None, st, q)
      ELSE IF call.why = "Exited" /\ StealOffsets(st, q, c) # {}
      THEN Steal(c, st, q)
      ELSE IF AnyWaiter
      THEN \E W \in SUBSET {s \in subs' : st[s] = "Parked"} :
             IdleUntilRunnable(c, call, Woken(st, W), q)
      ELSE NothingForMe(c, call, st, q)

-----------------------------------------------------------------------------
(* The boot path: `run`.                                                    *)

\* Mutant: more programs than the table has slots.
BatchSizesUncapped == 1 .. NumSlots + 1

\* How many of its binaries `run` launches: at most a table's worth.
BatchSizes == 1 .. NumSlots

RunStart ==
  /\ bkl = None /\ mode[BSP] = "boot" /\ runs < MaxRuns
  /\ \E n \in BatchSizes : batch' = [count |-> n, done |-> 0]
  /\ bkl' = BSP
  /\ mode' = [mode EXCEPT ![BSP] = "setup"]
  /\ runs' = runs + 1
  /\ UNCHANGED <<tableVars, deviceVars, next_home, launcher, frame, stub, spawns>>

\* setup_process for the next process of the batch: slot 0 at home on the
\* launching core, the others dealt out over the online cores.
SetupProcess ==
  /\ mode[BSP] = "setup" /\ batch.done < batch.count
  /\ LET id   == batch.done
         home == IF id = 0 THEN BSP ELSE HomeCore(next_home)
     IN  /\ state' = [state EXCEPT ![id] = "Ready"]
         /\ queue' = PushToCoreQueue(queue, home, id)
         /\ next_home' = IF id = 0 THEN next_home ELSE home + 1
  /\ batch' = [batch EXCEPT !.done = @ + 1]
  /\ UNCHANGED <<current, deviceVars, launcher, bkl, runs, mode, frame, stub, spawns>>

\* A setup that fails (no memory, a bad image, a full table): teardown_all.
SetupFails ==
  /\ mode[BSP] = "setup" /\ batch.done < batch.count
  /\ state' = [s \in Slots |-> "Empty"]
  /\ queue' = [c \in Cores |-> [i \in Positions |-> None]]
  /\ next_home' = IF batch.done = 0 THEN next_home ELSE HomeCore(next_home) + 1
  /\ batch' = [count |-> 0, done |-> 0]
  /\ bkl' = None
  /\ mode' = [mode EXCEPT ![BSP] = "boot"]
  /\ UNCHANGED <<current, deviceVars, launcher, runs, frame, stub, spawns>>

\* The batch is complete: `run` enters slot 0 itself.
RunEnter ==
  /\ mode[BSP] = "setup" /\ batch.done = batch.count
  /\ state' = [state EXCEPT ![0] = "Running"]
  /\ current' = [current EXCEPT ![BSP] = 0]
  /\ launcher' = launcher \cup {BSP}
  /\ batch' = [count |-> 0, done |-> 0]
  /\ bkl' = None
  /\ mode' = [mode EXCEPT ![BSP] = "user"]
  /\ UNCHANGED <<queue, deviceVars, next_home, runs, frame, stub, spawns>>

Run == RunStart \/ SetupProcess \/ SetupFails \/ RunEnter

-----------------------------------------------------------------------------
(* A process on core c enters the kernel.                                   *)

InUser(c) == bkl = None /\ mode[c] = "user" /\ stub[c] = None

CurrentPosition(c) == First(PositionsOf(queue, c, current[c]))

\* timer_tick with the quantum up and another process Ready in the queue.
TimerTick(c) ==
  /\ InUser(c)
  /\ LET cur  == current[c]
         next == PickNext(state, queue, c, CurrentPosition(c))
     IN  /\ next # None
         /\ state' = [state EXCEPT ![cur] = "Ready", ![queue[c][next]] = "Running"]
         /\ current' = [current EXCEPT ![c] = queue[c][next]]
         /\ stub' = [stub EXCEPT ![c] = cur]
  /\ UNCHANGED <<queue, deviceVars, launchVars, mode, frame, spawns>>

\* timer_entry loads the new stack pointer and returns to ring 3.
StubReturns(c) ==
  /\ stub[c] # None
  /\ stub' = [stub EXCEPT ![c] = None]
  /\ UNCHANGED <<tableVars, deviceVars, launchVars, mode, frame, spawns>>

\* block_current, from the IPC calls ("Blocked") or ring_wait ("Parked").
BlockCurrent(c, as) ==
  /\ InUser(c) /\ (as = "Parked" => current[c] \in Ringers)
  /\ UNCHANGED <<deviceVars, launchVars, stub, spawns>>
  /\ SwitchToNext(c, [pos |-> CurrentPosition(c), why |-> "Blocked"],
                  [state EXCEPT ![current[c]] = as], queue)

\* on_exit: peers that the death strands are woken (ipc::reap_dying), the
\* slot and its queue entry are freed, its subscriptions go with its rings.
OnExit(c) ==
  /\ InUser(c)
  /\ subs' = subs \ {current[c]}
  /\ UNCHANGED <<inflight, launchVars, stub, spawns>>
  /\ \E W \in SUBSET {s \in Slots : state[s] = "Blocked"} :
       SwitchToNext(c, [pos |-> CurrentPosition(c), why |-> "Exited"],
                    [Woken(state, W) EXCEPT ![current[c]] = "Empty"],
                    RemoveFromCoreQueue(queue, c, current[c]))

\* A send, receive or reply that completes a peer's: ipc.rs, wake_with.
WakePeer(c) ==
  /\ InUser(c)
  /\ \E s \in Slots : state[s] = "Blocked" /\ state' = Woken(state, {s})
  /\ UNCHANGED <<queue, current, deviceVars, launchVars, mode, frame, stub, spawns>>

\* spawn: the child is at home on the core that spawned it.
Spawn(c) ==
  /\ InUser(c) /\ FirstFreeSlot # None /\ spawns < MaxSpawns
  /\ state' = [state EXCEPT ![FirstFreeSlot] = "Ready"]
  /\ queue' = PushToCoreQueue(queue, c, FirstFreeSlot)
  /\ spawns' = spawns + 1
  /\ UNCHANGED <<current, deviceVars, launchVars, mode, frame, stub>>

\* ring_submit: a subscription, its cancellation, a disk request.
RingSubmit(c) ==
  /\ InUser(c) /\ current[c] \in Ringers
  /\ \/ subs' = subs \cup {current[c]} /\ UNCHANGED inflight
     \/ subs' = subs \ {current[c]} /\ UNCHANGED inflight
     \/ inflight' = inflight \cup {current[c]} /\ UNCHANGED subs
  /\ UNCHANGED <<tableVars, launchVars, mode, frame, stub, spawns>>

UserStep(c) ==
  \/ BlockCurrent(c, "Blocked") \/ BlockCurrent(c, "Parked")
  \/ OnExit(c) \/ WakePeer(c) \/ Spawn(c) \/ RingSubmit(c)

-----------------------------------------------------------------------------
(* Device interrupts, and halted cores that wake.                           *)

\* A key or a mouse packet wakes subscribers parked in ring_wait.
InputEvent ==
  /\ bkl = None
  /\ \E W \in SUBSET {s \in subs : state[s] = "Parked"} : state' = Woken(state, W)
  /\ UNCHANGED <<queue, current, deviceVars, launchVars, mode, frame, stub, spawns>>

\* A disk request completes; its submitter may be long gone.
DiskCompletes ==
  /\ bkl = None
  /\ \E s \in inflight :
       /\ inflight' = inflight \ {s}
       /\ state' = Woken(state, {s} \cap {t \in Slots : state[t] = "Parked"})
  /\ UNCHANGED <<queue, current, subs, launchVars, mode, frame, stub, spawns>>

\* The core is halted in switch_to_next's own wait loop.
WakeInSwitch(c) ==
  /\ bkl = None /\ mode[c] = "wait"
  /\ UNCHANGED <<deviceVars, launchVars, stub, spawns>>
  /\ SwitchToNext(c, frame[c], state, queue)

\* The core is halted in idle_until_runnable.
WakeInInput(c) ==
  /\ bkl = None /\ mode[c] = "input"
  /\ UNCHANGED <<deviceVars, launchVars, stub, spawns>>
  /\ IdleUntilRunnable(c, frame[c], state, queue)

\* The core is in ap_idle_loop.
WakeInIdle(c) ==
  /\ bkl = None /\ mode[c] = "idle"
  /\ UNCHANGED <<deviceVars, launchVars, stub, spawns>>
  /\ IF ReadyPositions(state, queue, c) # {}
     THEN ResumeProcess(c, queue[c][FirstClaimable(state, queue, c)], state, queue)
     ELSE StealOffsets(state, queue, c) # {} /\ Steal(c, state, queue)

CoreWakes(c) == WakeInSwitch(c) \/ WakeInInput(c) \/ WakeInIdle(c)

\* What a core does without its process asking: in ring 3 the timer preempts
\* it, in the timer stub it returns, halted it wakes, in `run` it goes on.
CoreStep(c) ==
  TimerTick(c) \/ StubReturns(c) \/ CoreWakes(c) \/ (c = BSP /\ Run)

Next ==
  \/ InputEvent \/ DiskCompletes
  \/ \E c \in Online : CoreStep(c) \/ UserStep(c)

\* Every core keeps its periodic tick, which preempts ring 3 and ends a halt;
\* the boot path keeps going; the disk answers what it is asked.
Fairness == WF_vars(DiskCompletes) /\ \A c \in Online : WF_vars(CoreStep(c))

Spec     == Init /\ [][Next]_vars
FairSpec == Spec /\ Fairness

-----------------------------------------------------------------------------
(* Properties.                                                              *)

\* A process is in exactly one queue, at one position, from its set-up to its
\* exit, and a free slot is in none: what CORE_QUEUE's comment promises and
\* every `expect` on a queue position relies on.
QueuedOnce ==
  \A s \in Slots :
    Cardinality({ci \in Cores \X Positions : queue[ci[1]][ci[2]] = s})
      = IF state[s] = "Empty" THEN 0 ELSE 1

\* A Running process is the current one of exactly one core, and a core in
\* ring 3 runs a process of its own queue: the `expect`s of timer_tick,
\* block_current and on_exit never fail, and no process runs twice.
RunsAtHome ==
  /\ \A c \in Cores : mode[c] = "user" =>
       /\ state[current[c]] = "Running"
       /\ PositionsOf(queue, c, current[c]) # {}
  /\ \A s \in Slots : state[s] = "Running" =>
       \E c \in Cores : mode[c] = "user" /\ current[c] = s

\* Queues, cores and process states agree.
QueuesSound == TypeOK /\ QueuedOnce /\ RunsAtHome

\* A core halted on behalf of a process it blocked still has that process, at
\* the position it remembers: nobody stole it while it was Ready, no later
\* process took its place.
WaitAnchored ==
  \A c \in Cores :
    mode[c] \in {"wait", "input"} /\ frame[c].why = "Blocked" =>
      /\ queue[c][frame[c].pos] = current[c]
      /\ state[current[c]] \notin {"Empty", "Running"}

\* `run` has come back only when every process it started, and every process
\* those spawned, is gone from the table and the queues, and every other core
\* is in its idle loop: the next demo finds a clean machine.
RunReturnsClean ==
  mode[BSP] = "boot" =>
    /\ TableEntirelyEmpty(state)
    /\ \A c \in Cores : \A i \in Positions : queue[c][i] = None
    /\ \A c \in Cores \ {BSP} : mode[c] \in {"idle", "off"}

\* A Ready process runs in the end: round robin, stealing and the wake-ups
\* together starve nobody, wherever it was woken or set up.
ReadyRuns ==
  \A s \in Slots : (state[s] = "Ready") ~> (state[s] # "Ready")

\* Once the last process is gone, `run` returns: no core keeps the launcher
\* waiting for something that can no longer happen.
LauncherReturns ==
  (TableEntirelyEmpty(state) /\ bkl = None) ~> (mode[BSP] = "boot")

\* No process runs while another core is still on its kernel stack ("A core
\* must never halt on a stack it does not own"; timer_tick: "releasing before
\* each return correctly brackets the whole body").
KernelStackOwned ==
  \A c, d \in Cores :
    c # d /\ stub[d] # None => ~(mode[c] = "user" /\ current[c] = stub[d])

=============================================================================
