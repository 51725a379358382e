-------------------------- MODULE SchedulerProofs --------------------------
(***************************************************************************)
(* The scheduler's safety, for every number of cores and process slots,    *)
(* whichever cores came up: queues, cores and process states agree, a core *)
(* that halts for a process keeps it, and `run` leaves a clean machine.    *)
(***************************************************************************)
EXTENDS Scheduler, FiniteSetTheorems, TLAPS

QueueTables == [Cores -> [Positions -> Slots \cup {None}]]

----------------------------------------------------------------------------
(* The invariant, as operators of the values it relates.                   *)

\* No process is queued twice.
Apart(q) == \A c, d \in Cores, i, j \in Positions :
  q[c][i] # None /\ q[d][j] = q[c][i] => d = c /\ j = i

AtHome(q, c, s) == \E i \in Positions : q[c][i] = s

\* A process is queued while it lives.
Homed(st, q) ==
  /\ Apart(q)
  /\ \A c \in Cores, i \in Positions : q[c][i] # None => st[q[c][i]] # "Empty"
  /\ \A s \in Slots : st[s] # "Empty" => \E c \in Cores : AtHome(q, c, s)

\* Core c, in ring 3, runs a process of its own queue.
Serves(st, q, md, cur, c) ==
  md[c] = "user" => st[cur[c]] = "Running" /\ AtHome(q, c, cur[c])

\* Only a core of C runs anything.
Running(st, md, cur, C) == \A s \in Slots :
  st[s] = "Running" => \E c \in C : md[c] = "user" /\ cur[c] = s

\* A core halted in switch_to_next remembers the call, and still has the process
\* it blocked; only the launcher waits after an exit.
Anchored(st, q, md, cur, fr, c) ==
  md[c] \in {"wait", "input"} =>
    /\ fr[c] \in Frames
    /\ c # BSP => fr[c].why = "Blocked"
    /\ fr[c].why = "Blocked" =>
         q[c][fr[c].pos] = cur[c] /\ st[cur[c]] \notin {"Empty", "Running"}

Others == Cores \ {BSP}

\* Only the boot core launches; it is never in ap_idle_loop.
Roles(md, ln, lock) ==
  /\ \A c \in Others : md[c] \notin {"boot", "setup"}
  /\ md[BSP] \notin {"idle", "off"}
  /\ md[BSP] \in {"user", "wait", "input"} => BSP \in ln
  /\ lock = BSP <=> md[BSP] = "setup"

Resting(md) == \A c \in Others : md[c] \in {"idle", "off"}

\* Before a batch the table is empty; during set-up it holds the batch so far.
Launching(st, q, md, b) ==
  /\ md[BSP] = "boot" => Resting(md) /\ TableEntirelyEmpty(st)
  /\ md[BSP] = "setup" =>
       /\ Resting(md) /\ b.done <= b.count /\ b.count > 0
       /\ \A s \in Slots : st[s] = IF s < b.done THEN "Ready" ELSE "Empty"
       /\ b.done > 0 => AtHome(q, BSP, 0)

\* The inductive invariant.
SInv ==
  /\ TypeOK
  /\ Homed(state, queue)
  /\ \A c \in Cores : /\ Serves(state, queue, mode, current, c)
                      /\ Anchored(state, queue, mode, current, frame, c)
  /\ Running(state, mode, current, Cores)
  /\ Roles(mode, launcher, bkl)
  /\ Launching(state, queue, mode, batch)

\* Core c is in the kernel and its process off the CPU; st and q are the table
\* and the queues it has come to.
Entered(c, st, q) ==
  /\ st \in [Slots -> States] /\ q \in QueueTables
  /\ Homed(st, q)
  /\ \A d \in Cores \ {c} : /\ Serves(st, q, mode, current, d)
                            /\ Anchored(st, q, mode, current, frame, d)
  /\ Running(st, mode, current, Cores \ {c})
  /\ mode[BSP] \notin {"boot", "setup"}

----------------------------------------------------------------------------
(* Numbers and queues.                                                     *)

\* A non-empty set of numbers has a least element.
LEMMA LeastExists ==
  ASSUME NEW S \in SUBSET Nat, S # {}
  PROVE  \E s \in S : \A r \in S : s <= r
<1> DEFINE Less == {ss \in Nat \X Nat : ss[1] < ss[2]}
<1>1. IsWellFoundedOn(Less, Nat)
  BY NatLessThanWellFounded, Zenon DEF OpToRel
<1>2. \A x, y \in S : ~(<<y, x>> \in Less) => x <= y
  <2>1. ASSUME NEW x \in S, NEW y \in S, ~(x <= y)
        PROVE  <<y, x>> \in Less
    BY <2>1
  <2> QED BY <2>1
<1> HIDE DEF Less
<1>3. \E x \in S : \A y \in S : ~(<<y, x>> \in Less)
  BY <1>1, WFMin
<1> QED BY <1>2, <1>3

\* What a scan finds first is one of what it looks for.
LEMMA FirstIn ==
  ASSUME NEW S \in SUBSET Nat, S # {}
  PROVE  First(S) \in S /\ First(S) # None
<1>1. First(S) \in S
  BY LeastExists DEF First
<1>2. \A x \in S : x \in Int
  OBVIOUS
<1>3. \A x \in Int : x # None
  BY SchedulerAssumption
<1> QED BY <1>1, <1>2, <1>3, Zenon

\* A cursor stays within its modulus.
LEMMA ModIn ==
  ASSUME NEW a \in Nat, NEW n \in Nat \ {0}
  PROVE  a % n \in 0 .. n - 1
  OBVIOUS

\* The boot core and the first slot.
LEMMA Smallest ==
  /\ BSP \in Cores /\ NumCores \in Nat \ {0} /\ 0 \in Slots /\ 0 \in Positions
  /\ None \notin Slots /\ None \notin Positions /\ None \notin Cores /\ None # BSP
  /\ Slots \subseteq Nat /\ Positions \subseteq Nat /\ Cores \subseteq Nat
<1>1. NumCores \in Nat \ {0}
  BY SchedulerAssumption DEF Cores
<1> QED BY <1>1, SchedulerAssumption DEF BSP, Cores, Slots, Positions

\* A core's queue has room for a process that is in no queue.
LEMMA RoomFor ==
  ASSUME NEW q \in QueueTables, Apart(q), NEW c \in Cores, NEW s \in Slots,
         ~AtHome(q, c, s)
  PROVE  FreePositions(q, c) # {}
<1> SUFFICES ASSUME FreePositions(q, c) = {} PROVE FALSE
  OBVIOUS
<1>1. q[c] \in [Positions -> Slots \ {s}]
  BY DEF QueueTables, FreePositions, AtHome
<1>2. IsFiniteSet(Slots) /\ Cardinality(Slots) = NumSlots
  BY FS_Interval, SchedulerAssumption DEF Slots
<1>3. IsFiniteSet(Positions) /\ Cardinality(Positions) = NumSlots
  BY FS_Interval, SchedulerAssumption DEF Positions
<1>4. IsFiniteSet(Slots \ {s}) /\ Cardinality(Slots \ {s}) = NumSlots - 1
  BY <1>2, FS_RemoveElement
<1>5. PICK i, j \in Positions : i # j /\ q[c][i] = q[c][j]
  <2>1. Cardinality(Slots \ {s}) < Cardinality(Positions)
    BY <1>3, <1>4, SchedulerAssumption
  <2> QED BY <1>1, <1>3, <1>4, <2>1, FS_PigeonHole
<1>6. q[c][i] # None
  BY <1>1, <1>5, Smallest
<1> QED BY <1>5, <1>6 DEF Apart

\* remove_from_core_queue on a queue that has the process.
LEMMA RemoveFacts ==
  ASSUME NEW q \in QueueTables, NEW d \in Cores, NEW s \in Slots, AtHome(q, d, s),
         NEW u, u = RemoveFromCoreQueue(q, d, s)
  PROVE  /\ u \in QueueTables
         /\ \E j \in Positions :
              /\ q[d][j] = s /\ u[d][j] = None
              /\ \A c \in Cores, i \in Positions : ~(c = d /\ i = j) => u[c][i] = q[c][i]
<1> DEFINE j == First(PositionsOf(q, d, s))
<1>1. j \in Positions /\ q[d][j] = s
  <2>1. PositionsOf(q, d, s) \in SUBSET Nat /\ PositionsOf(q, d, s) # {}
    BY Smallest DEF PositionsOf, AtHome
  <2> QED BY <2>1, FirstIn DEF PositionsOf
<1>2. u = [q EXCEPT ![d] = [@ EXCEPT ![j] = None]]
  BY DEF RemoveFromCoreQueue
<1> HIDE DEF j
<1>3. u \in QueueTables
  BY <1>1, <1>2 DEF QueueTables
<1>4. /\ u[d][j] = None
      /\ \A c \in Cores, i \in Positions : ~(c = d /\ i = j) => u[c][i] = q[c][i]
  BY <1>1, <1>2 DEF QueueTables
<1> QED BY <1>1, <1>3, <1>4

\* push_to_core_queue of a process that is in no queue.
LEMMA PushFacts ==
  ASSUME NEW q \in QueueTables, Apart(q), NEW c \in Cores, NEW s \in Slots,
         \A d \in Cores : ~AtHome(q, d, s),
         NEW u, u = PushToCoreQueue(q, c, s)
  PROVE  /\ u \in QueueTables
         /\ \E j \in Positions :
              /\ q[c][j] = None /\ u[c][j] = s
              /\ \A d \in Cores, i \in Positions : ~(d = c /\ i = j) => u[d][i] = q[d][i]
<1> DEFINE j == First(FreePositions(q, c))
<1>1. j \in Positions /\ q[c][j] = None
  <2>1. FreePositions(q, c) \in SUBSET Nat /\ FreePositions(q, c) # {}
    BY Smallest, RoomFor DEF FreePositions
  <2> QED BY <2>1, FirstIn DEF FreePositions
<1>2. u = [q EXCEPT ![c] = [@ EXCEPT ![j] = s]]
  BY DEF PushToCoreQueue
<1> HIDE DEF j
<1>3. u \in QueueTables
  BY <1>1, <1>2 DEF QueueTables
<1>4. /\ u[c][j] = s
      /\ \A d \in Cores, i \in Positions : ~(d = c /\ i = j) => u[d][i] = q[d][i]
  BY <1>1, <1>2 DEF QueueTables
<1> QED BY <1>1, <1>3, <1>4

----------------------------------------------------------------------------
(* What a kernel entry ends in keeps the invariant.                        *)

\* What the end of a kernel entry leaves alone.
Kept ==
  /\ UNCHANGED <<launchVars, spawns>>
  /\ stub' \in [Cores -> Slots \cup {None}]
  /\ subs' \subseteq Slots /\ inflight' \subseteq Slots

\* A step gives the invariant when these hold.
LEMMA SInvNext ==
  ASSUME TypeOK', Homed(state', queue'),
         \A c \in Cores : /\ Serves(state', queue', mode', current', c)
                          /\ Anchored(state', queue', mode', current', frame', c),
         Running(state', mode', current', Cores),
         Roles(mode', launcher', bkl'), Launching(state', queue', mode', batch')
  PROVE  SInv'
<1>1. \A c \in Cores : /\ Serves(state, queue, mode, current, c)'
                       /\ Anchored(state, queue, mode, current, frame, c)'
  BY DEF Serves, Anchored, AtHome, BSP
<1> QED BY <1>1
        DEF SInv, Homed, Apart, AtHome, Running, Roles, Launching, Resting, TableEntirelyEmpty, BSP, Others

\* The core runs a Ready process of its own queue.
LEMMA ResumeKeeps ==
  ASSUME SInv, NEW c \in Cores, NEW st, NEW q, Entered(c, st, q),
         c = BSP => BSP \in launcher, bkl = None,
         NEW s \in Slots, st[s] = "Ready", AtHome(q, c, s), TypeOK',
         \A r \in Slots : state'[r] = IF r = s THEN "Running" ELSE st[r],
         queue' = q, current'[c] = s, mode'[c] = "user",
         \A d \in Cores \ {c} : /\ current'[d] = current[d] /\ mode'[d] = mode[d]
                                /\ frame'[d] = frame[d],
         launcher' = launcher, bkl' = bkl
  PROVE  SInv'
<1>1. Homed(state', queue')
  <2>1. \A r \in Slots : state'[r] = "Empty" <=> st[r] = "Empty"
    OBVIOUS
  <2>2. \A d \in Cores, i \in Positions : q[d][i] # None => q[d][i] \in Slots
    BY DEF Entered, QueueTables
  <2> QED BY <2>1, <2>2 DEF Entered, Homed
<1>2. ASSUME NEW d \in Cores PROVE Serves(state', queue', mode', current', d)
  <2>1. CASE d = c
    BY <2>1 DEF Serves
  <2>2. CASE d # c
    <3>1. Serves(st, q, mode, current, d)
      BY <2>2 DEF Entered
    <3>2. current[d] \in Slots
      BY DEF SInv, TypeOK
    <3> QED BY <2>2, <3>1, <3>2 DEF Serves
  <2> QED BY <2>1, <2>2
<1>3. ASSUME NEW d \in Cores PROVE Anchored(state', queue', mode', current', frame', d)
  <2>1. CASE d = c
    BY <2>1 DEF Anchored
  <2>2. CASE d # c
    <3>1. Anchored(st, q, mode, current, frame, d)
      BY <2>2 DEF Entered
    <3>2. current[d] \in Slots
      BY DEF SInv, TypeOK
    <3>3. SUFFICES ASSUME mode[d] \in {"wait", "input"}, frame[d].why = "Blocked"
                   PROVE  st[current[d]] # "Empty" /\ current[d] # s
      BY <2>2, <3>1, <3>2 DEF Anchored
    <3>4. /\ frame[d] \in Frames /\ q[d][frame[d].pos] = current[d]
          /\ st[current[d]] \notin {"Empty", "Running"}
      BY <3>1, <3>3 DEF Anchored
    <3>5. PICK i \in Positions : q[c][i] = s
      BY DEF AtHome
    <3>6. current[d] # s
      BY <2>2, <3>2, <3>4, <3>5, Smallest DEF Entered, Homed, Apart, Frames
    <3> QED BY <3>4, <3>6
  <2> QED BY <2>1, <2>2
<1>4. Running(state', mode', current', Cores)
  <2> SUFFICES ASSUME NEW r \in Slots, state'[r] = "Running"
               PROVE  \E d \in Cores : mode'[d] = "user" /\ current'[d] = r
    BY DEF Running
  <2>1. CASE r = s
    BY <2>1
  <2>2. CASE r # s
    BY <2>2 DEF Entered, Running
  <2> QED BY <2>1, <2>2
<1>5. Roles(mode', launcher', bkl')
  <2>1. \A d \in Cores \ {c} : mode'[d] = mode[d]
    OBVIOUS
  <2> QED BY <2>1, Smallest DEF SInv, Roles, Others, Entered
<1>6. mode'[BSP] \notin {"boot", "setup"}
  BY Smallest DEF Entered
<1>7. Launching(state', queue', mode', batch')
  BY <1>6 DEF Launching
<1> QED BY <1>1, <1>2, <1>3, <1>4, <1>5, <1>7, SInvNext

\* resume_process.
LEMMA ResumeInv ==
  ASSUME SInv, NEW c \in Cores, NEW st, NEW q, Entered(c, st, q),
         c = BSP => BSP \in launcher, bkl = None, Kept,
         NEW s \in Slots, st[s] = "Ready", AtHome(q, c, s), ResumeProcess(c, s, st, q)
  PROVE  SInv'
<1>1. /\ state' = [st EXCEPT ![s] = "Running"] /\ queue' = q
      /\ current' = [current EXCEPT ![c] = s] /\ mode' = [mode EXCEPT ![c] = "user"]
      /\ frame' = [frame EXCEPT ![c] = None]
  BY DEF ResumeProcess
<1>2. st \in [Slots -> States] /\ q \in QueueTables /\ TypeOK
  BY DEF Entered, SInv
<1>3. TypeOK'
  BY <1>1, <1>2 DEF TypeOK, QueueTables, Kept, launchVars, States, BSP
<1>4. /\ \A r \in Slots : state'[r] = IF r = s THEN "Running" ELSE st[r]
      /\ current'[c] = s /\ mode'[c] = "user"
      /\ \A d \in Cores \ {c} : /\ current'[d] = current[d] /\ mode'[d] = mode[d]
                                /\ frame'[d] = frame[d]
  BY <1>1, <1>2 DEF TypeOK
<1>5. launcher' = launcher /\ bkl' = bkl /\ queue' = q
  BY <1>1 DEF Kept, launchVars
<1> QED BY ONLY SInv, c \in Cores, Entered(c, st, q), c = BSP => BSP \in launcher, bkl = None,
               s \in Slots, st[s] = "Ready", AtHome(q, c, s), <1>3, <1>4, <1>5, ResumeKeeps

\* The core halts, goes to its idle loop or returns from `run`.
LEMMA ParkInv ==
  ASSUME SInv, NEW c \in Cores, NEW st, NEW q, Entered(c, st, q),
         c = BSP => BSP \in launcher, bkl = None, Kept,
         NEW where, NEW call, Park(c, where, call, st, q),
         \/ /\ where \in {"wait", "input"} /\ call \in Frames
            /\ c # BSP => call.why = "Blocked"
            /\ call.why = "Blocked" =>
                 q[c][call.pos] = current[c] /\ st[current[c]] \notin {"Empty", "Running"}
         \/ where = "idle" /\ c # BSP /\ call = None
         \/ where = "boot" /\ c = BSP /\ call = None /\ TableEntirelyEmpty(st)
  PROVE  SInv'
<1>1. /\ state' = st /\ queue' = q /\ current' = current
      /\ mode' = [mode EXCEPT ![c] = where] /\ frame' = [frame EXCEPT ![c] = call]
  BY DEF Park
<1>2. st \in [Slots -> States] /\ q \in QueueTables /\ TypeOK
  BY DEF Entered, SInv
<1>3. TypeOK'
  BY <1>1, <1>2 DEF TypeOK, QueueTables, Kept, launchVars, BSP
<1>4. /\ mode'[c] = where /\ frame'[c] = call
      /\ \A d \in Cores \ {c} : mode'[d] = mode[d] /\ frame'[d] = frame[d]
  BY <1>1, <1>2 DEF TypeOK
<1>5. launcher' = launcher /\ bkl' = bkl
  BY DEF Kept, launchVars
<1>6. Homed(state', queue')
  BY <1>1 DEF Entered
<1>7. ASSUME NEW d \in Cores
      PROVE  /\ Serves(state', queue', mode', current', d)
             /\ Anchored(state', queue', mode', current', frame', d)
  <2>1. CASE d = c
    BY <1>1, <1>4, <2>1 DEF Serves, Anchored
  <2>2. CASE d # c
    BY <1>1, <1>4, <2>2 DEF Entered, Serves, Anchored
  <2> QED BY <2>1, <2>2
<1>8. Running(state', mode', current', Cores)
  BY <1>1, <1>4 DEF Entered, Running
<1>9. Roles(mode', launcher', bkl')
  BY <1>4, <1>5, Smallest DEF SInv, Roles, Others, Entered
<1>10. Launching(state', queue', mode', batch')
  <2>1. mode'[BSP] # "setup"
    BY <1>4, Smallest DEF Entered
  <2>2. ASSUME mode'[BSP] = "boot" PROVE Resting(mode') /\ TableEntirelyEmpty(state')
    <3>1. c = BSP /\ TableEntirelyEmpty(st)
      BY <1>4, <2>2, Smallest DEF Entered
    <3>2. ASSUME NEW d \in Others PROVE mode[d] \in {"idle", "off"}
      <4>1. d \in Cores \ {c} /\ mode[d] \notin {"boot", "setup"} /\ current[d] \in Slots
        BY <3>1 DEF Others, SInv, Roles, TypeOK
      <4>2. st[current[d]] = "Empty"
        BY <3>1, <4>1 DEF TableEntirelyEmpty
      <4>3. mode[d] # "user"
        BY <4>1, <4>2 DEF Entered, Serves
      <4>4. mode[d] \notin {"wait", "input"}
        BY <3>1, <4>1, <4>2 DEF Entered, Anchored
      <4> QED BY <1>2, <4>1, <4>3, <4>4 DEF TypeOK
    <3> QED BY <1>1, <1>4, <3>1, <3>2 DEF Resting, Others
  <2> QED BY <2>1, <2>2 DEF Launching
<1> QED BY <1>3, <1>6, <1>7, <1>8, <1>9, <1>10, SInvNext

\* try_steal moves a process of another core's queue that it is not waiting for.
LEMMA StealInv ==
  ASSUME SInv, NEW c \in Cores, NEW st, NEW q, Entered(c, st, q),
         c = BSP => BSP \in launcher, bkl = None, Kept,
         StealOffsets(st, q, c) # {}, Steal(c, st, q)
  PROVE  SInv'
<1>1. PICK d \in {(c + First(StealOffsets(st, q, c))) % NumCores} :
        \E s \in {q[d][First(Stealable(st, q, d))]} :
          \E moved \in {PushToCoreQueue(RemoveFromCoreQueue(q, d, s), c, s)} :
            ResumeProcess(c, s, st, moved)
  BY DEF Steal
<1>2. PICK s \in {q[d][First(Stealable(st, q, d))]} :
        \E moved \in {PushToCoreQueue(RemoveFromCoreQueue(q, d, s), c, s)} :
          ResumeProcess(c, s, st, moved)
  BY <1>1
<1>3. d \in Cores /\ Stealable(st, q, d) # {}
  <2> DEFINE k == First(StealOffsets(st, q, c))
  <2>1. StealOffsets(st, q, c) \in SUBSET Nat
    BY DEF StealOffsets
  <2>2. k \in StealOffsets(st, q, c)
    BY <2>1, FirstIn
  <2>3. k \in Nat /\ Stealable(st, q, (c + k) % NumCores) # {}
    BY <2>1, <2>2 DEF StealOffsets
  <2> HIDE DEF k
  <2>4. c + k \in Nat
    BY <2>3, Smallest
  <2>5. (c + k) % NumCores \in Cores
    BY <2>4, Smallest, ModIn DEF Cores
  <2>6. d = (c + k) % NumCores
    BY <1>1 DEF k
  <2> QED BY <2>3, <2>5, <2>6
<1>4. /\ s \in Slots /\ st[s] = "Ready" /\ s # current[d]
      /\ AtHome(q, d, s)
  <2> DEFINE i == First(Stealable(st, q, d))
  <2>1. Stealable(st, q, d) \in SUBSET Nat
    BY Smallest DEF Stealable, ReadyPositions
  <2>2. i \in Stealable(st, q, d)
    BY <1>3, <2>1, FirstIn
  <2>3. /\ i \in Positions /\ q[d][i] # None /\ st[q[d][i]] = "Ready" /\ q[d][i] # current[d]
    BY <2>2 DEF Stealable, ReadyPositions
  <2>4. s = q[d][i]
    BY <1>2
  <2> HIDE DEF i
  <2>5. q[d][i] \in Slots
    BY <1>3, <2>3 DEF Entered, QueueTables
  <2> QED BY <2>3, <2>4, <2>5 DEF AtHome
<1> DEFINE r == RemoveFromCoreQueue(q, d, s)
           m == PushToCoreQueue(r, c, s)
<1>5. ResumeProcess(c, s, st, m)
  BY <1>2
<1>6. q \in QueueTables /\ Homed(st, q) /\ Apart(q) /\ s # None
  BY <1>4, Smallest DEF Entered, Homed
<1>7. /\ r \in QueueTables
      /\ \E j \in Positions :
           /\ q[d][j] = s /\ r[d][j] = None
           /\ \A e \in Cores, i \in Positions : ~(e = d /\ i = j) => r[e][i] = q[e][i]
  BY <1>3, <1>4, <1>6, RemoveFacts
<1> HIDE DEF r
<1>8. PICK j \in Positions :
        /\ q[d][j] = s /\ r[d][j] = None
        /\ \A e \in Cores, i \in Positions : ~(e = d /\ i = j) => r[e][i] = q[e][i]
  BY <1>7
<1>9. Apart(r) /\ \A e \in Cores : ~AtHome(r, e, s)
  <2>1. Apart(r)
    BY <1>6, <1>8 DEF Apart
  <2>2. ASSUME NEW e \in Cores, NEW i \in Positions, r[e][i] = s PROVE FALSE
    BY <1>3, <1>6, <1>8, <2>2 DEF Apart
  <2> QED BY <2>1, <2>2 DEF AtHome
<1>10. /\ m \in QueueTables
       /\ \E k \in Positions :
            /\ r[c][k] = None /\ m[c][k] = s
            /\ \A e \in Cores, i \in Positions : ~(e = c /\ i = k) => m[e][i] = r[e][i]
  BY <1>4, <1>7, <1>9, PushFacts
<1> HIDE DEF m
<1>11. PICK k \in Positions :
         /\ r[c][k] = None /\ m[c][k] = s
         /\ \A e \in Cores, i \in Positions : ~(e = c /\ i = k) => m[e][i] = r[e][i]
  BY <1>10
<1>12. ASSUME NEW e \in Cores, NEW i \in Positions, q[e][i] # s, q[e][i] # None
       PROVE  m[e][i] = q[e][i]
  BY <1>8, <1>11, <1>12
<1>13. ASSUME NEW e \in Cores, NEW i \in Positions, m[e][i] # s
       PROVE  m[e][i] = q[e][i] \/ m[e][i] = None
  BY <1>8, <1>11, <1>13
<1>14. ASSUME NEW e \in Cores, NEW i \in Positions, m[e][i] = s
       PROVE  e = c /\ i = k
  BY <1>9, <1>11, <1>14 DEF AtHome
<1>15. Homed(st, m)
  <2>1. Apart(m)
    <3> SUFFICES ASSUME NEW e \in Cores, NEW f \in Cores, NEW i \in Positions, NEW l \in Positions,
                        m[e][i] # None, m[f][l] = m[e][i]
                 PROVE  f = e /\ l = i
      BY DEF Apart
    <3>1. CASE m[e][i] = s
      BY <1>14, <3>1
    <3>2. CASE m[e][i] # s
      <4>1. m[e][i] = q[e][i] /\ m[f][l] = q[f][l]
        BY <1>13, <3>2
      <4> QED BY <1>6, <4>1 DEF Apart
    <3> QED BY <3>1, <3>2
  <2>2. ASSUME NEW e \in Cores, NEW i \in Positions, m[e][i] # None
        PROVE  st[m[e][i]] # "Empty"
    BY <1>4, <1>6, <1>13, <2>2 DEF Homed
  <2>3. ASSUME NEW x \in Slots, st[x] # "Empty" PROVE \E e \in Cores : AtHome(m, e, x)
    <3>1. CASE x = s
      BY <1>11, <3>1 DEF AtHome
    <3>2. CASE x # s
      <4>1. PICK e \in Cores : AtHome(q, e, x)
        BY <1>6, <2>3 DEF Homed
      <4>2. PICK i \in Positions : q[e][i] = x
        BY <4>1 DEF AtHome
      <4>3. m[e][i] = x
        BY <1>12, <3>2, <4>2, Smallest
      <4> QED BY <4>3 DEF AtHome
    <3> QED BY <3>1, <3>2
  <2> QED BY <2>1, <2>2, <2>3 DEF Homed
<1>16. ASSUME NEW e \in Cores \ {c}
       PROVE  Serves(st, m, mode, current, e) /\ Anchored(st, m, mode, current, frame, e)
  <2>1. Serves(st, q, mode, current, e) /\ Anchored(st, q, mode, current, frame, e)
    BY DEF Entered
  <2>2. current[e] \in Slots /\ current[e] # None
    BY Smallest DEF SInv, TypeOK
  <2>3. Serves(st, m, mode, current, e)
    <3> SUFFICES ASSUME mode[e] = "user" PROVE st[current[e]] = "Running" /\ AtHome(m, e, current[e])
      BY DEF Serves
    <3>1. st[current[e]] = "Running" /\ AtHome(q, e, current[e])
      BY <2>1 DEF Serves
    <3>2. PICK i \in Positions : q[e][i] = current[e]
      BY <3>1 DEF AtHome
    <3>3. m[e][i] = current[e]
      BY <1>4, <1>12, <2>2, <3>1, <3>2
    <3> QED BY <3>1, <3>3 DEF AtHome
  <2>4. Anchored(st, m, mode, current, frame, e)
    <3> SUFFICES ASSUME mode[e] \in {"wait", "input"}, frame[e] \in Frames, frame[e].why = "Blocked",
                        q[e][frame[e].pos] = current[e]
                 PROVE  m[e][frame[e].pos] = current[e]
      BY <2>1 DEF Anchored
    <3>1. frame[e].pos \in Positions
      BY DEF Frames
    <3>2. current[e] # s
      BY <1>3, <1>4, <1>6, <1>8, <2>2, <3>1 DEF Apart
    <3> QED BY <1>12, <2>2, <3>1, <3>2
  <2> QED BY <2>3, <2>4
<1>17. Entered(c, st, m)
  BY <1>10, <1>15, <1>16 DEF Entered
<1>18. AtHome(m, c, s)
  BY <1>11 DEF AtHome
<1> QED BY <1>4, <1>5, <1>17, <1>18, ResumeInv

\* A call to switch_to_next that its core can come back to.
CallSound(c, call, st, q) ==
  /\ call \in Frames
  /\ call.why = "Blocked" =>
       q[c][call.pos] = current[c] /\ st[current[c]] \notin {"Empty", "Running"}

\* A Ready position of the core's own queue.
LEMMA ResumeOwnInv ==
  ASSUME SInv, NEW c \in Cores, NEW st, NEW q, Entered(c, st, q),
         c = BSP => BSP \in launcher, bkl = None, Kept,
         NEW i \in ReadyPositions(st, q, c), ResumeProcess(c, q[c][i], st, q)
  PROVE  SInv'
<1>1. i \in Positions /\ q[c][i] # None /\ st[q[c][i]] = "Ready"
  BY DEF ReadyPositions
<1>2. q[c][i] \in Slots
  BY <1>1 DEF Entered, QueueTables
<1>3. AtHome(q, c, q[c][i])
  BY <1>1 DEF AtHome
<1> QED BY <1>1, <1>2, <1>3, ResumeInv

\* The end of switch_to_next's loop.
LEMMA NothingInv ==
  ASSUME SInv, NEW c \in Cores, NEW st, NEW q, Entered(c, st, q),
         c = BSP => BSP \in launcher, bkl = None, Kept,
         NEW call, CallSound(c, call, st, q), c # BSP => call.why = "Blocked",
         NothingForMe(c, call, st, q)
  PROVE  SInv'
<1>1. CASE TableEntirelyEmpty(st)
  <2>1. Park(c, IF c \in launcher THEN "boot" ELSE "idle", None, st, q)
    BY <1>1 DEF NothingForMe
  <2>2. c \in launcher <=> c = BSP
    BY DEF SInv, TypeOK
  <2>3. CASE c = BSP
    <3>1. Park(c, "boot", None, st, q)
      BY <2>1, <2>2, <2>3
    <3> QED BY <1>1, <2>3, <3>1, ParkInv
  <2>4. CASE c # BSP
    <3>1. Park(c, "idle", None, st, q)
      BY <2>1, <2>2, <2>4
    <3> QED BY <2>4, <3>1, ParkInv
  <2> QED BY <2>3, <2>4
<1>2. CASE ~TableEntirelyEmpty(st)
  <2>1. Park(c, "wait", call, st, q)
    BY <1>2 DEF NothingForMe
  <2> QED BY <2>1, ParkInv DEF CallSound
<1> QED BY <1>1, <1>2

\* idle_until_runnable.
LEMMA IdleInv ==
  ASSUME SInv, NEW c \in Cores, NEW st, NEW q, Entered(c, st, q),
         c = BSP => BSP \in launcher, bkl = None, Kept,
         NEW call, CallSound(c, call, st, q), c # BSP => call.why = "Blocked",
         IdleUntilRunnable(c, call, st, q)
  PROVE  SInv'
<1>1. CASE ReadyPositions(st, q, c) # {}
  <2>1. ResumeProcess(c, q[c][FirstClaimable(st, q, c)], st, q)
    BY <1>1 DEF IdleUntilRunnable
  <2>2. ReadyPositions(st, q, c) \in SUBSET Nat
    BY Smallest DEF ReadyPositions
  <2>3. FirstClaimable(st, q, c) \in ReadyPositions(st, q, c)
    BY <1>1, <2>2, FirstIn DEF FirstClaimable
  <2> QED BY <2>1, <2>3, ResumeOwnInv
<1>2. CASE ReadyPositions(st, q, c) = {} /\ StealOffsets(st, q, c) # {}
  <2>1. Steal(c, st, q)
    BY <1>2 DEF IdleUntilRunnable
  <2> QED BY <1>2, <2>1, StealInv
<1>3. CASE ReadyPositions(st, q, c) = {} /\ StealOffsets(st, q, c) = {} /\ AnyWaiter
  <2>1. Park(c, "input", call, st, q)
    BY <1>3 DEF IdleUntilRunnable
  <2> QED BY <2>1, ParkInv DEF CallSound
<1>4. CASE ReadyPositions(st, q, c) = {} /\ StealOffsets(st, q, c) = {} /\ ~AnyWaiter
  <2>1. NothingForMe(c, call, st, q)
    BY <1>4 DEF IdleUntilRunnable
  <2> QED BY <2>1, NothingInv
<1> QED BY <1>1, <1>2, <1>3, <1>4

\* Waking processes that wait disturbs no core.
LEMMA WokenEntered ==
  ASSUME NEW c \in Cores, NEW st, NEW q, TypeOK, Entered(c, st, q), NEW W,
         \A s \in W \cap Slots : st[s] \notin {"Empty", "Running"}
  PROVE  Entered(c, Woken(st, W), q)
<1> DEFINE u == Woken(st, W)
<1>1. st \in [Slots -> States] /\ q \in QueueTables /\ Homed(st, q) /\ TypeOK
  BY DEF Entered
<1>2. \A s \in Slots : u[s] = IF s \in W THEN "Ready" ELSE st[s]
  BY DEF Woken
<1>3. u \in [Slots -> States]
  BY <1>1, <1>2 DEF Woken, States
<1> HIDE DEF u
<1>4. \A s \in Slots : /\ u[s] = "Empty" <=> st[s] = "Empty"
                       /\ u[s] = "Running" <=> st[s] = "Running"
  BY <1>2
<1>5. \A d \in Cores, i \in Positions : q[d][i] # None => q[d][i] \in Slots
  BY <1>1 DEF QueueTables
<1>6. Homed(u, q)
  BY <1>1, <1>4, <1>5 DEF Homed
<1>7. ASSUME NEW d \in Cores \ {c}
      PROVE  Serves(u, q, mode, current, d) /\ Anchored(u, q, mode, current, frame, d)
  <2>1. Serves(st, q, mode, current, d) /\ Anchored(st, q, mode, current, frame, d)
    BY DEF Entered
  <2>2. current[d] \in Slots
    BY <1>1 DEF TypeOK
  <2> QED BY <1>4, <2>1, <2>2 DEF Serves, Anchored
<1>8. Running(u, mode, current, Cores \ {c})
  BY <1>4 DEF Entered, Running
<1>9. Entered(c, u, q)
  BY <1>1, <1>3, <1>6, <1>7, <1>8 DEF Entered
<1> QED BY <1>9 DEF u

\* switch_to_next.
LEMMA SwitchInv ==
  ASSUME SInv, NEW c \in Cores, NEW st, NEW q, Entered(c, st, q),
         c = BSP => BSP \in launcher, bkl = None, Kept,
         NEW call, CallSound(c, call, st, q), SwitchToNext(c, call, st, q)
  PROVE  SInv'
<1> DEFINE next == PickNext(st, q, c, call.pos)
           own  == IF next # None THEN next ELSE call.pos
<1>1. c \in launcher <=> c = BSP
  BY DEF SInv, TypeOK
<1>2. call.why \in {"Exited", "Blocked"}
  BY DEF CallSound, Frames
<1>3. CASE own \in ReadyPositions(st, q, c)
  <2>1. ResumeProcess(c, q[c][own], st, q)
    BY <1>3 DEF SwitchToNext
  <2> HIDE DEF own
  <2> QED BY <1>3, <2>1, ResumeOwnInv
<1>4. CASE own \notin ReadyPositions(st, q, c) /\ call.why = "Exited" /\ c # BSP
  <2>1. Park(c, "idle", None, st, q)
    BY <1>1, <1>4 DEF SwitchToNext
  <2> QED BY <1>4, <2>1, ParkInv
<1>5. ASSUME own \notin ReadyPositions(st, q, c), call.why = "Blocked" \/ c = BSP
      PROVE  SInv'
  <2>1. CASE call.why = "Exited" /\ StealOffsets(st, q, c) # {}
    <3>1. Steal(c, st, q)
      BY <1>1, <1>2, <1>5, <2>1 DEF SwitchToNext
    <3> QED BY <2>1, <3>1, StealInv
  <2>2. CASE ~(call.why = "Exited" /\ StealOffsets(st, q, c) # {}) /\ AnyWaiter
    <3>1. \E W \in SUBSET {s \in subs' : st[s] = "Parked"} :
            IdleUntilRunnable(c, call, Woken(st, W), q)
      BY <1>1, <1>2, <1>5, <2>2 DEF SwitchToNext
    <3>2. PICK W \in SUBSET {s \in subs' : st[s] = "Parked"} :
            IdleUntilRunnable(c, call, Woken(st, W), q)
      BY <3>1
    <3>3. Entered(c, Woken(st, W), q)
      BY <3>2, WokenEntered DEF SInv
    <3>4. CallSound(c, call, Woken(st, W), q)
      <4>1. current[c] \in Slots
        BY DEF SInv, TypeOK
      <4> QED BY <4>1 DEF CallSound, Woken
    <3> QED BY <1>2, <1>5, <3>2, <3>3, <3>4, IdleInv
  <2>3. CASE ~(call.why = "Exited" /\ StealOffsets(st, q, c) # {}) /\ ~AnyWaiter
    <3>1. NothingForMe(c, call, st, q)
      BY <1>1, <1>2, <1>5, <2>3 DEF SwitchToNext
    <3> QED BY <1>2, <1>5, <3>1, NothingInv
  <2> QED BY <2>1, <2>2, <2>3
<1> QED BY <1>2, <1>3, <1>4, <1>5

----------------------------------------------------------------------------
(* Kernel entries.                                                         *)

\* A core in ring 3, about to enter the kernel.
LEMMA UserFacts ==
  ASSUME SInv, NEW c \in Cores, InUser(c)
  PROVE  /\ TypeOK /\ bkl = None /\ (c = BSP => BSP \in launcher)
         /\ mode[BSP] \notin {"boot", "setup"}
         /\ current[c] \in Slots /\ current[c] # None /\ state[current[c]] = "Running"
         /\ AtHome(queue, c, current[c])
         /\ CurrentPosition(c) \in Positions /\ queue[c][CurrentPosition(c)] = current[c]
<1>1. TypeOK /\ bkl = None /\ current[c] \in Slots /\ current[c] # None
  BY Smallest DEF SInv, TypeOK, InUser
<1>2. state[current[c]] = "Running" /\ AtHome(queue, c, current[c])
  BY DEF SInv, Serves, InUser
<1>3. c = BSP => BSP \in launcher
  BY DEF SInv, Roles, InUser
<1>4. mode[BSP] \notin {"boot", "setup"}
  <2>1. mode[BSP] # "setup"
    BY <1>1, Smallest DEF SInv, Roles
  <2>2. mode[BSP] # "boot"
    BY <1>1, <1>2 DEF SInv, Launching, TableEntirelyEmpty
  <2> QED BY <2>1, <2>2
<1>5. PositionsOf(queue, c, current[c]) \in SUBSET Nat /\ PositionsOf(queue, c, current[c]) # {}
  BY <1>2, Smallest DEF PositionsOf, AtHome
<1>6. CurrentPosition(c) \in PositionsOf(queue, c, current[c])
  BY <1>5, FirstIn DEF CurrentPosition
<1> QED BY <1>1, <1>2, <1>3, <1>4, <1>6 DEF PositionsOf

\* The process of core c leaves the CPU, alive.
LEMMA LeaveEntered ==
  ASSUME SInv, NEW c \in Cores, InUser(c), NEW as \in {"Ready", "Blocked", "Parked"}
  PROVE  Entered(c, [state EXCEPT ![current[c]] = as], queue)
<1> DEFINE cur == current[c]
           st  == [state EXCEPT ![cur] = as]
<1>1. /\ TypeOK /\ cur \in Slots /\ cur # None /\ state[cur] = "Running" /\ AtHome(queue, c, cur)
      /\ mode[BSP] \notin {"boot", "setup"}
  BY UserFacts
<1>2. /\ st \in [Slots -> States] /\ queue \in QueueTables
      /\ \A s \in Slots : st[s] = IF s = cur THEN as ELSE state[s]
  BY <1>1 DEF TypeOK, States, QueueTables
<1> HIDE DEF st
<1>3. Homed(st, queue)
  <2>1. \A s \in Slots : st[s] = "Empty" <=> state[s] = "Empty"
    BY <1>1, <1>2
  <2>2. \A d \in Cores, i \in Positions : queue[d][i] # None => queue[d][i] \in Slots
    BY <1>2 DEF QueueTables
  <2> QED BY <2>1, <2>2 DEF SInv, Homed
<1>4. ASSUME NEW d \in Cores \ {c}
      PROVE  /\ Serves(st, queue, mode, current, d)
             /\ Anchored(st, queue, mode, current, frame, d)
  <2>1. /\ Serves(state, queue, mode, current, d)
        /\ Anchored(state, queue, mode, current, frame, d)
    BY DEF SInv
  <2>2. current[d] \in Slots
    BY <1>1 DEF TypeOK
  <2>3. AtHome(queue, d, current[d]) => current[d] # cur
    BY <1>1 DEF SInv, Homed, Apart, AtHome
  <2>4. Serves(st, queue, mode, current, d)
    BY <1>2, <2>1, <2>2, <2>3 DEF Serves
  <2>5. Anchored(st, queue, mode, current, frame, d)
    BY <1>1, <1>2, <2>1, <2>2 DEF Anchored
  <2> QED BY <2>4, <2>5
<1>5. Running(st, mode, current, Cores \ {c})
  <2> SUFFICES ASSUME NEW s \in Slots, st[s] = "Running"
               PROVE  \E d \in Cores \ {c} : mode[d] = "user" /\ current[d] = s
    BY DEF Running
  <2>1. s # cur /\ state[s] = "Running"
    BY <1>2
  <2> QED BY <2>1 DEF SInv, Running
<1>6. Entered(c, st, queue)
  BY <1>1, <1>2, <1>3, <1>4, <1>5 DEF Entered
<1> QED BY <1>6 DEF st

\* ... and for good.
LEMMA GoneEntered ==
  ASSUME TypeOK, NEW c \in Cores, NEW st, NEW q, Entered(c, st, q), NEW s \in Slots,
         AtHome(q, c, s), st[s] # "Running"
  PROVE  Entered(c, [st EXCEPT ![s] = "Empty"], RemoveFromCoreQueue(q, c, s))
<1> DEFINE u == [st EXCEPT ![s] = "Empty"]
           r == RemoveFromCoreQueue(q, c, s)
<1>1. st \in [Slots -> States] /\ q \in QueueTables /\ Homed(st, q) /\ Apart(q) /\ s # None
  BY Smallest DEF Entered, Homed
<1>2. /\ u \in [Slots -> States]
      /\ \A x \in Slots : u[x] = IF x = s THEN "Empty" ELSE st[x]
  BY <1>1 DEF States
<1>3. /\ r \in QueueTables
      /\ \E j \in Positions :
           /\ q[c][j] = s /\ r[c][j] = None
           /\ \A e \in Cores, i \in Positions : ~(e = c /\ i = j) => r[e][i] = q[e][i]
  BY <1>1, RemoveFacts
<1> HIDE DEF u, r
<1>4. PICK j \in Positions :
        /\ q[c][j] = s /\ r[c][j] = None
        /\ \A e \in Cores, i \in Positions : ~(e = c /\ i = j) => r[e][i] = q[e][i]
  BY <1>3
<1>5. ASSUME NEW e \in Cores, NEW i \in Positions, r[e][i] # None
      PROVE  r[e][i] = q[e][i] /\ q[e][i] # s /\ r[e][i] \in Slots
  <2>1. r[e][i] = q[e][i] /\ q[e][i] # s
    BY <1>1, <1>4, <1>5 DEF Apart
  <2> QED BY <1>3, <1>5, <2>1 DEF QueueTables
<1>6. ASSUME NEW e \in Cores, NEW i \in Positions, q[e][i] # s PROVE r[e][i] = q[e][i]
  BY <1>4, <1>6
<1>7. Homed(u, r)
  <2>1. Apart(r)
    BY <1>1, <1>5 DEF Apart
  <2>2. \A e \in Cores, i \in Positions : r[e][i] # None => u[r[e][i]] # "Empty"
    BY <1>1, <1>2, <1>5 DEF Homed
  <2>3. ASSUME NEW x \in Slots, u[x] # "Empty" PROVE \E e \in Cores : AtHome(r, e, x)
    <3>1. x # s /\ st[x] # "Empty"
      BY <1>2, <2>3
    <3>2. PICK e \in Cores, i \in Positions : q[e][i] = x
      BY <1>1, <3>1 DEF Homed, AtHome
    <3> QED BY <1>6, <3>1, <3>2 DEF AtHome
  <2> QED BY <2>1, <2>2, <2>3 DEF Homed
<1>8. ASSUME NEW d \in Cores \ {c}
      PROVE  Serves(u, r, mode, current, d) /\ Anchored(u, r, mode, current, frame, d)
  <2>1. Serves(st, q, mode, current, d) /\ Anchored(st, q, mode, current, frame, d)
    BY DEF Entered
  <2>2. current[d] \in Slots
    BY DEF TypeOK
  <2>3. ASSUME NEW i \in Positions, q[d][i] = current[d]
        PROVE  current[d] # s /\ r[d][i] = current[d]
    <3>1. current[d] # s
      BY <1>1, <1>4, <2>3 DEF Apart
    <3> QED BY <1>6, <2>3, <3>1
  <2>4. Serves(u, r, mode, current, d)
    BY <1>2, <2>1, <2>2, <2>3 DEF Serves, AtHome
  <2>5. Anchored(u, r, mode, current, frame, d)
    BY <1>2, <2>1, <2>2, <2>3 DEF Anchored, Frames
  <2> QED BY <2>4, <2>5
<1>9. Running(u, mode, current, Cores \ {c})
  BY <1>2 DEF Entered, Running
<1>10. Entered(c, u, r)
  BY <1>2, <1>3, <1>7, <1>8, <1>9 DEF Entered
<1> QED BY <1>10 DEF u, r

\* A halted core that wakes.
LEMMA HaltedEntered ==
  ASSUME SInv, NEW c \in Cores, mode[c] \in {"wait", "input", "idle"}, bkl = None,
         mode[c] = "idle" => ~TableEntirelyEmpty(state)
  PROVE  Entered(c, state, queue) /\ (c = BSP => BSP \in launcher)
<1>1. TypeOK /\ state \in [Slots -> States] /\ queue \in QueueTables
  BY DEF SInv, TypeOK, QueueTables
<1>2. mode[BSP] \notin {"boot", "setup"}
  <2>1. mode[BSP] # "setup"
    BY Smallest DEF SInv, Roles
  <2>2. ASSUME mode[BSP] = "boot" PROVE FALSE
    <3>1. TableEntirelyEmpty(state) /\ Resting(mode)
      BY <2>2 DEF SInv, Launching
    <3> QED BY <2>2, <3>1 DEF Resting, Others
  <2> QED BY <2>1, <2>2
<1>3. Running(state, mode, current, Cores \ {c})
  BY DEF SInv, Running
<1>4. c = BSP => BSP \in launcher
  BY DEF SInv, Roles
<1> QED BY <1>1, <1>2, <1>3, <1>4 DEF SInv, Entered

\* A device, or a process that goes on running, wakes processes that wait.
LEMMA WakeInv ==
  ASSUME SInv, bkl = None, NEW W, state' = Woken(state, W),
         \A s \in W \cap Slots : state[s] \notin {"Empty", "Running"},
         UNCHANGED <<queue, current, mode, frame>>, Kept
  PROVE  SInv'
<1>1. TypeOK /\ state \in [Slots -> States] /\ queue \in QueueTables
  BY DEF SInv, TypeOK, QueueTables
<1>2. \A s \in Slots : state'[s] = IF s \in W THEN "Ready" ELSE state[s]
  BY DEF Woken
<1>3. state' \in [Slots -> States]
  BY <1>1, <1>2 DEF Woken, States
<1>4. TypeOK'
  BY <1>1, <1>3 DEF TypeOK, Kept, launchVars, BSP
<1>5. \A s \in Slots : /\ state'[s] = "Empty" <=> state[s] = "Empty"
                       /\ state'[s] = "Running" <=> state[s] = "Running"
  BY <1>2
<1>6. Homed(state', queue')
  <2>1. \A d \in Cores, i \in Positions : queue[d][i] # None => queue[d][i] \in Slots
    BY <1>1 DEF QueueTables
  <2> QED BY <1>5, <2>1 DEF SInv, Homed
<1>7. ASSUME NEW d \in Cores
      PROVE  /\ Serves(state', queue', mode', current', d)
             /\ Anchored(state', queue', mode', current', frame', d)
  <2>1. /\ Serves(state, queue, mode, current, d)
        /\ Anchored(state, queue, mode, current, frame, d)
    BY DEF SInv
  <2>2. current[d] \in Slots
    BY <1>1 DEF TypeOK
  <2> QED BY <1>5, <2>1, <2>2 DEF Serves, Anchored
<1>8. Running(state', mode', current', Cores)
  BY <1>5 DEF SInv, Running
<1>9. Roles(mode', launcher', bkl')
  BY DEF SInv, Kept, launchVars
<1>10. Launching(state', queue', mode', batch')
  BY <1>5, Smallest DEF SInv, Roles, Launching, TableEntirelyEmpty
<1> QED BY <1>4, <1>6, <1>7, <1>8, <1>9, <1>10, SInvNext

\* A new process joins a queue.
LEMMA JoinHomed ==
  ASSUME NEW st \in [Slots -> States], NEW q \in QueueTables, Homed(st, q), NEW c \in Cores,
         NEW s \in Slots, st[s] = "Empty", NEW u, u = PushToCoreQueue(q, c, s),
         NEW w, \A x \in Slots : w[x] = IF x = s THEN "Ready" ELSE st[x]
  PROVE  /\ u \in QueueTables /\ Homed(w, u) /\ AtHome(u, c, s)
         /\ \A d \in Cores, i \in Positions : q[d][i] # None => u[d][i] = q[d][i]
<1>1. Apart(q) /\ \A d \in Cores : ~AtHome(q, d, s)
  BY Smallest DEF Homed, AtHome
<1>2. /\ u \in QueueTables
      /\ \E j \in Positions :
           /\ q[c][j] = None /\ u[c][j] = s
           /\ \A d \in Cores, i \in Positions : ~(d = c /\ i = j) => u[d][i] = q[d][i]
  BY <1>1, PushFacts
<1>3. PICK j \in Positions :
        /\ q[c][j] = None /\ u[c][j] = s
        /\ \A d \in Cores, i \in Positions : ~(d = c /\ i = j) => u[d][i] = q[d][i]
  BY <1>2
<1>4. \A d \in Cores, i \in Positions : q[d][i] # None => u[d][i] = q[d][i]
  BY <1>3
<1>5. \A x \in Slots : w[x] = IF x = s THEN "Ready" ELSE st[x]
  OBVIOUS
<1>6. Apart(u)
  <2> SUFFICES ASSUME NEW e \in Cores, NEW f \in Cores, NEW i \in Positions, NEW l \in Positions,
                      u[e][i] # None, u[f][l] = u[e][i]
               PROVE  f = e /\ l = i
    BY DEF Apart
  <2>1. CASE u[e][i] = s
    BY <1>1, <1>3, <2>1 DEF AtHome
  <2>2. CASE u[e][i] # s
    <3>1. u[e][i] = q[e][i] /\ u[f][l] = q[f][l]
      BY <1>3, <2>2
    <3> QED BY <1>1, <3>1 DEF Apart
  <2> QED BY <2>1, <2>2
<1>7. ASSUME NEW d \in Cores, NEW i \in Positions, u[d][i] # None
      PROVE  w[u[d][i]] # "Empty"
  <2>1. u[d][i] \in Slots
    BY <1>2, <1>7 DEF QueueTables
  <2>2. u[d][i] = s \/ u[d][i] = q[d][i]
    BY <1>3
  <2> QED BY <1>5, <1>7, <2>1, <2>2 DEF Homed
<1>8. ASSUME NEW x \in Slots, w[x] # "Empty"
      PROVE  \E d \in Cores : AtHome(u, d, x)
  <2>1. CASE x = s
    BY <1>3, <2>1 DEF AtHome
  <2>2. CASE x # s
    <3>1. PICK d \in Cores, i \in Positions : q[d][i] = x
      BY <1>5, <1>8, <2>2 DEF Homed, AtHome
    <3> QED BY <1>4, <3>1, Smallest DEF AtHome
  <2> QED BY <2>1, <2>2
<1>9. Homed(w, u)
  BY <1>6, <1>7, <1>8 DEF Homed
<1> QED BY <1>2, <1>3, <1>4, <1>9 DEF AtHome

----------------------------------------------------------------------------
(* Actions.                                                                *)

\* block_current.
LEMMA BlockStep ==
  ASSUME SInv, NEW c \in Cores, NEW as \in {"Blocked", "Parked"}, BlockCurrent(c, as)
  PROVE  SInv'
<1> DEFINE st   == [state EXCEPT ![current[c]] = as]
           call == [pos |-> CurrentPosition(c), why |-> "Blocked"]
<1>1. InUser(c) /\ SwitchToNext(c, call, st, queue)
  BY DEF BlockCurrent
<1>2. /\ TypeOK /\ bkl = None /\ (c = BSP => BSP \in launcher)
      /\ current[c] \in Slots
      /\ CurrentPosition(c) \in Positions /\ queue[c][CurrentPosition(c)] = current[c]
  BY <1>1, UserFacts
<1>3. Entered(c, st, queue)
  BY <1>1, LeaveEntered
<1>4. st[current[c]] = as
  BY <1>2 DEF TypeOK
<1>5. Kept
  BY <1>2 DEF Kept, BlockCurrent, deviceVars, TypeOK
<1>6. CallSound(c, call, st, queue)
  BY <1>2, <1>4 DEF CallSound, Frames
<1> QED BY ONLY SInv, c \in Cores, <1>1, <1>2, <1>3, <1>5, <1>6, SwitchInv

\* on_exit.
LEMMA ExitStep ==
  ASSUME SInv, NEW c \in Cores, OnExit(c)
  PROVE  SInv'
<1> DEFINE cur  == current[c]
           call == [pos |-> CurrentPosition(c), why |-> "Exited"]
           left == [state EXCEPT ![cur] = "Parked"]
           q    == RemoveFromCoreQueue(queue, c, cur)
<1>1. InUser(c)
  BY DEF OnExit
<1>2. /\ TypeOK /\ bkl = None /\ (c = BSP => BSP \in launcher)
      /\ cur \in Slots /\ AtHome(queue, c, cur) /\ CurrentPosition(c) \in Positions
  BY <1>1, UserFacts
<1>3. PICK W \in SUBSET {s \in Slots : state[s] = "Blocked"} :
        SwitchToNext(c, call, [Woken(state, W) EXCEPT ![cur] = "Empty"], q)
  BY DEF OnExit
<1>4. Entered(c, left, queue)
  BY <1>1, LeaveEntered
<1>5. /\ left \in [Slots -> States]
      /\ \A s \in Slots : left[s] = IF s = cur THEN "Parked" ELSE state[s]
  BY <1>2 DEF TypeOK, States
<1> HIDE DEF left
<1>6. Entered(c, Woken(left, W), queue)
  <2>1. \A s \in W \cap Slots : left[s] \notin {"Empty", "Running"}
    BY <1>5
  <2> QED BY <1>2, <1>4, <2>1, WokenEntered
<1>7. [Woken(left, W) EXCEPT ![cur] = "Empty"] = [Woken(state, W) EXCEPT ![cur] = "Empty"]
  BY <1>2, <1>5 DEF Woken
<1>8. Woken(left, W)[cur] # "Running"
  BY <1>2, <1>5 DEF Woken
<1>9. Entered(c, [Woken(left, W) EXCEPT ![cur] = "Empty"], q)
  BY <1>2, <1>6, <1>8, GoneEntered
<1> DEFINE st == [Woken(state, W) EXCEPT ![cur] = "Empty"]
<1>10. Entered(c, st, q) /\ SwitchToNext(c, call, st, q)
  BY <1>3, <1>7, <1>9
<1>11. Kept
  BY <1>2 DEF Kept, OnExit, TypeOK
<1>12. CallSound(c, call, st, q)
  BY <1>2 DEF CallSound, Frames
<1> HIDE DEF st, q, call
<1> QED BY ONLY SInv, c \in Cores, <1>2, <1>10, <1>11, <1>12, SwitchInv

\* A send, a receive or a reply that completes a peer's.
LEMMA WakePeerStep ==
  ASSUME SInv, NEW c \in Cores, WakePeer(c)
  PROVE  SInv'
<1>1. TypeOK /\ bkl = None
  BY DEF SInv, WakePeer, InUser
<1>2. PICK s \in Slots : state[s] = "Blocked" /\ state' = Woken(state, {s})
  BY DEF WakePeer
<1>3. Kept /\ UNCHANGED <<queue, current, mode, frame>>
  BY <1>1 DEF WakePeer, Kept, deviceVars, TypeOK
<1>4. \A x \in {s} \cap Slots : state[x] \notin {"Empty", "Running"}
  BY <1>2
<1> QED BY ONLY SInv, <1>1, <1>2, <1>3, <1>4, WakeInv

\* Input events and disk completions.
LEMMA DeviceStep ==
  ASSUME SInv, InputEvent \/ DiskCompletes
  PROVE  SInv'
<1>1. TypeOK /\ bkl = None
  BY DEF SInv, InputEvent, DiskCompletes
<1>2. Kept /\ UNCHANGED <<queue, current, mode, frame>>
  BY <1>1 DEF InputEvent, DiskCompletes, Kept, deviceVars, TypeOK
<1>3. \E W : state' = Woken(state, W) /\ \A s \in W \cap Slots : state[s] = "Parked"
  <2>1. CASE InputEvent
    BY <2>1 DEF InputEvent
  <2>2. CASE DiskCompletes
    BY <2>2 DEF DiskCompletes
  <2> QED BY <2>1, <2>2
<1>4. PICK W : state' = Woken(state, W) /\ \A s \in W \cap Slots : state[s] = "Parked"
  BY <1>3
<1>5. \A s \in W \cap Slots : state[s] \notin {"Empty", "Running"}
  BY <1>4
<1> QED BY ONLY SInv, <1>1, <1>2, <1>4, <1>5, WakeInv

\* Halted cores that wake.
LEMMA WakesStep ==
  ASSUME SInv, NEW c \in Cores, CoreWakes(c)
  PROVE  SInv'
<1>1. TypeOK /\ bkl = None
  BY DEF SInv, CoreWakes, WakeInSwitch, WakeInInput, WakeInIdle
<1>2. Kept
  BY <1>1 DEF CoreWakes, WakeInSwitch, WakeInInput, WakeInIdle, Kept, deviceVars, TypeOK
<1>3. ASSUME mode[c] \in {"wait", "input"}
      PROVE  /\ Entered(c, state, queue) /\ (c = BSP => BSP \in launcher)
             /\ CallSound(c, frame[c], state, queue) /\ (c # BSP => frame[c].why = "Blocked")
  <2>1. Anchored(state, queue, mode, current, frame, c)
    BY DEF SInv
  <2> QED BY <1>1, <1>3, <2>1, HaltedEntered DEF Anchored, CallSound
<1>4. CASE WakeInSwitch(c)
  <2>1. mode[c] = "wait" /\ SwitchToNext(c, frame[c], state, queue)
    BY <1>4 DEF WakeInSwitch
  <2> QED BY ONLY SInv, c \in Cores, <1>1, <1>2, <1>3, <2>1, SwitchInv
<1>5. CASE WakeInInput(c)
  <2>1. mode[c] = "input" /\ IdleUntilRunnable(c, frame[c], state, queue)
    BY <1>5 DEF WakeInInput
  <2> QED BY ONLY SInv, c \in Cores, <1>1, <1>2, <1>3, <2>1, IdleInv
<1>6. CASE WakeInIdle(c)
  <2>1. mode[c] = "idle"
    BY <1>6 DEF WakeInIdle
  <2>2. ASSUME NEW d \in Cores, NEW i \in ReadyPositions(state, queue, d)
        PROVE  ~TableEntirelyEmpty(state)
    <3>1. i \in Positions /\ queue[d][i] # None /\ state[queue[d][i]] = "Ready"
      BY <2>2 DEF ReadyPositions
    <3>2. queue[d][i] \in Slots
      BY <1>1, <3>1 DEF TypeOK
    <3> QED BY <3>1, <3>2 DEF TableEntirelyEmpty
  <2>3. CASE ReadyPositions(state, queue, c) # {}
    <3>1. ResumeProcess(c, queue[c][FirstClaimable(state, queue, c)], state, queue)
      BY <1>6, <2>3 DEF WakeInIdle
    <3>2. ReadyPositions(state, queue, c) \in SUBSET Nat
      BY Smallest DEF ReadyPositions
    <3>3. FirstClaimable(state, queue, c) \in ReadyPositions(state, queue, c)
      BY <2>3, <3>2, FirstIn DEF FirstClaimable
    <3>4. Entered(c, state, queue) /\ (c = BSP => BSP \in launcher)
      BY <1>1, <2>1, <2>2, <3>3, HaltedEntered
    <3> QED BY ONLY SInv, c \in Cores, <1>1, <1>2, <3>1, <3>3, <3>4, ResumeOwnInv
  <2>4. CASE ReadyPositions(state, queue, c) = {}
    <3>1. StealOffsets(state, queue, c) # {} /\ Steal(c, state, queue)
      BY <1>6, <2>4 DEF WakeInIdle
    <3>2. PICK k \in 1 .. NumCores - 1 : Stealable(state, queue, (c + k) % NumCores) # {}
      BY <3>1 DEF StealOffsets
    <3>3. c + k \in Nat
      BY <3>2, Smallest
    <3>4. (c + k) % NumCores \in Cores
      BY <3>3, Smallest, ModIn DEF Cores
    <3>5. ~TableEntirelyEmpty(state)
      BY <2>2, <3>2, <3>4 DEF Stealable
    <3>6. Entered(c, state, queue) /\ (c = BSP => BSP \in launcher)
      BY <1>1, <2>1, <3>5, HaltedEntered
    <3> QED BY ONLY SInv, c \in Cores, <1>1, <1>2, <3>1, <3>6, StealInv
  <2> QED BY <2>3, <2>4
<1> QED BY <1>4, <1>5, <1>6 DEF CoreWakes

\* Nothing the invariant relates changes.
LEMMA QuietStep ==
  ASSUME SInv, UNCHANGED <<state, queue, current, mode, frame>>, Kept
  PROVE  SInv'
<1>1. TypeOK'
  BY DEF SInv, TypeOK, Kept, launchVars, BSP
<1>2. launcher' = launcher /\ bkl' = bkl /\ batch' = batch
  BY DEF Kept, launchVars
<1> QED BY <1>1, <1>2, SInvNext DEF SInv

\* ring_submit, and the end of the timer stub.
LEMMA SubmitStep ==
  ASSUME SInv, NEW c \in Cores, RingSubmit(c) \/ StubReturns(c)
  PROVE  SInv'
<1>1. TypeOK
  BY DEF SInv
<1>2. CASE RingSubmit(c)
  <2>1. current[c] \in Slots
    BY <1>1 DEF TypeOK
  <2>2. Kept /\ UNCHANGED <<state, queue, current, mode, frame>>
    BY <1>1, <1>2, <2>1 DEF RingSubmit, Kept, tableVars, TypeOK
  <2> QED BY ONLY SInv, <2>2, QuietStep
<1>3. CASE StubReturns(c)
  <2>1. Kept /\ UNCHANGED <<state, queue, current, mode, frame>>
    BY <1>1, <1>3 DEF StubReturns, Kept, tableVars, deviceVars, TypeOK
  <2> QED BY ONLY SInv, <2>1, QuietStep
<1> QED BY <1>2, <1>3

\* The process pick_next finds is Ready, in the core's own queue.
LEMMA PickNextReady ==
  ASSUME NEW st, NEW q, NEW c \in Cores, NEW pos \in Positions, PickNext(st, q, c, pos) # None
  PROVE  PickNext(st, q, c, pos) \in ReadyPositions(st, q, c)
<1> DEFINE k == First(PickNextOffsets(st, q, c, pos))
<1>1. k # None /\ PickNext(st, q, c, pos) = (pos + k) % NumSlots
  BY DEF PickNext
<1>2. PickNextOffsets(st, q, c, pos) \in SUBSET Nat
  BY DEF PickNextOffsets
<1>3. PickNextOffsets(st, q, c, pos) # {}
  BY <1>1 DEF First
<1>4. k \in PickNextOffsets(st, q, c, pos)
  BY <1>2, <1>3, FirstIn
<1> QED BY <1>1, <1>4 DEF PickNextOffsets

\* timer_tick.
LEMMA TickStep ==
  ASSUME SInv, NEW c \in Cores, TimerTick(c)
  PROVE  SInv'
<1> DEFINE cur  == current[c]
           next == PickNext(state, queue, c, CurrentPosition(c))
           s    == queue[c][next]
           st   == [state EXCEPT ![cur] = "Ready"]
<1>1. InUser(c) /\ next # None
  BY DEF TimerTick
<1>2. /\ state' = [state EXCEPT ![cur] = "Ready", ![s] = "Running"]
      /\ current' = [current EXCEPT ![c] = s]
      /\ stub' = [stub EXCEPT ![c] = cur]
      /\ UNCHANGED <<queue, deviceVars, launchVars, mode, frame, spawns>>
  BY DEF TimerTick
<1>3. /\ TypeOK /\ bkl = None /\ (c = BSP => BSP \in launcher)
      /\ cur \in Slots /\ state[cur] = "Running" /\ CurrentPosition(c) \in Positions
  BY <1>1, UserFacts
<1>4. next \in ReadyPositions(state, queue, c)
  BY <1>1, <1>3, PickNextReady
<1>5. Entered(c, st, queue)
  BY <1>1, LeaveEntered
<1> HIDE DEF next
<1>6. next \in Positions /\ s # None /\ state[s] = "Ready"
  BY <1>4 DEF ReadyPositions
<1>7. s \in Slots /\ AtHome(queue, c, s)
  BY <1>3, <1>6 DEF TypeOK, AtHome
<1> HIDE DEF s
<1>8. /\ st[s] = "Ready"
      /\ \A r \in Slots : state'[r] = IF r = s THEN "Running" ELSE st[r]
  BY <1>2, <1>3, <1>6, <1>7 DEF TypeOK
<1>9. TypeOK'
  <2>1. state' \in [Slots -> States] /\ current' \in [Cores -> Slots] /\ stub' \in [Cores -> Slots \cup {None}]
    BY <1>2, <1>3, <1>7 DEF TypeOK, States
  <2> QED BY <1>2, <1>3, <2>1 DEF TypeOK, deviceVars, launchVars, BSP
<1>10. /\ current'[c] = s /\ mode'[c] = "user"
       /\ \A d \in Cores \ {c} : /\ current'[d] = current[d] /\ mode'[d] = mode[d]
                                 /\ frame'[d] = frame[d]
  BY <1>1, <1>2, <1>3 DEF TypeOK, InUser
<1>11. launcher' = launcher /\ bkl' = bkl /\ queue' = queue
  BY <1>2 DEF launchVars
<1> HIDE DEF st
<1> QED BY ONLY SInv, c \in Cores, <1>3, <1>5, <1>7, <1>8, <1>9, <1>10, <1>11, ResumeKeeps

\* spawn.
LEMMA SpawnStep ==
  ASSUME SInv, NEW c \in Cores, Spawn(c)
  PROVE  SInv'
<1> DEFINE s == FirstFreeSlot
<1>1. /\ InUser(c) /\ s # None
      /\ state' = [state EXCEPT ![s] = "Ready"] /\ queue' = PushToCoreQueue(queue, c, s)
      /\ spawns < MaxSpawns /\ spawns' = spawns + 1
      /\ UNCHANGED <<current, deviceVars, launchVars, mode, frame, stub>>
  BY DEF Spawn
<1>2. TypeOK /\ mode[BSP] \notin {"boot", "setup"}
  BY <1>1, UserFacts
<1>3. s \in Slots /\ state[s] = "Empty"
  <2> DEFINE S == {x \in Slots : state[x] = "Empty"}
  <2>1. S # {} /\ S \in SUBSET Nat
    BY <1>1, Smallest DEF FirstFreeSlot, First
  <2> HIDE DEF S
  <2>2. First(S) \in S
    BY <2>1, FirstIn
  <2> QED BY <2>2 DEF FirstFreeSlot, S
<1> HIDE DEF s
<1>4. state \in [Slots -> States] /\ queue \in QueueTables /\ Homed(state, queue)
  BY <1>2 DEF SInv, TypeOK, QueueTables
<1>5. /\ queue' \in QueueTables /\ Homed(state', queue') /\ AtHome(queue', c, s)
      /\ \A d \in Cores, i \in Positions : queue[d][i] # None => queue'[d][i] = queue[d][i]
  <2>1. /\ queue' = PushToCoreQueue(queue, c, s)
        /\ \A x \in Slots : state'[x] = IF x = s THEN "Ready" ELSE state[x]
    BY <1>1, <1>3, <1>4
  <2> QED BY ONLY c \in Cores, <1>3, <1>4, <2>1, JoinHomed
<1>6. /\ state' \in [Slots -> States]
      /\ \A r \in Slots : state'[r] = IF r = s THEN "Ready" ELSE state[r]
  BY <1>1, <1>3, <1>4 DEF States
<1>7. TypeOK'
  <2>1. spawns' \in 0 .. MaxSpawns
    BY <1>1, <1>2, SchedulerAssumption DEF TypeOK
  <2>2. queue' \in [Cores -> [Positions -> Slots \cup {None}]] /\ state' \in [Slots -> States]
    BY <1>5, <1>6 DEF QueueTables
  <2>3. UNCHANGED <<current, deviceVars, launchVars, mode, frame, stub>>
    BY <1>1
  <2> QED BY ONLY <1>2, <2>1, <2>2, <2>3 DEF TypeOK, deviceVars, launchVars, BSP
<1>8. ASSUME NEW d \in Cores
      PROVE  /\ Serves(state', queue', mode', current', d)
             /\ Anchored(state', queue', mode', current', frame', d)
  <2>1. /\ Serves(state, queue, mode, current, d)
        /\ Anchored(state, queue, mode, current, frame, d)
    BY DEF SInv
  <2>2. current[d] \in Slots /\ current[d] # None
    BY <1>2, Smallest DEF TypeOK
  <2>3. mode' = mode /\ current' = current /\ frame' = frame
    BY <1>1
  <2>4. Serves(state', queue', mode', current', d)
    BY <1>3, <1>5, <1>6, <2>1, <2>2, <2>3 DEF Serves, AtHome
  <2>5. Anchored(state', queue', mode', current', frame', d)
    BY <1>3, <1>5, <1>6, <2>1, <2>2, <2>3 DEF Anchored, Frames
  <2> QED BY <2>4, <2>5
<1>9. Running(state', mode', current', Cores)
  BY <1>1, <1>6 DEF SInv, Running
<1>10. Roles(mode', launcher', bkl')
  BY <1>1 DEF SInv, launchVars
<1>11. Launching(state', queue', mode', batch')
  BY <1>1, <1>2 DEF Launching
<1> QED BY <1>5, <1>7, <1>8, <1>9, <1>10, <1>11, SInvNext

----------------------------------------------------------------------------
(* The boot path.                                                          *)

\* While `run` launches, no core runs or waits for a process.
LEMMA LaunchFacts ==
  ASSUME SInv, mode[BSP] \in {"boot", "setup"}
  PROVE  /\ TypeOK /\ Resting(mode)
         /\ \A s \in Slots : state[s] # "Running"
<1>1. TypeOK /\ Resting(mode)
  BY DEF SInv, Launching
<1>2. \A c \in Cores : mode[c] # "user"
  BY <1>1 DEF Resting, Others
<1> QED BY <1>1, <1>2 DEF SInv, Running

\* The invariant after a step of `run` that does not enter a process.
LEMMA LaunchNext ==
  ASSUME SInv, mode[BSP] \in {"boot", "setup"}, mode'[BSP] \in {"boot", "setup"},
         \A c \in Others : mode'[c] = mode[c], bkl' = (IF mode'[BSP] = "setup" THEN BSP ELSE None),
         TypeOK', Homed(state', queue'), \A s \in Slots : state'[s] # "Running",
         Launching(state', queue', mode', batch')
  PROVE  SInv'
<1>1. Resting(mode)
  BY LaunchFacts
<1>2. \A c \in Cores : mode'[c] \notin {"user", "wait", "input"}
  BY <1>1 DEF Resting, Others
<1>3. \A c \in Cores : /\ Serves(state', queue', mode', current', c)
                       /\ Anchored(state', queue', mode', current', frame', c)
  BY <1>2 DEF Serves, Anchored
<1>4. Running(state', mode', current', Cores)
  BY DEF Running
<1>5. Roles(mode', launcher', bkl')
  BY <1>1, Smallest DEF Roles, Resting
<1> QED BY <1>3, <1>4, <1>5, SInvNext

\* The next core of the round robin is a core.
LEMMA HomeCoreIn ==
  ASSUME NEW cursor \in 0 .. NumCores
  PROVE  HomeCore(cursor) \in Cores
<1> DEFINE S == {k \in 0 .. NumCores - 1 : (cursor + k) % NumCores \in Online}
<1>1. NumCores \in Nat \ {0} /\ BSP \in Online
  BY Smallest, SchedulerAssumption
<1>2. S # {}
  <2>1. CASE cursor \in {0, NumCores}
    <3>1. (cursor + 0) % NumCores = 0
      BY <1>1, <2>1
    <3> QED BY <1>1, <3>1 DEF BSP
  <2>2. CASE cursor \in 1 .. NumCores - 1
    <3> DEFINE k == NumCores - cursor
    <3>1. k \in 0 .. NumCores - 1 /\ (cursor + k) % NumCores = 0
      BY <1>1, <2>2
    <3> QED BY <1>1, <3>1 DEF BSP
  <2> QED BY <1>1, <2>1, <2>2
<1>3. S \in SUBSET Nat
  BY <1>1
<1>4. First(S) \in S
  BY <1>2, <1>3, FirstIn
<1>5. cursor + First(S) \in Nat
  BY <1>1, <1>4
<1> HIDE DEF S
<1>6. (cursor + First(S)) % NumCores \in Cores
  BY <1>1, <1>5, ModIn DEF Cores
<1> QED BY <1>6 DEF HomeCore, S

\* `run` begins.
LEMMA RunStartStep ==
  ASSUME SInv, RunStart
  PROVE  SInv'
<1>1. TypeOK /\ mode[BSP] = "boot" /\ \A s \in Slots : state[s] # "Running"
  BY LaunchFacts DEF RunStart
<1>2. /\ batch' \in [count : 0 .. NumSlots, done : 0 .. NumSlots]
      /\ batch'.done = 0 /\ batch'.count \in Nat \ {0}
  <2>1. PICK n \in BatchSizes : batch' = [count |-> n, done |-> 0]
    BY DEF RunStart
  <2>2. n \in 1 .. NumSlots
    BY <2>1 DEF BatchSizes
  <2> QED BY <2>1, <2>2, SchedulerAssumption
<1>3. mode'[BSP] = "setup" /\ \A c \in Others : mode'[c] = mode[c]
  BY <1>1, Smallest DEF RunStart, TypeOK, Others
<1>4. /\ mode' \in [Cores -> {"off", "boot", "setup", "user", "wait", "input", "idle"}]
      /\ runs' \in 0 .. MaxRuns
  BY <1>1, SchedulerAssumption DEF RunStart, TypeOK
<1>5. bkl' = BSP /\ UNCHANGED <<tableVars, deviceVars, next_home, launcher, frame, stub, spawns>>
  BY DEF RunStart
<1>6. TypeOK'
  BY ONLY <1>1, <1>2, <1>4, <1>5 DEF TypeOK, tableVars, deviceVars, BSP
<1>7. state' = state /\ queue' = queue
  BY <1>5 DEF tableVars
<1>8. Homed(state', queue')
  BY <1>7 DEF SInv
<1>9. Launching(state', queue', mode', batch')
  <2>1. Resting(mode) /\ TableEntirelyEmpty(state)
    BY <1>1 DEF SInv, Launching
  <2>2. \A s \in Slots : state'[s] = IF s < batch'.done THEN "Ready" ELSE "Empty"
    BY <1>2, <1>7, <2>1, Smallest DEF TableEntirelyEmpty
  <2> QED BY <1>2, <1>3, <2>1, <2>2 DEF Launching, Resting
<1> QED BY <1>1, <1>3, <1>5, <1>6, <1>7, <1>8, <1>9, LaunchNext

\* setup_process.
LEMMA SetupStep ==
  ASSUME SInv, SetupProcess
  PROVE  SInv'
<1> DEFINE id   == batch.done
           home == IF id = 0 THEN BSP ELSE HomeCore(next_home)
<1>1. mode[BSP] = "setup" /\ TypeOK /\ bkl = BSP /\ \A s \in Slots : state[s] # "Running"
  BY LaunchFacts DEF SetupProcess, SInv, Roles
<1>2. /\ id < batch.count
      /\ state' = [state EXCEPT ![id] = "Ready"] /\ queue' = PushToCoreQueue(queue, home, id)
      /\ next_home' = (IF id = 0 THEN next_home ELSE home + 1)
      /\ batch' = [batch EXCEPT !.done = @ + 1]
      /\ UNCHANGED <<current, deviceVars, launcher, bkl, runs, mode, frame, stub, spawns>>
  BY DEF SetupProcess
<1>3. id \in Slots /\ state[id] = "Empty" /\ (id > 0 => AtHome(queue, BSP, 0)) /\ Resting(mode)
      /\ \A s \in Slots : state[s] = IF s < id THEN "Ready" ELSE "Empty"
  <2>1. id \in Slots
    BY <1>1, <1>2, SchedulerAssumption DEF TypeOK, Slots
  <2>2. /\ \A s \in Slots : state[s] = IF s < id THEN "Ready" ELSE "Empty"
        /\ (id > 0 => AtHome(queue, BSP, 0)) /\ Resting(mode)
    BY <1>1 DEF SInv, Launching
  <2> HIDE DEF id
  <2>3. ~(id < id)
    BY <2>1, Smallest
  <2> QED BY <2>1, <2>2, <2>3
<1>4. home \in Cores
  BY <1>1, HomeCoreIn, Smallest DEF TypeOK
<1>5. /\ batch' \in [count : 0 .. NumSlots, done : 0 .. NumSlots]
      /\ batch'.done = id + 1 /\ batch'.count = batch.count /\ id + 1 <= batch.count
      /\ batch.count > 0
  BY <1>1, <1>2, SchedulerAssumption DEF TypeOK
<1>6. next_home' \in 0 .. NumCores
  BY <1>1, <1>2, <1>4, Smallest DEF TypeOK, Cores
<1> HIDE DEF home
<1>7. state \in [Slots -> States] /\ queue \in QueueTables /\ Homed(state, queue)
  BY <1>1 DEF SInv, TypeOK, QueueTables
<1> HIDE DEF id
<1>8. /\ queue' \in QueueTables /\ Homed(state', queue') /\ AtHome(queue', home, id)
      /\ \A d \in Cores, i \in Positions : queue[d][i] # None => queue'[d][i] = queue[d][i]
  <2>1. /\ queue' = PushToCoreQueue(queue, home, id)
        /\ \A x \in Slots : state'[x] = IF x = id THEN "Ready" ELSE state[x]
    BY <1>2, <1>3, <1>7
  <2> QED BY ONLY <1>3, <1>4, <1>7, <2>1, JoinHomed
<1>9. /\ state' \in [Slots -> States]
      /\ \A r \in Slots : state'[r] = IF r = id THEN "Ready" ELSE state[r]
  BY <1>2, <1>3, <1>7 DEF States
<1>10. TypeOK'
  <2>1. queue' \in [Cores -> [Positions -> Slots \cup {None}]] /\ state' \in [Slots -> States]
    BY <1>8, <1>9 DEF QueueTables
  <2>2. UNCHANGED <<current, deviceVars, launcher, bkl, runs, mode, frame, stub, spawns>>
    BY <1>2
  <2> QED BY ONLY <1>1, <1>5, <1>6, <2>1, <2>2 DEF TypeOK, deviceVars, BSP
<1>11. Launching(state', queue', mode', batch')
  <2>1. AtHome(queue', BSP, 0)
    <3>1. CASE id = 0
      BY <1>8, <3>1 DEF home
    <3>2. CASE id # 0
      <4>1. id > 0
        BY <1>3, <3>2, Smallest
      <4> QED BY <1>3, <1>8, <4>1, Smallest DEF AtHome
    <3> QED BY <3>1, <3>2
  <2>2. \A s \in Slots : state'[s] = IF s < batch'.done THEN "Ready" ELSE "Empty"
    BY <1>3, <1>5, <1>9, Smallest
  <2>3. mode' = mode
    BY <1>2
  <2> QED BY <1>1, <1>3, <1>5, <2>1, <2>2, <2>3 DEF Launching
<1>12. mode'[BSP] = "setup" /\ bkl' = BSP /\ \A c \in Others : mode'[c] = mode[c]
  BY <1>1, <1>2
<1>13. \A s \in Slots : state'[s] # "Running"
  BY <1>1, <1>9
<1> QED BY <1>1, <1>8, <1>10, <1>11, <1>12, <1>13, LaunchNext

\* teardown_all.
LEMMA SetupFailsStep ==
  ASSUME SInv, SetupFails
  PROVE  SInv'
<1>1. mode[BSP] = "setup" /\ TypeOK /\ Resting(mode)
  BY LaunchFacts DEF SetupFails
<1>2. /\ state' = [s \in Slots |-> "Empty"]
      /\ queue' = [c \in Cores |-> [i \in Positions |-> None]]
      /\ bkl' = None /\ batch' = [count |-> 0, done |-> 0]
      /\ next_home' = (IF batch.done = 0 THEN next_home ELSE HomeCore(next_home) + 1)
      /\ mode' = [mode EXCEPT ![BSP] = "boot"]
      /\ UNCHANGED <<current, deviceVars, launcher, runs, frame, stub, spawns>>
  BY DEF SetupFails
<1>3. next_home' \in 0 .. NumCores
  <2>1. next_home \in 0 .. NumCores /\ HomeCore(next_home) \in 0 .. NumCores - 1
    BY <1>1, HomeCoreIn DEF TypeOK, Cores
  <2> QED BY <1>2, <2>1, Smallest
<1>4. mode'[BSP] = "boot" /\ \A c \in Others : mode'[c] = mode[c]
  BY <1>1, <1>2, Smallest DEF TypeOK, Others
<1>5. TypeOK'
  <2>1. /\ mode' \in [Cores -> {"off", "boot", "setup", "user", "wait", "input", "idle"}]
        /\ state' \in [Slots -> States]
        /\ queue' \in [Cores -> [Positions -> Slots \cup {None}]]
        /\ batch' \in [count : 0 .. NumSlots, done : 0 .. NumSlots]
        /\ bkl' \in {0, None}
    BY <1>1, <1>2, SchedulerAssumption DEF TypeOK, States
  <2>2. UNCHANGED <<current, deviceVars, launcher, runs, frame, stub, spawns>>
    BY <1>2
  <2> QED BY ONLY <1>1, <1>3, <2>1, <2>2 DEF TypeOK, deviceVars, BSP
<1>6. Homed(state', queue')
  BY <1>2 DEF Homed, Apart
<1>7. Launching(state', queue', mode', batch')
  BY <1>1, <1>2, <1>4 DEF Launching, Resting, TableEntirelyEmpty
<1>8. \A s \in Slots : state'[s] # "Running"
  BY <1>2
<1>9. bkl' = (IF mode'[BSP] = "setup" THEN BSP ELSE None)
  BY <1>2, <1>4
<1> QED BY <1>1, <1>4, <1>5, <1>6, <1>7, <1>8, <1>9, LaunchNext

\* `run` enters its first process.
LEMMA RunEnterStep ==
  ASSUME SInv, RunEnter
  PROVE  SInv'
<1>1. mode[BSP] = "setup" /\ TypeOK /\ Resting(mode) /\ \A s \in Slots : state[s] # "Running"
  BY LaunchFacts DEF RunEnter
<1>2. /\ batch.done = batch.count
      /\ state' = [state EXCEPT ![0] = "Running"] /\ current' = [current EXCEPT ![BSP] = 0]
      /\ launcher' = launcher \cup {BSP} /\ batch' = [count |-> 0, done |-> 0] /\ bkl' = None
      /\ mode' = [mode EXCEPT ![BSP] = "user"]
      /\ UNCHANGED <<queue, deviceVars, next_home, runs, frame, stub, spawns>>
  BY DEF RunEnter
<1>3. state[0] = "Ready" /\ AtHome(queue, BSP, 0)
  <2>1. batch.done > 0
    BY <1>1, <1>2 DEF SInv, Launching
  <2> QED BY <1>1, <2>1, Smallest DEF SInv, Launching
<1>4. TypeOK'
  <2>1. /\ mode' \in [Cores -> {"off", "boot", "setup", "user", "wait", "input", "idle"}]
        /\ state' \in [Slots -> States] /\ current' \in [Cores -> Slots]
        /\ batch' \in [count : 0 .. NumSlots, done : 0 .. NumSlots]
        /\ bkl' \in {0, None} /\ launcher' \subseteq {0}
    BY <1>1, <1>2, Smallest, SchedulerAssumption DEF TypeOK, States, BSP
  <2>2. UNCHANGED <<queue, deviceVars, next_home, runs, frame, stub, spawns>>
    BY <1>2
  <2> QED BY ONLY <1>1, <2>1, <2>2 DEF TypeOK, deviceVars, BSP
<1>5. /\ \A s \in Slots : state'[s] = IF s = 0 THEN "Running" ELSE state[s]
      /\ mode'[BSP] = "user" /\ current'[BSP] = 0
      /\ \A c \in Others : mode'[c] = mode[c]
  BY <1>1, <1>2, Smallest DEF TypeOK, Others
<1>6. Homed(state', queue')
  <2>1. \A s \in Slots : state'[s] = "Empty" <=> state[s] = "Empty"
    BY <1>3, <1>5, Smallest
  <2>2. \A d \in Cores, i \in Positions : queue[d][i] # None => queue[d][i] \in Slots
    BY <1>1 DEF TypeOK
  <2>3. queue' = queue
    BY <1>2
  <2> QED BY <2>1, <2>2, <2>3 DEF SInv, Homed
<1>7. \A c \in Others : mode'[c] \in {"idle", "off"}
  BY <1>1, <1>5 DEF Resting
<1>8. ASSUME NEW c \in Cores
      PROVE  /\ Serves(state', queue', mode', current', c)
             /\ Anchored(state', queue', mode', current', frame', c)
  <2>1. CASE c = BSP
    BY <1>2, <1>3, <1>5, <2>1, Smallest DEF Serves, Anchored
  <2>2. CASE c # BSP
    BY <1>7, <2>2 DEF Serves, Anchored, Others
  <2> QED BY <2>1, <2>2
<1>9. Running(state', mode', current', Cores)
  BY <1>1, <1>5, Smallest DEF Running
<1>10. Roles(mode', launcher', bkl')
  BY <1>2, <1>5, <1>7, Smallest DEF Roles
<1>11. Launching(state', queue', mode', batch')
  BY <1>5 DEF Launching
<1> QED BY <1>4, <1>6, <1>8, <1>9, <1>10, <1>11, SInvNext

----------------------------------------------------------------------------
(* The theorems.                                                           *)

\* At boot the table is empty and no core runs anything.
LEMMA InitSInv == Init => SInv
<1> SUFFICES ASSUME Init PROVE SInv
  OBVIOUS
<1>1. TypeOK
  BY Smallest, SchedulerAssumption DEF Init, TypeOK, States, Frames
<1>2. \A c \in Cores : mode[c] = IF c = BSP THEN "boot" ELSE IF c \in Online THEN "idle" ELSE "off"
  BY DEF Init
<1>3. Homed(state, queue)
  BY DEF Init, Homed, Apart
<1>4. \A c \in Cores : /\ Serves(state, queue, mode, current, c)
                       /\ Anchored(state, queue, mode, current, frame, c)
  BY <1>2 DEF Serves, Anchored
<1>5. Running(state, mode, current, Cores)
  BY DEF Running, Init
<1>6. Roles(mode, launcher, bkl)
  BY <1>2, Smallest DEF Roles, Others, Init
<1>7. Launching(state, queue, mode, batch)
  BY <1>2, Smallest DEF Launching, Resting, Others, TableEntirelyEmpty, Init
<1> QED BY <1>1, <1>3, <1>4, <1>5, <1>6, <1>7 DEF SInv

\* Every step of the scheduler keeps its invariant.
LEMMA SInvInductive == SInv /\ [Next]_vars => SInv'
<1> SUFFICES ASSUME SInv, [Next]_vars PROVE SInv'
  OBVIOUS
<1>1. CASE InputEvent \/ DiskCompletes
  BY <1>1, DeviceStep
<1>2. ASSUME NEW c \in Online, CoreStep(c) PROVE SInv'
  <2>1. c \in Cores
    BY SchedulerAssumption
  <2>2. CASE TimerTick(c)
    BY <2>1, <2>2, TickStep
  <2>3. CASE StubReturns(c)
    BY <2>1, <2>3, SubmitStep
  <2>4. CASE CoreWakes(c)
    BY <2>1, <2>4, WakesStep
  <2>5. CASE c = BSP /\ Run
    BY <2>5, RunStartStep, SetupStep, SetupFailsStep, RunEnterStep DEF Run
  <2> QED BY <1>2, <2>2, <2>3, <2>4, <2>5 DEF CoreStep
<1>3. ASSUME NEW c \in Online, UserStep(c) PROVE SInv'
  <2>1. c \in Cores
    BY SchedulerAssumption
  <2>2. CASE BlockCurrent(c, "Blocked") \/ BlockCurrent(c, "Parked")
    BY <2>1, <2>2, BlockStep
  <2>3. CASE OnExit(c)
    BY <2>1, <2>3, ExitStep
  <2>4. CASE WakePeer(c)
    BY <2>1, <2>4, WakePeerStep
  <2>5. CASE Spawn(c)
    BY <2>1, <2>5, SpawnStep
  <2>6. CASE RingSubmit(c)
    BY <2>1, <2>6, SubmitStep
  <2> QED BY <1>3, <2>2, <2>3, <2>4, <2>5, <2>6 DEF UserStep
<1>4. CASE UNCHANGED vars
  <2>1. Kept /\ UNCHANGED <<state, queue, current, mode, frame>>
    BY <1>4 DEF vars, tableVars, deviceVars, Kept, SInv, TypeOK
  <2> QED BY <2>1, QuietStep
<1> QED BY <1>1, <1>2, <1>3, <1>4 DEF Next

\* A process is in one queue, at one position, while it lives.
LEMMA SInvQueuedOnce == SInv => QueuedOnce
<1> SUFFICES ASSUME SInv, NEW s \in Slots
             PROVE  Cardinality({ci \in Cores \X Positions : queue[ci[1]][ci[2]] = s})
                      = IF state[s] = "Empty" THEN 0 ELSE 1
  BY DEF QueuedOnce
<1> DEFINE P == {ci \in Cores \X Positions : queue[ci[1]][ci[2]] = s}
<1>1. Homed(state, queue) /\ s # None
  BY Smallest DEF SInv
<1>2. CASE state[s] = "Empty"
  <2>1. P = {}
    BY <1>1, <1>2 DEF Homed
  <2> QED BY <1>2, <2>1, FS_EmptySet
<1>3. CASE state[s] # "Empty"
  <2>1. PICK c \in Cores, i \in Positions : queue[c][i] = s
    BY <1>1, <1>3 DEF Homed, AtHome
  <2>2. P = {<<c, i>>}
    <3>1. <<c, i>> \in P
      BY <2>1
    <3>2. ASSUME NEW p \in P PROVE p = <<c, i>>
      <4>1. p \in Cores \X Positions /\ queue[p[1]][p[2]] = s
        OBVIOUS
      <4>2. p = <<p[1], p[2]>> /\ p[1] \in Cores /\ p[2] \in Positions
        BY <4>1
      <4>3. p[1] = c /\ p[2] = i
        BY <1>1, <2>1, <4>1, <4>2 DEF Homed, Apart
      <4> QED BY <4>2, <4>3
    <3> QED BY <3>1, <3>2
  <2>3. Cardinality({<<c, i>>}) = 1
    BY FS_Singleton
  <2> QED BY <1>3, <2>2, <2>3
<1> QED BY <1>2, <1>3

\* Queues, cores and process states agree: a process is in exactly one queue from
\* its set-up to its exit, a core in ring 3 runs a process of its own queue, and
\* no process runs on two cores, whatever is spawned, stolen, woken or torn down.
THEOREM SchedulerQueuesSound == Spec => []QueuesSound
<1>1. SInv => QueuesSound
  <2> SUFFICES ASSUME SInv PROVE TypeOK /\ RunsAtHome
    BY SInvQueuedOnce DEF QueuesSound
  <2>1. ASSUME NEW c \in Cores, mode[c] = "user"
        PROVE  state[current[c]] = "Running" /\ PositionsOf(queue, c, current[c]) # {}
    BY <2>1 DEF SInv, Serves, AtHome, PositionsOf
  <2>2. Running(state, mode, current, Cores) /\ TypeOK
    BY DEF SInv
  <2> QED BY <2>1, <2>2 DEF RunsAtHome, Running
<1> QED BY <1>1, InitSInv, SInvInductive, PTL DEF Spec

\* A core halted in switch_to_next for a process it blocked still has it, at the
\* position the call remembers: try_steal never takes the donor's own process.
THEOREM WaitersKeepTheirProcess == Spec => []WaitAnchored
<1>1. SInv => WaitAnchored
  BY DEF SInv, WaitAnchored, Anchored
<1> QED BY <1>1, InitSInv, SInvInductive, PTL DEF Spec

\* When `run` has returned the table and every queue are empty and every other
\* core is idle or off, so the next demo finds the machine as the first one did.
THEOREM RunLeavesClean == Spec => []RunReturnsClean
<1>1. SInv => RunReturnsClean
  <2> SUFFICES ASSUME SInv, mode[BSP] = "boot" PROVE RunReturnsClean
    BY DEF RunReturnsClean
  <2>1. TableEntirelyEmpty(state) /\ Resting(mode)
    BY DEF SInv, Launching
  <2>2. ASSUME NEW c \in Cores, NEW i \in Positions, queue[c][i] # None PROVE FALSE
    <3>1. queue[c][i] \in Slots
      BY <2>2 DEF SInv, TypeOK
    <3> QED BY <2>1, <2>2, <3>1 DEF SInv, Homed, TableEntirelyEmpty
  <2> QED BY <2>1, <2>2 DEF RunReturnsClean, Resting, Others
<1> QED BY <1>1, InitSInv, SInvInductive, PTL DEF Spec

============================================================================
