------------------------------- MODULE Demos -------------------------------
(***************************************************************************)
(* Demo programs main.rs runs at boot, one batch after the other, on the  *)
(* kernel of module KernelIpc: those about frames, endpoints, spawn, disk  *)
(* ranges and the screen.  A program is the sequence of its system calls   *)
(* with what it insists each of them answers: a program that gets another  *)
(* answer prints its complaint and exits with a nonzero code.  What        *)
(* programs print and paint, and the busy loops between the calls, are     *)
(* left out.  Any runnable process may make the next call: that covers     *)
(* every slice the timer gives, long or short, and every core a process    *)
(* is queued on or stolen by (module Scheduler has the queues).            *)
(***************************************************************************)
EXTENDS KernelIpc, SequencesExt

CONSTANTS
  Rounds,     \* REUSE_ROUNDS (20), more than a capability table has slots
  NumRings    \* MAX_RINGS

ASSUME DemoAssumption ==
  /\ Rounds \in Nat /\ Rounds > MaxCaps
  /\ NumRings \in Nat

VARIABLES
  batch,   \* how many batches main.rs has started
  prog,    \* process |-> the program it runs
  pc,      \* process |-> its next call
  regs,    \* process |-> the slots its locals name
  answer,  \* process |-> the answer it has not looked at yet, or None
  failed   \* this batch's programs that have complained, each with the answer it got

progVars == <<batch, prog, pc, regs, answer, failed>>
allVars  == <<vars, progVars>>

----------------------------------------------------------------------------
(* The programs.                                                           *)

\* The slots the launch fixes by position (ENDPOINT_SLOT, BLOCK_SLOT, FB_SLOT
\* are 1, SPAWN_GRANT_SLOT 2), NO_CAP, and the locals a program fills in.
Locals == {"h1", "h2", "h3", "frame", "cap", "sq", "cq", "ring"}
FixedSlots == [none |-> None, s0 |-> 0, s1 |-> 1, s2 |-> 2, s3 |-> 3]
StartRegs == FixedSlots @@ [r \in Locals |-> None]

\* A call: the slot it goes to, the slot it sends or lends, the program it
\* spawns, the local its resulting slot is kept in, the answer insisted on.
Do(op, slot, want) == [op |-> op, slot |-> slot, lend |-> "none",
                       child |-> "none", keep |-> "none", want |-> want]

SendCap(slot, lend)     == [Do("send", slot, "any") EXCEPT !.lend = lend]
SpawnOf(child, lend, h) ==
  [Do("spawn", "none", "ok") EXCEPT !.lend = lend, !.child = child, !.keep = h]
RecvCap(slot, want)     == [Do("recv", slot, want) EXCEPT !.keep = "cap"]
AllocFrame(local)       == [Do("frame_alloc", "none", "ok") EXCEPT !.keep = local]

\* frame_alloc and frame_map, as every disk demo begins.
MappedFrame(local) == <<AllocFrame(local), Do("frame_map", local, "ok")>>
Buffer == MappedFrame("frame")

\* shim_ring of libplinth, ring::init of libos: two queue frames and a ring.
RingSetUp == MappedFrame("sq") \o MappedFrame("cq")
             \o <<[Do("ring_register", "none", "ok") EXCEPT !.keep = "ring"]>>

\* sys_block_read; the first of a process sets the shim's ring up.
Read(range)      == <<Do("READ", range, "ok")>>
FirstRead(range) == RingSetUp \o Read(range)

\* libplinth: spawn_and_wait and spawn_and_wait_cap give the handle back.
SpawnAndWait(child, lend, want) ==
  <<SpawnOf(child, lend, "h1"), RecvCap("h1", want), Do("release", "h1", "any")>>

Repeat(n, calls) == FlattenSeq([i \in 1 .. n |-> calls])

PingRounds == 4
RpcRounds  == 3

\* hello: a frame, mapped, given back, and the handle is dead.
hello == Buffer \o <<Do("release", "frame", "ok"), Do("frame_map", "frame", "err")>>

\* demo_app over a bump allocator, whose three blocks take two frames, and over
\* a free list, which needs one; crash dereferences null.
bump  == Buffer \o Buffer
list  == Buffer
crash == <<Do("store", "none", "err")>>

\* greedy charges its budget until the kernel ends it; spin only computes.
greedy == Repeat(CpuBudget, <<Do("charge", "s0", "ok")>>) \o <<Do("charge", "s0", "err")>>
spin   == <<>>

\* The screen demos.  gfxbound writes past the band it has mapped, gfxrevoke
\* into the band it has released: both must fault.
gfx       == <<AllocFrame("frame"), Do("fb_map", "frame", "err"), Do("fb_map", "s1", "ok")>>
gfxsplit  == <<Do("fb_map", "s1", "ok")>>
gfxbound  == <<Do("fb_map", "s1", "ok"), Do("store_past", "none", "err")>>
gfxrevoke == <<Do("fb_map", "s1", "ok"), Do("store", "none", "ok"),
               Do("release", "s1", "ok"), Do("store", "none", "err")>>

\* pingpong: the two halves alternate, so each round is a rendezvous each way.
pinger == Repeat(PingRounds, <<Do("send", "s1", "any"), Do("recv", "s1", "ok")>>)
ponger == Repeat(PingRounds, <<Do("recv", "s1", "ok"), Do("send", "s1", "any")>>)

\* share: the producer's frame moves, the consumer maps what it was sent.
producer == Buffer \o <<SendCap("s1", "frame")>>
consumer == <<RecvCap("s1", "cap"), Do("frame_map", "cap", "ok")>>

\* rpc: the server answers through the reply capability each call brings.
server == Repeat(RpcRounds, <<RecvCap("s1", "ok"), Do("reply", "cap", "any")>>)
client == Repeat(RpcRounds, <<Do("call", "s1", "ok")>>)

\* blk reads within its range and is refused past it; asyncblk has four reads,
\* in flight together, into as many frames; blkwrite reads back what it wrote,
\* and is refused a write to its read-only range.
blk      == Buffer \o FirstRead("s1") \o <<Do("read_past", "s1", "err")>>
asyncblk == RingSetUp \o Repeat(4, Buffer) \o Repeat(4, Read("s1"))
blkwrite == RingSetUp \o Buffer \o <<Do("WRITE", "s1", "ok")>>
            \o Buffer \o Read("s1") \o <<Do("WRITE", "s2", "err")>>

\* The programs of the SPAWNABLE table, and diskhello of the boot archive.  A
\* fault ends a program as exit does.
grantee         == <<Do("send", "s1", "any")>>
faultchild      == <<>>
stealwork       == <<Do("send", "s1", "any")>>
shellapp        == <<Do("fb_map", "s2", "ok"), SendCap("s1", "s2")>>
quietworker     == <<Do("send", "s1", "any")>>
diskhello       == <<Do("send", "s1", "any")>>
fbreclaimchild  == <<Do("fb_map", "s2", "ok")>>
fbreleasechild  == <<Do("fb_map", "s2", "ok"), Do("release", "s2", "ok"),
                     Do("send", "s1", "any")>>
blkreclaimchild == Buffer \o FirstRead("s2")
blkrelendmid    == Buffer \o FirstRead("s2")
                     \o <<SpawnOf("blkreclaimchild", "s2", "h1"),
                          RecvCap("h1", "dead, nothing back")>>
blkrecvchild    == <<RecvCap("s2", "cap")>> \o Buffer \o FirstRead("cap")

\* Who spawns and joins: the handle, the landing and the slot are checked.
spawner == SpawnAndWait("grantee", "none", "ok")
           \o SpawnAndWait("faultchild", "none", "dead")

\* More rounds than the table has slots; NO_CAP cannot be released.
caprelease ==
  Repeat(Rounds, <<SpawnOf("quietworker", "none", "h1"), Do("recv", "h1", "ok"),
                   Do("release", "h1", "ok")>>)
  \o <<Do("release", "none", "err")>>

stealer ==
  <<SpawnOf("stealwork", "none", "h1"), SpawnOf("stealwork", "none", "h2"),
    SpawnOf("stealwork", "none", "h3"),
    Do("recv", "h1", "ok"), Do("recv", "h2", "ok"), Do("recv", "h3", "ok")>>

\* A range or a screen lent to a child that dies holding it, in every way a
\* capability is lent: by spawn, through a child that lends it on, by send_cap.
blkreclaim ==
  Buffer \o FirstRead("s1") \o <<SpawnOf("blkreclaimchild", "s1", "h1"),
                                 RecvCap("h1", "dead, back at slot 1")>> \o Read("cap")
blkrelend ==
  Buffer \o FirstRead("s1") \o <<SpawnOf("blkrelendmid", "s1", "h1"),
                                 RecvCap("h1", "dead, back at slot 1")>> \o Read("cap")
blkipclend ==
  <<SpawnOf("blkrecvchild", "s3", "h1"), SendCap("s2", "s1")>> \o Buffer
  \o <<RecvCap("h1", "dead, back at slot 1")>> \o FirstRead("cap")
fbreclaim ==
  <<Do("fb_map", "s1", "ok"), SpawnOf("fbreclaimchild", "s1", "h1"),
    RecvCap("h1", "dead, something back"), Do("fb_map", "cap", "ok")>>
fbrelease ==
  <<Do("fb_map", "s1", "ok"), SpawnOf("fbreleasechild", "s1", "h1"),
    RecvCap("h1", "ok"), Do("fb_map", "s1", "ok")>>
spawnwaitcap ==
  <<Do("fb_map", "s1", "ok")>>
  \o SpawnAndWait("fbreclaimchild", "s1", "dead, back at slot 1")
  \o <<Do("fb_map", "cap", "ok")>>
  \o Repeat(Rounds, SpawnAndWait("quietworker", "none", "ok, no cap"))

\* fsdemo loads a program of one page from the archive: superblock and directory
\* into the scratch page, the image into the next one.
fsdemo ==
  Buffer \o FirstRead("s1") \o Read("s1")
  \o Buffer \o Read("s1") \o <<SpawnOf("diskhello", "none", "h1"), Do("recv", "h1", "ok")>>

\* launch_app of the shell: whether the app hands the screen back or dies with
\* it, it is home in slot 1, the wait handle is given up and the screen mapped.
LaunchApp(app, want) ==
  <<SpawnOf(app, "s1", "h1"), RecvCap("h1", want), Do("release", "h1", "ok"),
    Do("fb_map", "cap", "ok")>>

\* The tour of the scripted input: the app three times, then the crash.
shell ==
  <<Do("fb_map", "s1", "ok")>> \o RingSetUp
  \o Repeat(3, LaunchApp("shellapp", "ok, back at slot 1"))
  \o LaunchApp("fbreclaimchild", "dead, back at slot 1")

Programs ==
  [ hello |-> hello, bump |-> bump, list |-> list, crash |-> crash,
    blk |-> blk, asyncblk |-> asyncblk, blkwrite |-> blkwrite, greedy |-> greedy,
    spin |-> spin, gfx |-> gfx,
    gfxsplit |-> gfxsplit, gfxbound |-> gfxbound, gfxrevoke |-> gfxrevoke,
    pinger |-> pinger, ponger |-> ponger, producer |-> producer,
    consumer |-> consumer, server |-> server, client |-> client,
    grantee |-> grantee, faultchild |-> faultchild, stealwork |-> stealwork,
    shellapp |-> shellapp, quietworker |-> quietworker, diskhello |-> diskhello,
    fbreclaimchild |-> fbreclaimchild, fbreleasechild |-> fbreleasechild,
    blkreclaimchild |-> blkreclaimchild, blkrelendmid |-> blkrelendmid,
    blkrecvchild |-> blkrecvchild, spawner |-> spawner, caprelease |-> caprelease,
    stealer |-> stealer, blkreclaim |-> blkreclaim, blkrelend |-> blkrelend,
    blkipclend |-> blkipclend, fbreclaim |-> fbreclaim, fbrelease |-> fbrelease,
    spawnwaitcap |-> spawnwaitcap, fsdemo |-> fsdemo, shell |-> shell ]

----------------------------------------------------------------------------
(* The boot sequence.                                                      *)

Both   == Cap("Endpoint", 0, {"SEND", "RECV"})
SendEp == Cap("Endpoint", 0, {"SEND"})
RecvEp == Cap("Endpoint", 0, {"RECV"})
DiskRange == Cap("BlockRange", 0, {"READ"})
WriteRange == Cap("BlockRange", 1, {"READ", "WRITE"})
Band(n)   == Cap("Framebuffer", n, {"MAP", "WRITE"})

Keyboard  == Cap("EventSource", 0, {"READ"})
Mouse     == Cap("EventSource", 1, {"READ"})

Alone(p, grants) == << <<p, grants>> >>

\* Batches main.rs starts, in its order: each the programs of processes 0, 1,
\* ... with their grants.  Not among them: lazy (module FaultUpcall), bind
\* (DirectBinding), rwfs (RwFs) and the readers of input, evt, evtstream, kbd,
\* unified, mouse and gfxtext (Rings, Reactor): each a process alone, on a part
\* of the kernel that KernelIpc leaves out.  First what runs without a grant,
AloneBatches ==
  << Alone("hello", <<>>), Alone("bump", <<>>), Alone("crash", <<>>),
     Alone("list", <<>>), Alone("greedy", <<>>),
     << <<"spin", <<>> >>, <<"spin", <<>> >>, <<"spin", <<>> >> >> >>

\* the demos of rendezvous, of capability transfer and of call and reply,
IpcBatches ==
  << << <<"pinger", <<Both>> >>, <<"ponger", <<Both>> >> >>,
     << <<"producer", <<Both>> >>, <<"consumer", <<Both>> >> >>,
     << <<"server", <<RecvEp>> >>, <<"client", <<SendEp>> >> >> >>

\* the demos of spawn, of cap_release and of stealing,
SpawnBatches ==
  << Alone("spawner", <<>>), Alone("caprelease", <<>>), Alone("stealer", <<>>) >>

\* reading and writing the disk, the three ways to lend a range, the archive,
BlockBatches ==
  << Alone("blk", <<DiskRange>>), Alone("asyncblk", <<DiskRange>>),
     Alone("blkwrite", <<WriteRange, DiskRange>>),
     Alone("blkreclaim", <<DiskRange>>), Alone("blkrelend", <<DiskRange>>),
     Alone("blkipclend", <<DiskRange, SendEp, RecvEp>>), Alone("fsdemo", <<DiskRange>>) >>

\* the whole screen, its two halves, the two forbidden stores,
ScreenBatches ==
  << Alone("gfx", <<Band(0)>>),
     << <<"gfxsplit", <<Band(0)>> >>, <<"gfxsplit", <<Band(1)>> >> >>,
     Alone("gfxbound", <<Band(0)>>), Alone("gfxrevoke", <<Band(0)>>) >>

\* the three ways to lend the screen,
ScreenLendBatches ==
  << Alone("fbreclaim", <<Band(0)>>), Alone("spawnwaitcap", <<Band(0)>>),
     Alone("fbrelease", <<Band(0)>>) >>

\* and the shell.
ShellBatch == << Alone("shell", <<Band(0), Keyboard, Mouse>>) >>

Batches == AloneBatches \o IpcBatches \o SpawnBatches \o BlockBatches
             \o ScreenBatches \o ScreenLendBatches \o ShellBatch

\* setup_process: the CPU budget, then the grants in order.
LaunchTable(grants) ==
  [EmptyTable EXCEPT !.slots = [s \in Slots |->
     IF s = 0 THEN Cap("CpuTime", CpuBudget, {"CONSUME"})
     ELSE IF s <= Len(grants) THEN grants[s] ELSE None]]

Quiet == exiting = None /\ \A p \in Procs : state[p] = "Empty"

\* The next `scheduler::run`, which returns when its last process is gone.
\* create_endpoint comes first where a grant names one, and takes entry 0.
Launch ==
  LET started == Batches[batch + 1]
      In(p)   == p < Len(started)
      tabs    == [p \in Procs |-> IF In(p) THEN LaunchTable(started[p + 1][2])
                                  ELSE caps[p]]
      senders   == Cardinality(Referents(tabs, 0, "SEND"))
      receivers == Cardinality(Referents(tabs, 0, "RECV"))
  IN /\ Quiet /\ batch < Len(Batches)
     /\ senders + receivers > 0 => FirstFreeEndpoint(0)
     /\ batch' = batch + 1
     /\ caps' = tabs
     /\ state' = [p \in Procs |-> IF In(p) THEN "Ready" ELSE "Empty"]
     /\ eps' = IF senders + receivers = 0 THEN eps
               ELSE [eps EXCEPT ![0] = [EmptyEndpoint EXCEPT !.in_use = TRUE,
                       !.senders = senders, !.receivers = receivers]]
     /\ prog' = [p \in Procs |-> IF In(p) THEN started[p + 1][1] ELSE "none"]
     /\ failed' = {}
     /\ UNCHANGED <<maps, pending, landing, free, exiting, pc, regs, answer>>

----------------------------------------------------------------------------
(* Running a program.                                                      *)

Finished(p) == pc[p] > Len(Programs[prog[p]])
ThisCall(p) == Programs[prog[p]][pc[p]]

\* A store through the mapping at MAP_BASE; without one it faults, and so does
\* every store past the mapping (store_past, which no disjunct performs).
Store(p) == maps[p] # {} /\ UNCHANGED vars

\* ring_register: the first free ring, its capability in the first free slot.
RingRegister(p, sq, cq) ==
  LET taken == {CapAt(q, s).id : <<q, s>> \in
                  {qs \in Procs \X Slots : Holds(qs[1], qs[2], "Ring")}}
      rings == (0 .. NumRings - 1) \ taken
  IN /\ Holds(p, sq, "Frame") /\ Holds(p, cq, "Frame")
     /\ CapAt(p, sq).id # CapAt(p, cq).id
     /\ rings # {} /\ InstallSlot(caps[p]) # None
     /\ caps' = [caps EXCEPT ![p] =
          Put(@, InstallSlot(@), Cap("Ring", Min(rings), {"READ", "WRITE"}))]
     /\ UNCHANGED <<state, maps, eps, pending, landing, free, exiting>>

\* A transfer through the ring, once the driver has answered.  Outside the
\* range it is refused (read_past, which no disjunct performs).
BlockTransfer(p, s, f, right) ==
  /\ Holds(p, regs[p].ring, "Ring")
  /\ s # None /\ Holds(p, s, "BlockRange") /\ right \in CapAt(p, s).rights
  /\ Holds(p, f, "Frame")
  /\ UNCHANGED vars

\* The mapping made is the one of slot s.  Programs give their mappings
\* different addresses; here they are numbered from MAP_BASE on.
Through(p, s) ==
  \E m \in maps'[p] \ maps[p] :
    m.slot = s /\ m.va = Min(VAs \ {n.va : n \in maps[p]})

\* The system call c of process p, as KernelIpc has it.
Perform(p, c) ==
  LET s == regs[p][c.slot]
      l == regs[p][c.lend]
  IN \/ /\ c.op = "send"
        /\ SendRendezvous(p, s, l) \/ SendBlocks(p, s, l)
     \/ /\ c.op = "recv"
        /\ \E e \in Endpoints :
             /\ EndpointFor(p, s, e, "RECV")
             /\ RecvCall(p, e) \/ RecvSend(p, e) \/ RecvBlocks(p, e)
     \/ /\ c.op = "call"
        /\ \E e \in Endpoints :
             /\ EndpointFor(p, s, e, "SEND")
             /\ CallRendezvous(p, e) \/ CallBlocks(p, e)
     \/ c.op = "reply" /\ Reply(p) /\ caps'[p].slots[s] = None
     \/ c.op = "frame_alloc" /\ FrameAlloc(p) /\ free \ free' = {Min(free)}
     \/ c.op = "ring_register" /\ RingRegister(p, regs[p].sq, regs[p].cq)
     \/ c.op = "frame_map" /\ FrameMap(p) /\ Through(p, s)
     \/ c.op = "fb_map" /\ FbMap(p) /\ Through(p, s)
     \/ c.op = "store" /\ Store(p)
     \/ c.op \in {"READ", "WRITE"} /\ BlockTransfer(p, s, regs[p].frame, c.op)
     \/ c.op = "charge" /\ CpuCharge(p) /\ caps'[p].slots[s].id = CapAt(p, s).id - 1
     \/ c.op = "release" /\ s # None /\ CapRelease(p) /\ caps'[p].slots[s] = None
     \/ c.op = "spawn" /\ SpawnChild(p, l)

\* The slot a step filled in q's table, or None.
Filled(q) ==
  LET new == {s \in Slots : /\ caps'[q].slots[s] # None
                            /\ caps'[q].slots[s] # CapAt(q, s)}
  IN IF new = {} THEN None ELSE CHOOSE s \in new : TRUE

Answered(status, slot) == [status |-> status, slot |-> slot]

MayRun(p) == CanCall(p) /\ answer[p] = None /\ ~Finished(p)

\* A call that succeeds or blocks.  Whoever it leaves running or wakes has
\* IPC_OK, with the slot of what arrived.
MakeCall(p) ==
  /\ MayRun(p)
  /\ Perform(p, ThisCall(p))
  /\ answer' = [q \in Procs |->
       IF state'[q] = "Ready" /\ (q = p \/ state[q] = "Blocked")
       THEN Answered("ok", Filled(q)) ELSE answer[q]]
  /\ prog' = [q \in Procs |-> IF state[q] = "Empty" /\ state'[q] = "Ready"
                              THEN ThisCall(p).child ELSE prog[q]]
  /\ UNCHANGED <<batch, pc, regs, failed>>

\* A receive with no sender left: IPC_PEER_DIED and the noted landing.
PeerGone(p) ==
  /\ MayRun(p)
  /\ ThisCall(p).op = "recv"
  /\ \E e \in Endpoints :
       EndpointFor(p, regs[p][ThisCall(p).slot], e, "RECV") /\ RecvPeerDied(p, e)
  /\ answer' = [answer EXCEPT ![p] = Answered("dead", landing[p])]
  /\ UNCHANGED <<batch, prog, pc, regs, failed>>

\* A spawn that finds the process table full; what it would have lent is put
\* back.
TableFull == \A q \in Procs : state[q] # "Empty"

SpawnRefused(p) ==
  LET l == regs[p][ThisCall(p).lend]
  IN /\ MayRun(p) /\ ThisCall(p).op = "spawn" /\ TableFull
     /\ IF Moves(p, l) THEN SpawnFails(p, l) ELSE UNCHANGED vars
     /\ answer' = [answer EXCEPT ![p] = Answered("full", None)]
     /\ UNCHANGED <<batch, prog, pc, regs, failed>>

\* Another call refused, a store that faults, a charge that overdraws.
Refused(p) ==
  /\ MayRun(p)
  /\ ~(ThisCall(p).op = "spawn" /\ TableFull)
  /\ ~ENABLED Perform(p, ThisCall(p)) /\ ~ENABLED PeerGone(p)
  /\ answer' = [answer EXCEPT ![p] = Answered("err", None)]
  /\ UNCHANGED <<vars, batch, prog, pc, regs, failed>>

\* The test the program makes of an answer.
Fits(a, want) ==
  CASE want = "any"                  -> TRUE
    [] want \in {"ok", "err", "dead"} -> a.status = want
    [] want = "cap"                  -> a.status = "ok" /\ a.slot # None
    [] want = "ok, no cap"           -> a = Answered("ok", None)
    [] want = "ok, back at slot 1"   -> a = Answered("ok", 1)
    [] want = "dead, nothing back"   -> a = Answered("dead", None)
    [] want = "dead, something back" -> a.status = "dead" /\ a.slot # None
    [] want = "dead, back at slot 1" -> a = Answered("dead", 1)

\* The program looks at its answer and goes on, or complains and ends.
GoOn(p) ==
  LET c  == ThisCall(p)
      ok == Fits(answer[p], c.want)
  IN /\ CanCall(p) /\ answer[p] # None
     /\ pc' = [pc EXCEPT ![p] = IF ok THEN @ + 1 ELSE Len(Programs[prog[p]]) + 1]
     /\ regs' = IF ok /\ c.keep # "none"
                THEN [regs EXCEPT ![p][c.keep] = answer[p].slot] ELSE regs
     /\ failed' = IF ok THEN failed ELSE failed \cup {<<prog[p], answer[p].status>>}
     /\ answer' = [answer EXCEPT ![p] = None]
     /\ UNCHANGED <<vars, batch, prog>>

\* The program ends, by sys_exit or by the fault it ends in.
EndProgram(p) ==
  /\ answer[p] = None /\ CanCall(p) /\ Finished(p)
  /\ Exit(p)
  /\ UNCHANGED progVars

\* on_exit; whoever reap_dying wakes has IPC_PEER_DIED and its landing.
TearDown(p) ==
  \/ ReclaimLentCap(p) /\ UNCHANGED progVars
  \/ /\ FinishExit(p)
     /\ answer' = [q \in Procs |->
          IF q \in Woken(p) THEN Answered("dead", landing[q]) ELSE answer[q]]
     /\ prog' = [prog EXCEPT ![p] = "none"]
     /\ pc' = [pc EXCEPT ![p] = 1]
     /\ regs' = [regs EXCEPT ![p] = StartRegs]
     /\ UNCHANGED <<batch, failed>>

DemoInit ==
  /\ Init
  /\ batch = 0
  /\ prog = [p \in Procs |-> "none"]
  /\ pc = [p \in Procs |-> 1]
  /\ regs = [p \in Procs |-> StartRegs]
  /\ answer = [p \in Procs |-> None]
  /\ failed = {}

\* A step of the program that p runs, or of its death.
ProgramStep(p) ==
  \/ MakeCall(p) \/ PeerGone(p) \/ SpawnRefused(p) \/ Refused(p) \/ GoOn(p)
  \/ EndProgram(p) \/ TearDown(p)

DemoNext == Launch \/ \E p \in Procs : ProgramStep(p)

\* Some core executes the process it has; main.rs goes on when run returns.
DemoSpec == DemoInit /\ [][DemoNext]_allVars /\ WF_allVars(DemoNext)

----------------------------------------------------------------------------
(* Properties.                                                             *)

\* Whatever order the processes run in, every call of these demos answers what
\* the program insists on, but for a spawn that finds the process table full:
\* every lent range and screen is back in slot 1 when the loss of its holder is
\* reported, no capability table and no endpoint pool fills up.
DemosSucceed == \A f \in failed : f[2] = "full"

\* The boot gets through these demos, one that has failed included: nobody is
\* left waiting in any of them, and each leaves every frame and every endpoint
\* free, the baselines main.rs prints before and after.
DemosComplete ==
  /\ <>(batch = Len(Batches) /\ Quiet)
  /\ [](Quiet => free = Frames /\ \A e \in Endpoints : ~eps[e].in_use)

=============================================================================
