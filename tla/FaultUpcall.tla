----------------------------- MODULE FaultUpcall -----------------------------
(***************************************************************************)
(* Self-paging: a page fault in a process's lazy region is handed to the   *)
(* handler it registered, which maps a frame with ordinary system calls    *)
(* and returns to the faulting instruction.  kernel/src/fault.rs, the two  *)
(* system calls fault_reg and fault_return, and programs that behave as    *)
(* lazy-user, crash-user and faultchild-user do.                           *)
(*                                                                         *)
(* A context is who was interrupted and at which access.  Handlers run     *)
(* with interrupts off (RFLAGS 0x2) and make no call that blocks, so a     *)
(* core leaves one only when it returns or dies; programs are preempted at *)
(* any time.                                                               *)
(***************************************************************************)
EXTENDS Naturals, FiniteSets

CONSTANTS
  NoTrap,      \* a model value: no context, no process
  Pagers,      \* processes
  PagerCores,  \* cores
  LazyPages,   \* pages of the lazy region
  Outside,     \* addresses outside it, or present without the right
  PageFrames   \* bound: free frames at the start

ASSUME PagerAssumption == PageFrames \in Nat

VARIABLES
  pager,        \* process |-> its state, registration, flag, mappings, place
  saved_trap,   \* SAVED_TRAP
  core,         \* core |-> the process it runs
  frames_left   \* free frames

faultVars == <<pager, saved_trap, core, frames_left>>

Addresses == LazyPages \cup Outside

PagerInit ==
  /\ pager = [p \in Pagers |->
       [state |-> "run",       \* run, handler, resuming, exited
        fault |-> FALSE,       \* a handler is registered
        in_fault |-> FALSE,
        mapped |-> {},
        at |-> NoTrap,         \* the access it is making, in its own program
        ctx |-> NoTrap,        \* the context its registers hold
        step |-> "entered"]]   \* progress of its handler
  /\ saved_trap = NoTrap
  /\ core = [c \in PagerCores |-> NoTrap]
  /\ frames_left = PageFrames

Runs(c, p, s) == core[c] = p /\ p # NoTrap /\ pager[p].state = s

\* A process whose registers hold its own context.
OnCourse(p) == pager[p].ctx = NoTrap \/ pager[p].ctx = [who |-> p, at |-> pager[p].at]

\* exit_current: frames drained, the core free.
Ends(p, c) ==
  /\ pager' = [pager EXCEPT ![p].state = "exited", ![p].mapped = {}, ![p].fault = FALSE,
                            ![p].in_fault = FALSE]
  /\ frames_left' = frames_left + Cardinality(pager[p].mapped)
  /\ core' = [core EXCEPT ![c] = NoTrap]
  /\ UNCHANGED saved_trap

----------------------------------------------------------------------------
(* The program.                                                            *)

FaultReg(c) == \E p \in Pagers :
  /\ Runs(c, p, "run") /\ ~pager[p].fault
  /\ pager' = [pager EXCEPT ![p].fault = TRUE]
  /\ UNCHANGED <<saved_trap, core, frames_left>>

\* The program reaches its next access.
Reach(c, a) == \E p \in Pagers :
  /\ Runs(c, p, "run") /\ pager[p].at = NoTrap
  /\ pager' = [pager EXCEPT ![p].at = a, ![p].ctx = [who |-> p, at |-> a]]
  /\ UNCHANGED <<saved_trap, core, frames_left>>

\* The access succeeds.
Access(c) == \E p \in Pagers :
  /\ Runs(c, p, "run") /\ OnCourse(p) /\ pager[p].at \in pager[p].mapped
  /\ pager' = [pager EXCEPT ![p].at = NoTrap, ![p].ctx = NoTrap]
  /\ UNCHANGED <<saved_trap, core, frames_left>>

ProgramExits(c) == \E p \in Pagers : Runs(c, p, "run") /\ Ends(p, c)

----------------------------------------------------------------------------
(* The page fault.                                                         *)

\* deliver_fault_handler clears IF: no timer tick while the handler runs.
HandlerMasked(p) == pager[p].state = "handler"

\* The guards of page_fault_dispatch.
Deliverable(p) == pager[p].fault /\ ~pager[p].in_fault /\ pager[p].at \in LazyPages

\* page_fault_dispatch, deliver: in_fault set, the context saved, the handler
\* entered.
PageFault(c) == \E p \in Pagers :
  /\ Runs(c, p, "run") /\ OnCourse(p)
  /\ pager[p].at \in Addresses \ pager[p].mapped /\ Deliverable(p)
  /\ saved_trap' = pager[p].ctx
  /\ pager' = [pager EXCEPT ![p].in_fault = TRUE, ![p].state = "handler",
                            ![p].step = "entered"]
  /\ UNCHANGED <<core, frames_left>>

\* page_fault_dispatch, unhandled: the process ends.
FaultEnds(c) == \E p \in Pagers :
  /\ Runs(c, p, "run") /\ OnCourse(p)
  /\ pager[p].at \in Addresses \ pager[p].mapped /\ ~Deliverable(p)
  /\ Ends(p, c)

\* A fault inside the handler: in_fault is set, so it ends the process.
NestedFault(c) == \E p \in Pagers :
  /\ Runs(c, p, "handler") /\ pager[p].in_fault
  /\ Ends(p, c)

----------------------------------------------------------------------------
(* The handler: frame_alloc, frame_map, fault_return.                      *)

\* Mutant: the handler returns without having mapped anything.
HandlerAllocsNot(c) == \E p \in Pagers :
  /\ Runs(c, p, "handler") /\ pager[p].step = "entered"
  /\ pager' = [pager EXCEPT ![p].step = "mapped"]
  /\ UNCHANGED <<saved_trap, core, frames_left>>

\* frame_alloc and frame_map at the faulting page; a handler that gets no frame
\* exits.
HandlerAllocs(c) == \E p \in Pagers :
  /\ Runs(c, p, "handler") /\ pager[p].step = "entered"
  /\ IF frames_left = 0 THEN Ends(p, c)
     ELSE /\ frames_left' = frames_left - 1
          /\ pager' = [pager EXCEPT ![p].step = "mapped", ![p].mapped = @ \cup {pager[p].at}]
          /\ UNCHANGED <<saved_trap, core>>

\* sys_fault_return: in_fault is cleared and the lock released ...
FaultReturn(c) == \E p \in Pagers :
  /\ Runs(c, p, "handler") /\ pager[p].step = "mapped" /\ pager[p].in_fault
  /\ pager' = [pager EXCEPT ![p].in_fault = FALSE, ![p].state = "resuming"]
  /\ UNCHANGED <<saved_trap, core, frames_left>>

\* ... before resume_user_trap reads the saved context.
Resume(c) == \E p \in Pagers :
  /\ Runs(c, p, "resuming")
  /\ pager' = [pager EXCEPT ![p].state = "run", ![p].ctx = saved_trap]
  /\ UNCHANGED <<saved_trap, core, frames_left>>

----------------------------------------------------------------------------
(* The scheduler.                                                          *)

TimerTick(c) ==
  /\ core[c] # NoTrap /\ ~HandlerMasked(core[c]) /\ pager[core[c]].state # "resuming"
  /\ core' = [core EXCEPT ![c] = NoTrap]
  /\ UNCHANGED <<pager, saved_trap, frames_left>>

Dispatch(c, p) ==
  /\ core[c] = NoTrap /\ \A d \in PagerCores : core[d] # p
  /\ pager[p].state # "exited"
  /\ core' = [core EXCEPT ![c] = p]
  /\ UNCHANGED <<pager, saved_trap, frames_left>>

HandlerStep(c) == HandlerAllocs(c) \/ FaultReturn(c) \/ Resume(c)

PagerNext ==
  \E c \in PagerCores :
    \/ FaultReg(c) \/ Access(c) \/ ProgramExits(c)
    \/ \E a \in Addresses : Reach(c, a)
    \/ PageFault(c) \/ FaultEnds(c) \/ NestedFault(c)
    \/ HandlerAllocs(c) \/ FaultReturn(c) \/ Resume(c)
    \/ TimerTick(c)
    \/ \E p \in Pagers : Dispatch(c, p)

\* A core goes on with what it runs, the timer ticks, and the scheduler gives every
\* process its turn (Scheduler!ReadyRuns).
PagerFairness ==
  /\ \A c \in PagerCores : WF_faultVars(HandlerStep(c))
  /\ \A c \in PagerCores : WF_faultVars(TimerTick(c))
  /\ \A p \in Pagers : SF_faultVars(\E c \in PagerCores : Dispatch(c, p))
  /\ \A p \in Pagers : SF_faultVars(\E c \in PagerCores : core[c] = p /\ Access(c))

PagerSpec == PagerInit /\ [][PagerNext]_faultVars /\ PagerFairness

----------------------------------------------------------------------------
(* Properties.                                                             *)

\* A delivered fault ends with the access done or the process gone: the retried
\* instruction does not fault for ever.
FaultServed ==
  \A p \in Pagers : (pager[p].state = "handler") ~>
                    (pager[p].state = "exited" \/ pager[p].at = NoTrap)
=============================================================================
