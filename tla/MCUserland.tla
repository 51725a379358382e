---------------------------- MODULE MCUserland -----------------------------
(***************************************************************************)
(* What runs in a process of its own - the reactor of the library OS, the  *)
(* filesystem, a pager, the shell - for one TLC run.  They share no state, *)
(* so one behaviour exercises one of them and leaves the others at their   *)
(* start.                                                                  *)
(***************************************************************************)
EXTENDS Reactor, RwFs, FaultUpcall, Shell

VARIABLE subject  \* the program this behaviour is about

userlandVars == <<subject, reactorAllVars, fsVars, faultVars, shellVars>>

\* A step of one program.
Reading(A) == subject = "reactor" /\ A /\ UNCHANGED <<subject, fsVars, faultVars, shellVars>>
Filing(A)  == subject = "files" /\ A /\ UNCHANGED <<subject, reactorAllVars, faultVars, shellVars>>
Paging(A)  == subject = "pager" /\ A /\ UNCHANGED <<subject, reactorAllVars, fsVars, shellVars>>
Showing(A) == subject = "shell" /\ A /\ UNCHANGED <<subject, reactorAllVars, fsVars, faultVars>>

UserlandInit ==
  /\ subject \in {"reactor", "files", "pager", "shell"}
  /\ ReactorInit /\ FsInit /\ PagerInit /\ ShellInit

UserlandNext == Reading(ReactorNext) \/ Filing(FsNext) \/ Paging(PagerNext) \/ Showing(ShellNext)

\* ReactorFairness and PagerFairness, each for the behaviours about it.
UserlandSpec ==
  /\ UserlandInit /\ [][UserlandNext]_userlandVars
  /\ WF_userlandVars(Reading(ExecutorStep))
  /\ WF_userlandVars(Reading(\E u \in in_flight : Answer(u)))
  /\ \A c \in PagerCores : WF_userlandVars(Paging(HandlerStep(c)))
  /\ \A c \in PagerCores : WF_userlandVars(Paging(TimerTick(c)))
  /\ \A p \in Pagers :
       /\ SF_userlandVars(Paging(\E c \in PagerCores : Dispatch(c, p)))
       /\ SF_userlandVars(Paging(\E c \in PagerCores : core[c] = p /\ Access(c)))

============================================================================
