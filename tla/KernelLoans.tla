---------------------------- MODULE KernelLoans ----------------------------
(***************************************************************************)
(* KernelIpc implements Loans: an object's holder is the process whose     *)
(* table holds its capability, its owner the lender the capability names,  *)
(* or the holder when it names none.                                       *)
(***************************************************************************)
EXTENDS KernelIpc

\* Everything `run` grants that no syscall can mint.
Objects ==
  UNION {{<<BootGrants[p][i].kind, BootGrants[p][i].id>> :
            i \in {j \in 1 .. Len(BootGrants[p]) :
                     BootGrants[p][j].kind \in ReclaimableKinds}} :
         p \in DOMAIN BootGrants}

IsAt(x, p, s) == Holds(p, s, x[1]) /\ CapAt(p, s).id = x[2]

\* The process whose table has the capability for x: at most one (OneHolder).
HolderOf(x) ==
  IF \E p \in Procs : \E s \in Slots : IsAt(x, p, s)
  THEN CHOOSE p \in Procs : \E s \in Slots : IsAt(x, p, s)
  ELSE None

OwnerOf(x) ==
  LET p == HolderOf(x)
  IN  IF p = None THEN None
      ELSE LET s == CHOOSE s \in Slots : IsAt(x, p, s)
           IN  IF CapAt(p, s).origin = None THEN p
               ELSE CapAt(p, s).origin.lender

Loan == INSTANCE Loans WITH Nobody <- None,
  holder <- [x \in Objects |-> HolderOf(x)],
  owner  <- [x \in Objects |-> OwnerOf(x)]

\* Whatever the interleaving of sends, receives, spawns, releases and deaths,
\* each disk range, input source and screen band moves as Loans allows: in
\* particular it is never destroyed while it is out on loan.
ImplementsLoans == Loan!Spec

============================================================================
