------------------------------- MODULE Loans -------------------------------
(***************************************************************************)
(* What the kernel promises about a capability it cannot mint again (ABI.md *)
(* v2.9 and v2.10): one process holds it, one process owns it, passing it   *)
(* on moves the holder and never the owner, and while it is out on loan it  *)
(* cannot be destroyed -- the borrower's release or death returns it, and   *)
(* the owner's death leaves it with the borrower.                           *)
(***************************************************************************)
CONSTANTS Procs, Objects, Nobody

VARIABLES holder, owner    \* object |-> a process, or Nobody once destroyed

vars == <<holder, owner>>

Init ==
  /\ holder \in [Objects -> Procs \cup {Nobody}]
  /\ owner = holder

\* Lent, passed on, or handed back.
Pass(x, p) ==
  /\ holder[x] # Nobody
  /\ p # holder[x]
  /\ holder' = [holder EXCEPT ![x] = p]
  /\ UNCHANGED owner

\* The borrower is done with it, alive or dead.
Return(x) ==
  /\ holder[x] # owner[x]
  /\ holder' = [holder EXCEPT ![x] = owner[x]]
  /\ UNCHANGED owner

\* An outright owner gives it up.
Forfeit(x) ==
  /\ holder[x] = owner[x]
  /\ holder' = [holder EXCEPT ![x] = Nobody]
  /\ owner' = [owner EXCEPT ![x] = Nobody]

\* p dies with nothing borrowed: what it held goes, what it lent stays lent.
Die(p) ==
  /\ \A x \in Objects : holder[x] = p => owner[x] = p
  /\ holder' = [x \in Objects |-> IF holder[x] = p THEN Nobody ELSE holder[x]]
  /\ owner' = [x \in Objects |-> IF owner[x] # p THEN owner[x]
                                 ELSE IF holder[x] = p THEN Nobody
                                 ELSE holder[x]]

Next ==
  \/ \E x \in Objects : (\E p \in Procs : Pass(x, p)) \/ Return(x) \/ Forfeit(x)
  \/ \E p \in Procs : Die(p)

Spec == Init /\ [][Next]_vars

============================================================================
