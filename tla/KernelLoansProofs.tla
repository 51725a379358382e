------------------------- MODULE KernelLoansProofs -------------------------
(***************************************************************************)
(* Lending in KernelIpc, for every number of processes, slots and          *)
(* endpoints and every boot scenario, where programs lend only what no     *)
(* system call can mint again: every loan has its own home slot held open, *)
(* and KernelIpc implements Loans.                                         *)
(***************************************************************************)
EXTENDS KernelSafetyProofs, KernelLoans

----------------------------------------------------------------------------
(* The loans of a state, as operators of the tables.                       *)

\* Slot s of p's table has the capability for x.
ObjectAt(t, x, p, s) ==
  At(t, p, s) # None /\ At(t, p, s).kind = x[1] /\ At(t, p, s).id = x[2]

\* Who holds x and who owns it.
HolderIn(t, x) ==
  IF \E p \in Procs : \E s \in Slots : ObjectAt(t, x, p, s)
  THEN CHOOSE p \in Procs : \E s \in Slots : ObjectAt(t, x, p, s)
  ELSE None

OwnerBy(cap, p) == IF cap.origin = None THEN p ELSE cap.origin.lender

OwnerIn(t, x) ==
  IF HolderIn(t, x) = None THEN None
  ELSE OwnerBy(At(t, HolderIn(t, x),
                  CHOOSE s \in Slots : ObjectAt(t, x, HolderIn(t, x), s)),
               HolderIn(t, x))

\* The loans of the tables t and u are the same, or differ by a step of Loans.
SameLoan(t, u, x) == HolderIn(u, x) = HolderIn(t, x) /\ OwnerIn(u, x) = OwnerIn(t, x)

SameLoans(t, u) == \A x \in Objects : SameLoan(t, u, x)

Passes(t, u, x, p) ==
  /\ HolderIn(t, x) # None /\ p # HolderIn(t, x)
  /\ HolderIn(u, x) = p /\ OwnerIn(u, x) = OwnerIn(t, x)
  /\ \A y \in Objects \ {x} : SameLoan(t, u, y)

Forfeits(t, u, x) ==
  /\ HolderIn(t, x) = OwnerIn(t, x)
  /\ HolderIn(u, x) = None /\ OwnerIn(u, x) = None
  /\ \A y \in Objects \ {x} : SameLoan(t, u, y)

Dies(t, u, p) == \A x \in Objects :
  /\ HolderIn(t, x) = p => OwnerIn(t, x) = p
  /\ HolderIn(u, x) = IF HolderIn(t, x) = p THEN None ELSE HolderIn(t, x)
  /\ OwnerIn(u, x) = IF OwnerIn(t, x) # p THEN OwnerIn(t, x)
                     ELSE IF HolderIn(t, x) = p THEN None ELSE HolderIn(t, x)

LoanStep(t, u) ==
  \/ SameLoans(t, u)
  \/ \E x \in Objects : (\E p \in Procs : Passes(t, u, x, p)) \/ Forfeits(t, u, x)
  \/ \E p \in Procs : Dies(t, u, p)

----------------------------------------------------------------------------
(* The invariant.                                                          *)

\* Only what cannot be minted again is on loan, its home is held open, and no
\* other loan has that home.
HomesOpen(t) == \A p \in Procs, s \in Slots :
  At(t, p, s) # None /\ At(t, p, s).origin # None =>
    /\ At(t, p, s).kind \in ReclaimableKinds
    /\ At(t, p, s).origin.home \in t[At(t, p, s).origin.lender].reserved
    /\ \A q \in Procs, r \in Slots :
         At(t, q, r) # None /\ At(t, q, r).origin = At(t, p, s).origin => q = p /\ r = s

\* A queued sender offers nothing, an empty slot, or what cannot be minted again.
Offers(pend, t, ep) == \A e \in Endpoints, q \in Procs :
  InQueue(ep, e, q) /\ ep[e].are_senders /\ pend[q].cap # None =>
    \/ At(t, q, pend[q].cap) = None
    \/ At(t, q, pend[q].cap).kind \in ReclaimableKinds

\* The fifth inductive invariant.
Inv5 ==
  /\ Inv3
  /\ LendKinds \subseteq ReclaimableKinds
  /\ HomesOpen(caps)
  /\ Offers(pending, caps, eps)

\* Outside X nothing appears but what cannot be minted again.
Tame(t, u, X) == \A q \in Procs \ X, s \in Slots :
  At(u, q, s) # None =>
    \/ At(u, q, s).kind \in ReclaimableKinds
    \/ At(t, q, s) # None /\ At(t, q, s).kind = At(u, q, s).kind

----------------------------------------------------------------------------
(* Where an object is.                                                     *)

\* Loans are of kinds that have one holder.
LEMMA ObjectsUnique ==
  ASSUME NEW x \in Objects
  PROVE  x[1] \in ReclaimableKinds /\ x[1] \in UniqueKinds
<1>1. PICK p \in DOMAIN BootGrants : \E i \in 1 .. Len(BootGrants[p]) :
        /\ x = <<BootGrants[p][i].kind, BootGrants[p][i].id>>
        /\ BootGrants[p][i].kind \in ReclaimableKinds
  BY DEF Objects
<1> QED BY <1>1 DEF UniqueKinds

\* An object that is in a table.
LEMMA FoundAt ==
  ASSUME NEW t, OnlyOne(t), NEW x \in Objects, NEW p \in Procs, NEW s \in Slots,
         ObjectAt(t, x, p, s)
  PROVE  /\ HolderIn(t, x) = p
         /\ OwnerIn(t, x) = OwnerBy(At(t, p, s), p)
<1>1. \A q \in Procs, r \in Slots : ObjectAt(t, x, q, r) => q = p /\ r = s
  BY ObjectsUnique DEF OnlyOne, ObjectAt
<1>2. HolderIn(t, x) = p
  BY <1>1 DEF HolderIn
<1>3. (CHOOSE r \in Slots : ObjectAt(t, x, p, r)) = s
  BY <1>1
<1> QED BY <1>2, <1>3, NoneApart DEF OwnerIn

\* An object that is in none.
LEMMA NotFound ==
  ASSUME NEW t, NEW x, \A p \in Procs, s \in Slots : ~ObjectAt(t, x, p, s)
  PROVE  HolderIn(t, x) = None /\ OwnerIn(t, x) = None
  BY DEF HolderIn, OwnerIn

\* An object that stays where it is, with the same lender.
LEMMA StaysPut ==
  ASSUME NEW t, NEW u, OnlyOne(t), OnlyOne(u), NEW x \in Objects,
         \A p \in Procs, s \in Slots : ObjectAt(u, x, p, s) <=> ObjectAt(t, x, p, s),
         \A p \in Procs, s \in Slots : ObjectAt(t, x, p, s) =>
           At(u, p, s).origin = At(t, p, s).origin
  PROVE  SameLoan(t, u, x)
<1>1. CASE \E p \in Procs, s \in Slots : ObjectAt(t, x, p, s)
  <2>1. PICK p \in Procs, s \in Slots : ObjectAt(t, x, p, s)
    BY <1>1
  <2>2. HolderIn(t, x) = p /\ OwnerIn(t, x) = OwnerBy(At(t, p, s), p)
    BY <2>1, FoundAt
  <2>3. HolderIn(u, x) = p /\ OwnerIn(u, x) = OwnerBy(At(u, p, s), p)
    BY <2>1, FoundAt
  <2>4. OwnerBy(At(u, p, s), p) = OwnerBy(At(t, p, s), p)
    BY <2>1 DEF OwnerBy
  <2> QED BY <2>2, <2>3, <2>4 DEF SameLoan
<1>2. CASE \A p \in Procs, s \in Slots : ~ObjectAt(t, x, p, s)
  BY <1>2, NotFound DEF SameLoan
<1> QED BY <1>1, <1>2

----------------------------------------------------------------------------
(* What each shape does to the loans.                                      *)

\* A capability that cannot be minted again moves.
LEMMA MoveLoans ==
  ASSUME NEW t \in AllTables, NEW u, NEW p \in Procs, NEW c \in Slots,
         NEW q \in Procs, NEW l \in Slots, MovesOne(t, u, p, c, q, l), OnlyOne(t)
  PROVE  LoanStep(t, u)
<1> DEFINE x == <<At(t, p, c).kind, At(t, p, c).id>>
<1>1. /\ OnlyOne(u) /\ At(t, p, c) # None /\ At(u, q, l) # None
      /\ At(u, q, l).kind = At(t, p, c).kind /\ At(u, q, l).id = At(t, p, c).id
  BY MovesNames, MovesSame
<1>2. /\ At(t, q, l) = None \/ (q = p /\ l = c)
      /\ ~(q = p /\ l = c) => At(u, p, c) = None
      /\ \A r \in Procs, s \in Slots :
           ~(r = p /\ s = c) /\ ~(r = q /\ s = l) => At(u, r, s) = At(t, r, s)
      /\ q = p => At(u, q, l) = At(t, p, c)
  BY DEF MovesOne, SameBeyond
<1>3. ASSUME NEW y \in Objects, y # x PROVE SameLoan(t, u, y)
  <2>1. y[1] # At(t, p, c).kind \/ y[2] # At(t, p, c).id
    <3>1. y = <<y[1], y[2]>>
      BY DEF Objects
    <3> QED BY <1>3, <3>1
  <2>2. \A r \in Procs, s \in Slots :
          /\ ObjectAt(u, y, r, s) <=> ObjectAt(t, y, r, s)
          /\ ObjectAt(t, y, r, s) => At(u, r, s).origin = At(t, r, s).origin
    BY <1>1, <1>2, <2>1 DEF ObjectAt
  <2> QED BY <1>1, <2>2, StaysPut
<1>4. ObjectAt(t, x, p, c) /\ ObjectAt(u, x, q, l)
  BY <1>1 DEF ObjectAt
<1> HIDE DEF x
<1>5. CASE x \in Objects
  <2>1. HolderIn(t, x) = p /\ OwnerIn(t, x) = OwnerBy(At(t, p, c), p)
    BY <1>4, <1>5, FoundAt
  <2>2. HolderIn(u, x) = q /\ OwnerIn(u, x) = OwnerBy(At(u, q, l), q)
    BY <1>1, <1>4, <1>5, FoundAt
  <2>3. CASE q = p
    <3>1. SameLoan(t, u, x)
      BY <1>2, <2>1, <2>2, <2>3 DEF SameLoan
    <3> QED BY <1>3, <3>1 DEF SameLoans, LoanStep
  <2>4. CASE q # p
    <3>1. At(u, q, l).origin = IF At(t, p, c).origin = None THEN [lender |-> p, home |-> c]
            ELSE IF At(t, p, c).origin.lender = q THEN None ELSE At(t, p, c).origin
      BY <2>4, MovesLends
    <3>2. [lender |-> p, home |-> c] # None
      BY NoneAssumption DEF Origins
    <3>3. OwnerBy(At(u, q, l), q) = OwnerBy(At(t, p, c), p)
      BY <3>1, <3>2 DEF OwnerBy
    <3>4. Passes(t, u, x, q)
      BY <1>3, <2>1, <2>2, <2>4, <3>3, NoneApart DEF Passes
    <3> QED BY <1>5, <3>4 DEF LoanStep
  <2> QED BY <2>3, <2>4
<1>6. CASE x \notin Objects
  BY <1>3, <1>6 DEF SameLoans, LoanStep
<1> QED BY <1>5, <1>6

\* A capability that a system call can mint appears.
LEMMA AddLoans ==
  ASSUME NEW t \in AllTables, NEW u, NEW q \in Procs, NEW l \in Slots,
         NEW cap \in Caps, AddsOne(t, u, q, l, cap), cap.origin = None,
         cap.kind \notin ReclaimableKinds, OnlyOne(t), OnlyOne(u)
  PROVE  SameLoans(t, u)
<1> SUFFICES ASSUME NEW x \in Objects PROVE SameLoan(t, u, x)
  BY DEF SameLoans
<1>1. /\ At(t, q, l) = None /\ At(u, q, l) = cap
      /\ \A r \in Procs, s \in Slots : ~(r = q /\ s = l) => At(u, r, s) = At(t, r, s)
  BY DEF AddsOne, SameBeyond
<1>2. \A r \in Procs, s \in Slots :
        /\ ObjectAt(u, x, r, s) <=> ObjectAt(t, x, r, s)
        /\ ObjectAt(t, x, r, s) => At(u, r, s).origin = At(t, r, s).origin
  BY <1>1, ObjectsUnique DEF ObjectAt
<1> QED BY <1>2, StaysPut

\* A capability disappears that is nobody's loan.
LEMMA DropLoans ==
  ASSUME NEW t \in AllTables, NEW u, NEW p \in Procs, NEW c \in Slots,
         DropsOne(t, u, p, c), OnlyOne(t),
         At(t, p, c).kind \in ReclaimableKinds => At(t, p, c).origin = None
  PROVE  LoanStep(t, u)
<1> DEFINE x == <<At(t, p, c).kind, At(t, p, c).id>>
<1>1. /\ OnlyOne(u) /\ At(t, p, c) # None /\ At(u, p, c) = None
      /\ \A r \in Procs, s \in Slots : ~(r = p /\ s = c) => At(u, r, s) = At(t, r, s)
  BY DropsNames DEF DropsOne, SameBeyond
<1>2. ASSUME NEW y \in Objects, y # x PROVE SameLoan(t, u, y)
  <2>1. y[1] # At(t, p, c).kind \/ y[2] # At(t, p, c).id
    <3>1. y = <<y[1], y[2]>>
      BY DEF Objects
    <3> QED BY <1>2, <3>1
  <2>2. \A r \in Procs, s \in Slots :
          /\ ObjectAt(u, y, r, s) <=> ObjectAt(t, y, r, s)
          /\ ObjectAt(t, y, r, s) => At(u, r, s).origin = At(t, r, s).origin
    BY <1>1, <2>1 DEF ObjectAt
  <2> QED BY <1>1, <2>2, StaysPut
<1>3. ObjectAt(t, x, p, c) /\ x[1] = At(t, p, c).kind
  BY <1>1 DEF ObjectAt
<1> HIDE DEF x
<1>4. CASE x \in Objects
  <2>1. At(t, p, c).origin = None
    BY <1>3, <1>4, ObjectsUnique
  <2>2. HolderIn(t, x) = p /\ OwnerIn(t, x) = p
    BY <1>3, <1>4, <2>1, FoundAt DEF OwnerBy
  <2>3. \A r \in Procs, s \in Slots : ~ObjectAt(u, x, r, s)
    <3>1. \A r \in Procs, s \in Slots : ObjectAt(t, x, r, s) => r = p /\ s = c
      BY <1>3, <1>4, ObjectsUnique DEF OnlyOne, ObjectAt
    <3> QED BY <1>1, <3>1 DEF ObjectAt
  <2>4. HolderIn(u, x) = None /\ OwnerIn(u, x) = None
    BY <2>3, NotFound
  <2>5. Forfeits(t, u, x)
    BY <1>2, <2>2, <2>4 DEF Forfeits
  <2> QED BY <1>4, <2>5 DEF LoanStep
<1>5. CASE x \notin Objects
  BY <1>2, <1>5 DEF SameLoans, LoanStep
<1> QED BY <1>4, <1>5

\* A process dies with nothing borrowed.
LEMMA DeathLoans ==
  ASSUME NEW t \in AllTables, NEW u, NEW p \in Procs, Forgets(t, u, p), OnlyOne(t),
         NEW st, LendersIn(t, st),
         \A s \in Slots : At(t, p, s) # None /\ At(t, p, s).kind \in ReclaimableKinds =>
           At(t, p, s).origin = None
  PROVE  LoanStep(t, u)
<1>1. OnlyOne(u)
  BY ForgetsNames
<1> SUFFICES ASSUME NEW x \in Objects
             PROVE  /\ HolderIn(t, x) = p => OwnerIn(t, x) = p
                    /\ HolderIn(u, x) = IF HolderIn(t, x) = p THEN None ELSE HolderIn(t, x)
                    /\ OwnerIn(u, x) = IF OwnerIn(t, x) # p THEN OwnerIn(t, x)
                                       ELSE IF HolderIn(t, x) = p THEN None ELSE HolderIn(t, x)
  BY DEF Dies, LoanStep
<1>2. ASSUME NEW r \in Procs, NEW s \in Slots, ObjectAt(u, x, r, s)
      PROVE  r # p /\ ObjectAt(t, x, r, s)
  BY <1>2, ForgetsSame DEF ObjectAt
<1>3. CASE \A r \in Procs, s \in Slots : ~ObjectAt(t, x, r, s)
  <2>1. \A r \in Procs, s \in Slots : ~ObjectAt(u, x, r, s)
    BY <1>2, <1>3
  <2>2. HolderIn(t, x) = None /\ OwnerIn(t, x) = None
    BY <1>3, NotFound
  <2>3. HolderIn(u, x) = None /\ OwnerIn(u, x) = None
    BY <2>1, NotFound
  <2> QED BY <2>2, <2>3, NoneApart
<1>4. ASSUME NEW r \in Procs, NEW s \in Slots, ObjectAt(t, x, r, s)
      PROVE  /\ HolderIn(t, x) = p => OwnerIn(t, x) = p
             /\ HolderIn(u, x) = IF HolderIn(t, x) = p THEN None ELSE HolderIn(t, x)
             /\ OwnerIn(u, x) = IF OwnerIn(t, x) # p THEN OwnerIn(t, x)
                                ELSE IF HolderIn(t, x) = p THEN None ELSE HolderIn(t, x)
  <2>1. HolderIn(t, x) = r /\ OwnerIn(t, x) = OwnerBy(At(t, r, s), r)
    BY <1>4, FoundAt
  <2>2. CASE r = p
    <3>1. At(t, p, s).origin = None
      BY <1>4, <2>2, ObjectsUnique DEF ObjectAt
    <3>2. OwnerIn(t, x) = p
      BY <2>1, <2>2, <3>1 DEF OwnerBy
    <3>3. \A z \in Procs, w \in Slots : ~ObjectAt(u, x, z, w)
      <4>1. \A z \in Procs, w \in Slots : ObjectAt(t, x, z, w) => z = p
        BY <1>4, <2>2, ObjectsUnique DEF OnlyOne, ObjectAt
      <4> QED BY <1>2, <4>1
    <3>4. HolderIn(u, x) = None /\ OwnerIn(u, x) = None
      BY <3>3, NotFound
    <3> QED BY <2>1, <2>2, <3>2, <3>4
  <2>3. CASE r # p
    <3>1. At(t, r, s) # None
      BY <1>4 DEF ObjectAt
    <3>2. /\ At(u, r, s) # None /\ At(u, r, s).kind = At(t, r, s).kind
          /\ At(u, r, s).id = At(t, r, s).id
      BY <2>3, <3>1, ForgetsSame
    <3>3. ObjectAt(u, x, r, s)
      BY <1>4, <3>2 DEF ObjectAt
    <3>4. HolderIn(u, x) = r /\ OwnerIn(u, x) = OwnerBy(At(u, r, s), r)
      BY <1>1, <3>3, FoundAt
    <3>5. At(u, r, s).origin = IF At(t, r, s).origin # None /\ At(t, r, s).origin.lender = p
                               THEN None ELSE At(t, r, s).origin
      <4>1. At(t, r, s) \in CapRecords
        BY <3>1, AtType DEF Caps
      <4>2. At(u, r, s) = IF At(t, r, s).origin # None /\ At(t, r, s).origin.lender = p
                          THEN [At(t, r, s) EXCEPT !.origin = None] ELSE At(t, r, s)
        BY <2>3, <3>1 DEF Forgets
      <4> QED BY <4>1, <4>2 DEF CapRecords
    <3>6. OwnerBy(At(u, r, s), r) = IF OwnerBy(At(t, r, s), r) = p THEN r
                                    ELSE OwnerBy(At(t, r, s), r)
      BY <2>3, <3>5 DEF OwnerBy
    <3> QED BY <2>1, <2>3, <3>4, <3>6
  <2> QED BY <2>2, <2>3
<1> QED BY <1>3, <1>4

----------------------------------------------------------------------------
(* What each shape does to the homes.                                      *)

\* A move of what cannot be minted again, in a table that lends nothing to
\* its own process.
LEMMA MoveHomes ==
  ASSUME NEW t \in AllTables, NEW u, NEW p \in Procs, NEW c \in Slots,
         NEW q \in Procs, NEW l \in Slots, MovesOne(t, u, p, c, q, l),
         NEW st, LendersIn(t, st), HomesOpen(t),
         At(t, p, c).kind \in ReclaimableKinds
  PROVE  HomesOpen(u)
<1>1. /\ At(t, p, c) # None /\ At(u, q, l) # None
      /\ At(u, q, l).kind = At(t, p, c).kind
      /\ At(u, q, l).origin = IF q = p THEN At(t, p, c).origin
           ELSE IF At(t, p, c).origin = None THEN [lender |-> p, home |-> c]
           ELSE IF At(t, p, c).origin.lender = q THEN None ELSE At(t, p, c).origin
  BY MovesSame, MovesLends
<1>2. /\ At(t, q, l) = None \/ (q = p /\ l = c)
      /\ ~(q = p /\ l = c) => At(u, p, c) = None
      /\ \A r \in Procs, s \in Slots :
           ~(r = p /\ s = c) /\ ~(r = q /\ s = l) => At(u, r, s) = At(t, r, s)
      /\ \A r \in Procs : u[r].reserved =
           (t[r].reserved \cup HeldFor(t, p, c, r)) \ (IF r = q THEN {l} ELSE {})
      /\ l \in t[q].reserved => /\ At(t, p, c).origin # None
                                /\ At(t, p, c).origin.lender = q
                                /\ At(t, p, c).origin.home = l
  BY DEF MovesOne, SameBeyond
<1>3. ASSUME NEW r \in Procs, NEW s \in Slots, At(u, r, s) # None, ~(r = q /\ s = l)
      PROVE  ~(r = p /\ s = c) /\ At(u, r, s) = At(t, r, s)
  BY <1>2, <1>3
<1>4. ASSUME NEW r \in Procs, NEW s \in t[r].reserved PROVE At(t, r, s) = None
  BY <1>4 DEF AllTables, GoodTables, At
<1>5. ASSUME NEW r \in Procs, NEW s \in Slots, At(t, r, s) # None, At(t, r, s).origin # None
      PROVE  At(t, r, s).origin.lender \in Procs /\ At(t, r, s).origin.home \in Slots
  BY <1>5, AtType
<1>6. ASSUME NEW r \in Procs, NEW s \in Slots, ~(r = p /\ s = c),
             At(t, r, s) # None, At(t, r, s).origin # None
      PROVE  At(t, r, s).origin.home \in u[At(t, r, s).origin.lender].reserved
  <2>1. At(t, r, s).origin.home \in t[At(t, r, s).origin.lender].reserved
    BY <1>6 DEF HomesOpen
  <2>2. ~(At(t, r, s).origin.lender = q /\ At(t, r, s).origin.home = l)
    <3> SUFFICES ASSUME At(t, r, s).origin.lender = q, At(t, r, s).origin.home = l
                 PROVE  FALSE
      OBVIOUS
    <3>1. /\ At(t, p, c).origin # None /\ At(t, p, c).origin.lender = q
          /\ At(t, p, c).origin.home = l
      BY <1>2, <2>1
    <3>2. At(t, r, s).origin \in Origins /\ At(t, p, c).origin \in Origins
      BY <1>1, <1>6, <3>1, AtType DEF Caps, CapRecords
    <3>3. At(t, r, s).origin = At(t, p, c).origin
      BY <3>1, <3>2 DEF Origins
    <3> QED BY <1>1, <1>6, <3>3 DEF HomesOpen
  <2> QED BY <1>2, <1>5, <1>6, <2>1, <2>2
<1>7. ASSUME At(u, q, l).origin # None
      PROVE  /\ At(u, q, l).origin.home \in u[At(u, q, l).origin.lender].reserved
             /\ \A r \in Procs, s \in Slots :
                  At(u, r, s) # None /\ At(u, r, s).origin = At(u, q, l).origin => r = q /\ s = l
  <2>1. CASE At(t, p, c).origin = None
    <3>1. q # p /\ At(u, q, l).origin = [lender |-> p, home |-> c]
      BY <1>1, <1>7, <2>1
    <3>2. At(u, q, l).origin.home = c /\ At(u, q, l).origin.lender = p
      BY <3>1
    <3>3. HeldFor(t, p, c, p) = {c}
      BY <2>1 DEF HeldFor, LendReservesHome
    <3>4. c \in u[p].reserved
      BY <1>2, <3>1, <3>3
    <3>5. ASSUME NEW r \in Procs, NEW s \in Slots, At(t, r, s) # None
          PROVE  At(t, r, s).origin # At(u, q, l).origin
      <4> SUFFICES ASSUME At(t, r, s).origin = At(u, q, l).origin PROVE FALSE
        OBVIOUS
      <4>1. c \in t[p].reserved
        BY <1>7, <3>2, <3>5 DEF HomesOpen
      <4> QED BY <1>1, <1>4, <4>1
    <3> QED BY <1>3, <3>2, <3>4, <3>5
  <2>2. CASE At(t, p, c).origin # None
    <3>1. At(u, q, l).origin = At(t, p, c).origin
      BY <1>1, <1>7, <2>2
    <3>2. At(t, p, c).origin.lender # q
      BY <1>1, <1>7, <2>2 DEF LendersIn
    <3>3. At(t, p, c).origin.home \in t[At(t, p, c).origin.lender].reserved
      BY <1>1, <2>2 DEF HomesOpen
    <3>4. At(t, p, c).origin.home \in u[At(t, p, c).origin.lender].reserved
      BY <1>1, <1>2, <1>5, <2>2, <3>2, <3>3
    <3>5. ASSUME NEW r \in Procs, NEW s \in Slots, At(u, r, s) # None,
                 At(u, r, s).origin = At(u, q, l).origin, ~(r = q /\ s = l)
          PROVE  FALSE
      <4>1. ~(r = p /\ s = c) /\ At(t, r, s) # None /\ At(t, r, s).origin = At(t, p, c).origin
        BY <1>3, <3>1, <3>5
      <4> QED BY <1>1, <2>2, <4>1 DEF HomesOpen
    <3> QED BY <3>1, <3>4, <3>5
  <2> QED BY <2>1, <2>2
<1> SUFFICES ASSUME NEW r \in Procs, NEW s \in Slots, At(u, r, s) # None, At(u, r, s).origin # None
             PROVE  /\ At(u, r, s).kind \in ReclaimableKinds
                    /\ At(u, r, s).origin.home \in u[At(u, r, s).origin.lender].reserved
                    /\ \A z \in Procs, w \in Slots :
                         At(u, z, w) # None /\ At(u, z, w).origin = At(u, r, s).origin
                           => z = r /\ w = s
  BY DEF HomesOpen
<1>8. CASE r = q /\ s = l
  BY <1>1, <1>7, <1>8
<1>9. CASE ~(r = q /\ s = l)
  <2>1. ~(r = p /\ s = c) /\ At(u, r, s) = At(t, r, s)
    BY <1>3, <1>9
  <2>2. At(u, r, s).kind \in ReclaimableKinds
    BY <2>1 DEF HomesOpen
  <2>3. At(u, r, s).origin.home \in u[At(u, r, s).origin.lender].reserved
    BY <1>6, <2>1
  <2>4. ASSUME NEW z \in Procs, NEW w \in Slots, At(u, z, w) # None,
               At(u, z, w).origin = At(u, r, s).origin
        PROVE  z = r /\ w = s
    <3>1. CASE z = q /\ w = l
      BY <1>7, <1>9, <2>4, <3>1
    <3>2. CASE ~(z = q /\ w = l)
      <4>1. At(u, z, w) = At(t, z, w)
        BY <1>3, <2>4, <3>2
      <4> QED BY <2>1, <2>4, <4>1 DEF HomesOpen
    <3> QED BY <3>1, <3>2
  <2> QED BY <2>2, <2>3, <2>4
<1> QED BY <1>8, <1>9

\* A mint.
LEMMA AddHomes ==
  ASSUME NEW t \in AllTables, NEW u, NEW q \in Procs, NEW l \in Slots,
         NEW cap, AddsOne(t, u, q, l, cap), cap.origin = None, HomesOpen(t)
  PROVE  HomesOpen(u)
<1>1. /\ At(u, q, l) = cap
      /\ \A r \in Procs, s \in Slots : ~(r = q /\ s = l) => At(u, r, s) = At(t, r, s)
      /\ \A r \in Procs : u[r].reserved = t[r].reserved
  BY DEF AddsOne, SameBeyond
<1>2. ASSUME NEW r \in Procs, NEW s \in Slots, At(u, r, s) # None, At(u, r, s).origin # None
      PROVE  /\ At(u, r, s) = At(t, r, s)
             /\ u[At(t, r, s).origin.lender].reserved = t[At(t, r, s).origin.lender].reserved
  <2>1. At(u, r, s) = At(t, r, s)
    BY <1>1, <1>2
  <2> QED BY <1>1, <1>2, <2>1, AtType
<1> QED BY <1>2 DEF HomesOpen

\* A capability goes for good.
LEMMA DropHomes ==
  ASSUME NEW t \in AllTables, NEW u, NEW p \in Procs, NEW c \in Slots,
         DropsOne(t, u, p, c), HomesOpen(t)
  PROVE  HomesOpen(u)
<1>1. /\ At(u, p, c) = None
      /\ \A r \in Procs, s \in Slots : ~(r = p /\ s = c) => At(u, r, s) = At(t, r, s)
      /\ \A r \in Procs : t[r].reserved \subseteq u[r].reserved
  BY DEF DropsOne, SameBeyond
<1>2. ASSUME NEW r \in Procs, NEW s \in Slots, At(u, r, s) # None
      PROVE  At(u, r, s) = At(t, r, s)
  BY <1>1, <1>2
<1>3. ASSUME NEW r \in Procs, NEW s \in Slots, At(t, r, s) # None, At(t, r, s).origin # None
      PROVE  t[At(t, r, s).origin.lender].reserved \subseteq u[At(t, r, s).origin.lender].reserved
  BY <1>1, <1>3, AtType
<1> QED BY <1>2, <1>3 DEF HomesOpen

\* A death.
LEMMA DeathHomes ==
  ASSUME NEW t \in AllTables, NEW u, NEW p \in Procs, Forgets(t, u, p), HomesOpen(t)
  PROVE  HomesOpen(u)
<1>1. ASSUME NEW r \in Procs, NEW s \in Slots, At(u, r, s) # None
      PROVE  At(t, r, s) # None /\ At(u, r, s).kind = At(t, r, s).kind
  BY <1>1, ForgetsSame
<1>2. ASSUME NEW r \in Procs, NEW s \in Slots, At(u, r, s) # None, At(u, r, s).origin # None
      PROVE  At(u, r, s).origin = At(t, r, s).origin /\ At(t, r, s).origin.lender # p
  BY <1>2, ForgetsSame
<1>3. \A q \in Procs \ {p} : u[q].reserved = t[q].reserved
  BY DEF Forgets
<1>4. ASSUME NEW r \in Procs, NEW s \in Slots, At(u, r, s) # None, At(u, r, s).origin # None
      PROVE  u[At(u, r, s).origin.lender].reserved = t[At(u, r, s).origin.lender].reserved
  <2>1. At(u, r, s).origin = At(t, r, s).origin /\ At(t, r, s).origin.lender # p
    BY <1>2, <1>4
  <2>2. At(t, r, s).origin.lender \in Procs
    BY <1>1, <1>4, <2>1, AtType
  <2> QED BY <1>3, <2>1, <2>2
<1> SUFFICES ASSUME NEW r \in Procs, NEW s \in Slots, At(u, r, s) # None, At(u, r, s).origin # None
             PROVE  /\ At(u, r, s).kind \in ReclaimableKinds
                    /\ At(u, r, s).origin.home \in u[At(u, r, s).origin.lender].reserved
                    /\ \A z \in Procs, w \in Slots :
                         At(u, z, w) # None /\ At(u, z, w).origin = At(u, r, s).origin
                           => z = r /\ w = s
  BY DEF HomesOpen
<1>5. /\ At(t, r, s) # None /\ At(u, r, s).kind = At(t, r, s).kind
      /\ At(u, r, s).origin = At(t, r, s).origin
  BY <1>1, <1>2
<1>6. /\ At(u, r, s).kind \in ReclaimableKinds
      /\ At(u, r, s).origin.home \in u[At(u, r, s).origin.lender].reserved
  BY <1>4, <1>5 DEF HomesOpen
<1>7. ASSUME NEW z \in Procs, NEW w \in Slots, At(u, z, w) # None,
             At(u, z, w).origin = At(u, r, s).origin
      PROVE  z = r /\ w = s
  <2>1. At(t, z, w) # None /\ At(t, z, w).origin = At(t, r, s).origin
    BY <1>1, <1>2, <1>5, <1>7
  <2> QED BY <1>5, <2>1 DEF HomesOpen
<1> QED BY <1>6, <1>7

----------------------------------------------------------------------------
(* The pieces of a state change.                                           *)

\* The loans follow, the homes stay open, and only X gains what can be minted.
Lends(t, u, X) == LoanStep(t, u) /\ HomesOpen(u) /\ Tame(t, u, X)

\* Nothing happens to the tables.
LEMMA IdleLends ==
  ASSUME NEW t, HomesOpen(t), NEW X
  PROVE  Lends(t, t, X)
  BY DEF Lends, LoanStep, SameLoans, SameLoan, Tame

\* A move.
LEMMA MoveLends ==
  ASSUME NEW t \in AllTables, NEW u, NEW p \in Procs, NEW c \in Slots,
         NEW q \in Procs, NEW l \in Slots, MovesOne(t, u, p, c, q, l),
         NEW st, NEW fr, TablesSafe(t, st, fr), HomesOpen(t),
         At(t, p, c).kind \in ReclaimableKinds, NEW X
  PROVE  Lends(t, u, X)
<1>1. LoanStep(t, u)
  BY MoveLoans DEF TablesSafe
<1>2. HomesOpen(u)
  BY MoveHomes DEF TablesSafe
<1>3. ASSUME NEW r \in Procs, NEW s \in Slots, At(u, r, s) # None
      PROVE  \/ At(u, r, s).kind \in ReclaimableKinds
             \/ At(u, r, s) = At(t, r, s)
  BY <1>3, MovesSame DEF MovesOne, SameBeyond
<1>4. Tame(t, u, X)
  BY <1>3 DEF Tame
<1> QED BY <1>1, <1>2, <1>4 DEF Lends

\* A mint.
LEMMA AddLends ==
  ASSUME NEW t \in AllTables, NEW u, NEW q \in Procs, NEW l \in Slots,
         NEW cap \in Caps, AddsOne(t, u, q, l, cap), cap.origin = None,
         cap.kind \notin ReclaimableKinds, OnlyOne(t), OnlyOne(u), HomesOpen(t)
  PROVE  Lends(t, u, {q}) /\ SameLoans(t, u)
<1>1. SameLoans(t, u)
  BY AddLoans
<1>2. HomesOpen(u)
  BY AddHomes
<1>3. Tame(t, u, {q})
  BY DEF Tame, AddsOne, SameBeyond
<1> QED BY <1>1, <1>2, <1>3 DEF Lends, LoanStep

\* A capability goes for good.
LEMMA DropLends ==
  ASSUME NEW t \in AllTables, NEW u, NEW p \in Procs, NEW c \in Slots,
         DropsOne(t, u, p, c), OnlyOne(t), HomesOpen(t),
         At(t, p, c).kind \in ReclaimableKinds => At(t, p, c).origin = None, NEW X
  PROVE  Lends(t, u, X)
<1>1. LoanStep(t, u)
  BY DropLoans
<1>2. HomesOpen(u)
  BY DropHomes
<1>3. Tame(t, u, X)
  <2>1. ASSUME NEW r \in Procs, NEW s \in Slots, At(u, r, s) # None
        PROVE  At(u, r, s) = At(t, r, s)
    BY <2>1 DEF DropsOne, SameBeyond
  <2> QED BY <2>1 DEF Tame
<1> QED BY <1>1, <1>2, <1>3 DEF Lends

\* The optional transfer of a send.
LEMMA DeliverLends ==
  ASSUME caps \in AllTables, NEW from \in Procs, NEW to \in Procs, from # to,
         NEW c \in Slots \cup {None}, Deliver(from, c, to),
         NEW st, NEW fr, TablesSafe(caps, st, fr), HomesOpen(caps),
         Moves(from, c) => CapAt(from, c).kind \in ReclaimableKinds, NEW X
  PROVE  Lends(caps, caps', X)
<1>1. CASE ~Moves(from, c)
  BY <1>1, IdleLends DEF Deliver
<1>2. CASE Moves(from, c)
  <2>1. /\ c \in Slots /\ CapAt(from, c) # None /\ Transfer(from, c, to)
        /\ At(caps, from, c).kind \in ReclaimableKinds
    BY <1>2 DEF Moves, Deliver, At, CapAt
  <2>2. ASSUME NEW q \in {from, to}, NEW l \in Slots, MovesOne(caps, caps', from, c, q, l)
        PROVE  Lends(caps, caps', X)
    BY <2>1, <2>2, MoveLends
  <2>3. ASSUME DropsOne(caps, caps', from, c), LendReservesHome(CapAt(from, c))
        PROVE  Lends(caps, caps', X)
    <3>1. At(caps, from, c).origin = None
      BY <2>3 DEF LendReservesHome, At, CapAt
    <3> QED BY <2>1, <2>3, <3>1, DropLends DEF TablesSafe
  <2> QED BY <2>1, <2>2, <2>3, TransferCells
<1> QED BY <1>1, <1>2

\* A minted reply capability.
LEMMA MintLends ==
  ASSUME caps \in AllTables, NEW server \in Procs, NEW caller \in Procs,
         MintReply(server, caller), OnlyOne(caps), OnlyOne(caps'), HomesOpen(caps)
  PROVE  Lends(caps, caps', {server})
<1> DEFINE cap == Cap("Reply", caller, {})
           l   == InstallSlot(caps[server])
<1>1. caps' = [caps EXCEPT ![server] = Put(@, l, cap)]
  BY DEF MintReply
<1>2. cap \in Caps /\ cap.kind \notin ReclaimableKinds /\ cap.origin = None
  <2>1. caller \in Nat \cap Ids("Reply")
    BY SizeAssumption DEF Procs, Ids
  <2>2. cap \in Caps
    BY <2>1, CapType DEF Kinds
  <2> QED BY <2>2 DEF Cap, ReclaimableKinds
<1> HIDE DEF cap, l
<1>3. CASE l = None
  <2>1. caps' = caps
    BY <1>1, <1>3 DEF Put, AllTables
  <2> QED BY <2>1, IdleLends
<1>4. CASE l # None
  <2>1. l \in Slots /\ AddsOne(caps, caps', server, l, cap)
    BY <1>1, <1>4, InstallCells DEF l
  <2> QED BY <1>2, <2>1, AddLends
<1> QED BY <1>3, <1>4

\* A borrowed capability leaves for home, and arrives.
LEMMA SendHomeLends ==
  ASSUME caps \in AllTables, NEW p \in Procs, NEW s \in Slots, CapAt(p, s) # None,
         ReleaseAction(CapAt(p, s)) = "ReclaimTo", SendHome(p, s),
         NEW fr, TablesSafe(caps, state, fr), HomesOpen(caps), NEW X
  PROVE  Lends(caps, caps', X)
<1> DEFINE o == CapAt(p, s).origin
<1>1. /\ CapAt(p, s).kind \in ReclaimableKinds /\ o # None
      /\ At(caps, p, s) = CapAt(p, s)
  BY DEF ReleaseAction, At, CapAt
<1>2. /\ o.lender # p /\ o.lender \in Procs /\ o.home \in Slots
      /\ state[o.lender] # "Empty"
  BY <1>1, AtType DEF TablesSafe, LendersIn
<1>3. o.home \in caps[o.lender].reserved
  BY <1>1 DEF HomesOpen
<1>4. CanReclaimTo(caps[o.lender], o.home)
  BY <1>2, <1>3 DEF CanReclaimTo, AllTables, GoodTables
<1>5. HomeLanding(o) # None
  BY <1>2, <1>4, NoneApart DEF HomeLanding, ReclaimSlot
<1>6. PICK l \in Slots : MovesOne(caps, caps', p, s, o.lender, l)
  BY <1>1, <1>2, <1>5, SendHomeCells
<1> QED BY <1>1, <1>2, <1>6, MoveLends

\* Two steps, of which the second lends nothing.
LEMMA ThenIdle ==
  ASSUME NEW t, NEW u, NEW v, NEW X, NEW Y, NEW Z, Lends(t, u, X),
         SameLoans(u, v), Lends(u, v, Y), X \subseteq Z, Y \subseteq Z
  PROVE  Lends(t, v, Z)
<1>1. \A x \in Objects : HolderIn(v, x) = HolderIn(u, x) /\ OwnerIn(v, x) = OwnerIn(u, x)
  BY DEF SameLoans, SameLoan
<1>2. CASE SameLoans(t, u)
  BY <1>1, <1>2 DEF Lends, LoanStep, SameLoans, SameLoan, Tame
<1>3. ASSUME NEW x \in Objects, NEW p \in Procs, Passes(t, u, x, p)
      PROVE  LoanStep(t, v)
  <2>1. Passes(t, v, x, p)
    BY <1>1, <1>3 DEF Passes, SameLoan
  <2> QED BY <2>1 DEF LoanStep
<1>4. ASSUME NEW x \in Objects, Forfeits(t, u, x) PROVE LoanStep(t, v)
  <2>1. Forfeits(t, v, x)
    BY <1>1, <1>4 DEF Forfeits, SameLoan
  <2> QED BY <2>1 DEF LoanStep
<1>5. ASSUME NEW p \in Procs, Dies(t, u, p) PROVE LoanStep(t, v)
  <2>1. Dies(t, v, p)
    BY <1>1, <1>5 DEF Dies
  <2> QED BY <2>1 DEF LoanStep
<1>6. LoanStep(t, v)
  BY <1>2, <1>3, <1>4, <1>5 DEF LoanStep, Lends
<1>7. HomesOpen(v) /\ Tame(t, v, Z)
  BY DEF Lends, Tame
<1> QED BY <1>6, <1>7 DEF Lends

\* A spawn: the grant moves, the rest is minted.
LEMMA SpawnLends ==
  ASSUME NEW t \in AllTables, NEW u, NEW p \in Procs, NEW q \in Procs,
         NEW c \in Slots \cup {None}, NEW e \in Endpoints, NEW given, NEW handle,
         given # None => c \in Slots,
         c \in Slots /\ At(t, p, c) # None => At(t, p, c).kind \in ReclaimableKinds,
         SpawnsFrom(t, u, p, c, q, e, given, handle),
         NEW st, NEW fr, TablesSafe(t, st, fr), HomesOpen(t)
  PROVE  Lends(t, u, {p, q})
<1>1. PICK t1, t2, t3 \in AllTables :
        /\ IF given # None THEN MovesOne(t, t1, p, c, q, 2) ELSE t1 = t
        /\ AddsOne(t1, t2, q, 0, Budget)
        /\ AddsOne(t2, t3, q, 1, Result(e))
        /\ IF handle = None THEN u = t3
           ELSE handle \in Slots /\ AddsOne(t3, u, p, handle, Handle(e))
  BY DEF SpawnsFrom
<1>2. 0 \in Slots /\ 1 \in Slots /\ 2 \in Slots
  BY SizeAssumption DEF Slots
<1>3. /\ Budget \in Caps /\ Budget.kind = "CpuTime" /\ Budget.origin = None
      /\ Result(e) \in Caps /\ Result(e).kind = "Endpoint" /\ Result(e).origin = None
      /\ Handle(e) \in Caps /\ Handle(e).kind = "Endpoint" /\ Handle(e).origin = None
  <2>1. e \in Nat \cap Ids("Endpoint")
    BY SizeAssumption DEF Endpoints, Ids
  <2>2. CpuBudget \in Nat \cap Ids("CpuTime")
    BY KernelAssumption DEF Ids
  <2>3. Budget \in Caps /\ Result(e) \in Caps /\ Handle(e) \in Caps
    BY <2>1, <2>2, CapType DEF Budget, Result, Handle, Kinds, Rights
  <2> QED BY <2>3 DEF Budget, Result, Handle, Cap
<1>4. /\ {"CpuTime", "Endpoint"} \cap ReclaimableKinds = {}
      /\ {"CpuTime", "Endpoint"} \cap UniqueKinds = {}
  BY DEF ReclaimableKinds, UniqueKinds
<1>5. Lends(t, t1, {p, q}) /\ OnlyOne(t1)
  <2>1. CASE given # None
    <3>1. MovesOne(t, t1, p, c, q, 2) /\ c \in Slots
      BY <1>1, <2>1
    <3>2. At(t, p, c).kind \in ReclaimableKinds
      BY <3>1 DEF MovesOne
    <3> QED BY <1>2, <3>1, <3>2, MoveLends, MovesNames DEF TablesSafe
  <2>2. CASE given = None
    BY <1>1, <2>2, IdleLends DEF TablesSafe
  <2> QED BY <2>1, <2>2
<1>6. ASSUME NEW v \in AllTables, NEW w, NEW r \in {p, q}, NEW l \in Slots, NEW cap \in Caps,
             cap.kind \in {"CpuTime", "Endpoint"}, cap.origin = None,
             AddsOne(v, w, r, l, cap), Lends(t, v, {p, q}), OnlyOne(v)
      PROVE  Lends(t, w, {p, q}) /\ OnlyOne(w)
  <2>1. OnlyOne(w)
    BY <1>4, <1>6, AddsNames
  <2>2. HomesOpen(v)
    BY <1>6 DEF Lends
  <2>3. Lends(v, w, {r}) /\ SameLoans(v, w)
    BY <1>4, <1>6, <2>1, <2>2, AddLends
  <2>4. {r} \subseteq {p, q}
    BY <1>6
  <2>5. Lends(t, w, {p, q})
    BY <1>6, <2>3, <2>4, ThenIdle
  <2> QED BY <2>1, <2>5
<1>7. Lends(t, t2, {p, q}) /\ OnlyOne(t2)
  BY <1>1, <1>2, <1>3, <1>5, <1>6
<1>8. Lends(t, t3, {p, q}) /\ OnlyOne(t3)
  BY <1>1, <1>2, <1>3, <1>6, <1>7
<1>9. CASE handle = None
  BY <1>1, <1>8, <1>9
<1>10. CASE handle # None
  BY <1>1, <1>3, <1>6, <1>8, <1>10
<1> QED BY <1>9, <1>10

\* A charge to the CPU budget.
LEMMA ChargeLends ==
  ASSUME caps \in AllTables, NEW p \in Procs, NEW s \in Slots, NEW amount,
         CapAt(p, s) # None, CapAt(p, s).kind = "CpuTime",
         caps' = [caps EXCEPT ![p].slots[s].id = @ - amount],
         OnlyOne(caps), OnlyOne(caps'), HomesOpen(caps), NEW X
  PROVE  Lends(caps, caps', X)
<1>1. /\ \A r \in Procs, z \in Slots : ~(r = p /\ z = s) => At(caps', r, z) = At(caps, r, z)
      /\ \A r \in Procs : caps'[r].reserved = caps[r].reserved
  BY DEF At, AllTables, GoodTables, Tables
<1>2. /\ At(caps, p, s) # None /\ At(caps, p, s).kind = "CpuTime"
      /\ At(caps', p, s).kind = "CpuTime" /\ At(caps', p, s).origin = At(caps, p, s).origin
  <2>1. At(caps, p, s) \in CapRecords /\ At(caps, p, s) # None /\ At(caps, p, s).kind = "CpuTime"
    BY AtType DEF At, CapAt, Caps
  <2>2. At(caps', p, s) = [At(caps, p, s) EXCEPT !.id = @ - amount]
    BY DEF At, AllTables, GoodTables, Tables
  <2> QED BY <2>1, <2>2 DEF CapRecords
<1>3. "CpuTime" \notin ReclaimableKinds
  BY DEF ReclaimableKinds
<1>4. At(caps, p, s).origin = None
  BY <1>2, <1>3 DEF HomesOpen
<1>5. LoanStep(caps, caps')
  <2> SUFFICES ASSUME NEW x \in Objects PROVE SameLoan(caps, caps', x)
    BY DEF LoanStep, SameLoans
  <2>1. \A r \in Procs, z \in Slots :
          /\ ObjectAt(caps', x, r, z) <=> ObjectAt(caps, x, r, z)
          /\ ObjectAt(caps, x, r, z) => At(caps', r, z).origin = At(caps, r, z).origin
    BY <1>1, <1>2, <1>3, ObjectsUnique DEF ObjectAt
  <2> QED BY <2>1, StaysPut
<1>6. HomesOpen(caps')
  <2>1. ASSUME NEW r \in Procs, NEW z \in Slots, At(caps', r, z) # None, At(caps', r, z).origin # None
        PROVE  /\ At(caps', r, z) = At(caps, r, z)
               /\ caps'[At(caps, r, z).origin.lender].reserved = caps[At(caps, r, z).origin.lender].reserved
    <3>1. At(caps', r, z) = At(caps, r, z)
      BY <1>1, <1>2, <1>4, <2>1
    <3>2. At(caps, r, z).origin.lender \in Procs
      BY ONLY caps \in AllTables, r \in Procs, z \in Slots, <2>1, <3>1, AtType
    <3> QED BY ONLY <1>1, <3>1, <3>2
  <2> QED BY ONLY HomesOpen(caps), <2>1 DEF HomesOpen
<1>7. Tame(caps, caps', X)
  BY <1>1, <1>2 DEF Tame
<1> QED BY <1>5, <1>6, <1>7 DEF Lends

----------------------------------------------------------------------------
(* Every action keeps the invariant and is a step of Loans.                *)

\* A step gives the invariant when these hold.
LEMMA Inv5Next ==
  ASSUME Inv5, Inv3', HomesOpen(caps'), Offers(pending', caps', eps')
  PROVE  Inv5'
  BY DEF Inv5, HomesOpen, Offers, InQueue, At

\* Fewer wait, with the same offers or none.
LEMMA FewerOffers ==
  ASSUME NEW t, NEW u, NEW ep, NEW new, NEW pend, NEW next \in [Procs -> PendingRecords],
         NEW X, Offers(pend, t, ep), Tame(t, u, X),
         \A d \in Endpoints, q \in Procs : InQueue(new, d, q) /\ new[d].are_senders =>
           /\ InQueue(ep, d, q) /\ ep[d].are_senders /\ q \notin X
           /\ next[q] = pend[q] \/ next[q].cap = None
  PROVE  Offers(next, u, new)
<1> SUFFICES ASSUME NEW d \in Endpoints, NEW q \in Procs, InQueue(new, d, q),
                    new[d].are_senders, next[q].cap # None
             PROVE  \/ At(u, q, next[q].cap) = None
                    \/ At(u, q, next[q].cap).kind \in ReclaimableKinds
  BY DEF Offers
<1>1. /\ InQueue(ep, d, q) /\ ep[d].are_senders /\ q \notin X
      /\ next[q] = pend[q] /\ next[q].cap \in Slots
  BY DEF PendingRecords
<1>2. \/ At(t, q, next[q].cap) = None
      \/ At(t, q, next[q].cap).kind \in ReclaimableKinds
  BY <1>1 DEF Offers
<1> QED BY <1>1, <1>2 DEF Tame

\* A running process blocks.
LEMMA BlocksInv5 ==
  ASSUME Inv5, Inv3', NEW p \in Procs, state[p] = "Ready", NEW e \in Endpoints,
         NEW side \in BOOLEAN, eps' = Enqueue(e, p, side), caps' = caps,
         ~Waiting(e, ~side), \A q \in Procs \ {p} : pending'[q] = pending[q],
         side /\ pending'[p].cap # None =>
           \/ At(caps, p, pending'[p].cap) = None
           \/ At(caps, p, pending'[p].cap).kind \in ReclaimableKinds
  PROVE  Inv5' /\ LoanStep(caps, caps')
<1>1. TypeOK /\ state \in [Procs -> {"Empty", "Ready", "Blocked"}]
  BY Inv3Types DEF Inv5, Inv3
<1>2. \A d \in Endpoints : \A q : InQueue(eps', d, q) => InQueue(eps, d, q) \/ (d = e /\ q = p)
  BY <1>1, EnqueueFacts DEF Inv5, Inv3
<1>3. \A d \in Endpoints, q \in Procs : InQueue(eps, d, q) => q # p
  BY DEF Inv5, Inv3, Once, InQueue
<1>4. \A d \in Endpoints : eps'[d].are_senders = IF d = e THEN side ELSE eps[d].are_senders
  BY <1>1, EnqueueKeeps
<1>5. eps[e].queue # <<>> => eps[e].are_senders = side
  BY <1>1 DEF Waiting, TypeOK, EndpointRecords
<1>6. Offers(pending', caps', eps')
  <2> SUFFICES ASSUME NEW d \in Endpoints, NEW q \in Procs, InQueue(eps', d, q),
                      eps'[d].are_senders, pending'[q].cap # None
               PROVE  \/ At(caps, q, pending'[q].cap) = None
                      \/ At(caps, q, pending'[q].cap).kind \in ReclaimableKinds
    BY DEF Offers
  <2>1. CASE d = e /\ q = p
    BY <1>4, <2>1
  <2>2. CASE ~(d = e /\ q = p)
    <3>1. InQueue(eps, d, q) /\ q # p
      BY <1>2, <1>3, <2>2
    <3>2. eps[d].are_senders /\ pending'[q] = pending[q]
      BY <1>4, <1>5, <3>1, EmptyQueue
    <3> QED BY <3>1, <3>2 DEF Inv5, Offers
  <2> QED BY <2>1, <2>2
<1>7. HomesOpen(caps')
  BY DEF Inv5
<1>8. LoanStep(caps, caps')
  BY DEF LoanStep, SameLoans, SameLoan
<1> QED BY <1>6, <1>7, <1>8, Inv5Next

\* The head waiter leaves.
LEMMA MeetsInv5 ==
  ASSUME Inv5, Inv3', NEW e \in Endpoints, eps[e].queue # <<>>, eps' = Dequeue(e),
         NEW x \in Procs, x = Head(eps[e].queue) \/ state[x] = "Ready",
         Lends(caps, caps', {x}),
         \A q \in Procs : q # Head(eps[e].queue) => pending'[q] = pending[q]
  PROVE  Inv5' /\ LoanStep(caps, caps')
<1>1. TypeOK /\ pending' \in [Procs -> PendingRecords]
  BY Inv3Types DEF Inv5, Inv3, Inv1, TypeOK
<1>2. /\ \A d \in Endpoints : ~InQueue(eps', d, Head(eps[e].queue))
      /\ \A d \in Endpoints : \A q : InQueue(eps', d, q) => InQueue(eps, d, q)
  BY <1>1, DequeueFacts DEF Inv5, Inv3
<1>3. \A d \in Endpoints : eps'[d].are_senders = eps[d].are_senders
  BY <1>1, DequeueKeeps
<1>4. ASSUME NEW d \in Endpoints, NEW q \in Procs, InQueue(eps', d, q), eps'[d].are_senders
      PROVE  /\ InQueue(eps, d, q) /\ eps[d].are_senders /\ q \notin {x}
             /\ pending'[q] = pending[q] \/ pending'[q].cap = None
  <2>1. InQueue(eps, d, q) /\ q # Head(eps[e].queue)
    BY <1>2, <1>4
  <2>2. state[q] # "Ready"
    BY <2>1 DEF Inv5, Inv3, Once, InQueue
  <2> QED BY <1>3, <1>4, <2>1, <2>2
<1>5. Offers(pending', caps', eps')
  BY <1>1, <1>4, FewerOffers DEF Inv5, Lends
<1> QED BY <1>5, Inv5Next DEF Lends

\* The endpoints and the offers are left alone by a process that is running.
LEMMA QuietInv5 ==
  ASSUME Inv5, Inv3', NEW p \in Procs, state[p] = "Ready", pending' = pending,
         \A d \in Endpoints : /\ eps'[d].queue = eps[d].queue
                              /\ eps[d].queue # <<>> => eps'[d].are_senders = eps[d].are_senders,
         Lends(caps, caps', {p})
  PROVE  Inv5' /\ LoanStep(caps, caps')
<1>1. pending' \in [Procs -> PendingRecords]
  BY DEF Inv3, Inv1, TypeOK
<1>2. ASSUME NEW d \in Endpoints, NEW q \in Procs, InQueue(eps', d, q), eps'[d].are_senders
      PROVE  /\ InQueue(eps, d, q) /\ eps[d].are_senders /\ q \notin {p}
             /\ pending'[q] = pending[q] \/ pending'[q].cap = None
  <2>1. InQueue(eps, d, q)
    BY <1>2 DEF InQueue
  <2>2. eps[d].queue # <<>>
    BY <2>1, EmptyQueue
  <2>3. state[q] # "Ready"
    BY <2>1 DEF Inv5, Inv3, Once, InQueue
  <2> QED BY <1>2, <2>1, <2>2, <2>3
<1>3. Offers(pending', caps', eps')
  BY <1>1, <1>2, FewerOffers DEF Inv5, Lends
<1> QED BY <1>3, Inv5Next DEF Lends

\* The IPC gate.
LEMMA GateInv5 ==
  ASSUME Inv5, NEW p \in Procs, Send(p) \/ Recv(p) \/ Call(p) \/ Reply(p)
  PROVE  Inv5' /\ LoanStep(caps, caps')
<1>1. /\ caps \in AllTables /\ TypeOK /\ Inv3' /\ state[p] = "Ready"
      /\ TablesSafe(caps, state, free) /\ OnlyOne(caps) /\ OnlyOne(caps') /\ HomesOpen(caps)
  <2>1. caps \in AllTables /\ TypeOK /\ Inv3' /\ state[p] = "Ready"
    BY Inv3Types, GateInv3 DEF Inv5, Inv3, Send, Recv, Call, Reply, CanCall
  <2>2. OnlyOne(caps')
    BY <2>1 DEF Inv3, TablesSafe, OnlyOne, At
  <2> QED BY <2>1, <2>2 DEF Inv5, Inv3, TablesSafe
<1>2. ASSUME NEW e \in Endpoints, eps[e].queue # <<>>
      PROVE  /\ Head(eps[e].queue) \in Procs /\ state[Head(eps[e].queue)] = "Blocked"
             /\ InQueue(eps, e, Head(eps[e].queue))
  <2>1. Head(eps[e].queue) \in Procs /\ state[Head(eps[e].queue)] = "Blocked"
    BY <1>1, <1>2, HeadLeaves DEF Inv5, Inv3
  <2>2. eps[e].queue \in Seq(Procs)
    BY <1>1 DEF TypeOK, EndpointRecords
  <2>3. 1 \in 1 .. Len(eps[e].queue) /\ eps[e].queue[1] = Head(eps[e].queue)
    BY <1>2, <2>2
  <2> QED BY <2>1, <2>3 DEF InQueue
<1>3. ASSUME NEW s \in Slots, NEW c \in Slots \cup {None}, MayLend(p, c), SendRendezvous(p, s, c)
      PROVE  Inv5' /\ LoanStep(caps, caps')
  <2>1. PICK e \in Endpoints :
          /\ eps[e].queue # <<>>
          /\ Deliver(p, c, Head(eps[e].queue))
          /\ eps' = Dequeue(e) /\ pending' = pending
    BY <1>3 DEF SendRendezvous, Waiting
  <2>2. Moves(p, c) => CapAt(p, c).kind \in ReclaimableKinds
    BY <1>3 DEF MayLend, Inv5
  <2>3. Lends(caps, caps', {p})
    BY <1>1, <1>2, <2>1, <2>2, DeliverLends
  <2> QED BY <1>1, <2>1, <2>3, MeetsInv5
<1>4. ASSUME NEW s \in Slots, NEW c \in Slots \cup {None}, MayLend(p, c), SendBlocks(p, s, c)
      PROVE  Inv5' /\ LoanStep(caps, caps')
  <2>1. PICK e \in Endpoints :
          /\ ~Waiting(e, FALSE)
          /\ eps' = Enqueue(e, p, TRUE) /\ caps' = caps
          /\ pending' = [pending EXCEPT ![p] = [cap |-> c, call |-> FALSE]]
    BY <1>4 DEF SendBlocks
  <2>2. /\ pending'[p].cap = c /\ \A q \in Procs \ {p} : pending'[q] = pending[q]
        /\ ~Waiting(e, ~TRUE)
    BY <1>1, <2>1 DEF TypeOK, Waiting
  <2>3. c # None => At(caps, p, c) = None \/ At(caps, p, c).kind \in ReclaimableKinds
    BY <1>4 DEF MayLend, Moves, Inv5, At, CapAt
  <2> QED BY <1>1, <2>1, <2>2, <2>3, BlocksInv5
<1>5. ASSUME NEW e \in Endpoints, RecvCall(p, e) PROVE Inv5' /\ LoanStep(caps, caps')
  <2>1. /\ eps[e].queue # <<>> /\ MintReply(p, Head(eps[e].queue)) /\ eps' = Dequeue(e)
        /\ pending' = [pending EXCEPT ![Head(eps[e].queue)] = NoPending]
    BY <1>5 DEF RecvCall, Waiting
  <2>2. Lends(caps, caps', {p})
    BY <1>1, <1>2, <2>1, MintLends
  <2>3. \A q \in Procs : q # Head(eps[e].queue) => pending'[q] = pending[q]
    BY <1>1, <2>1 DEF TypeOK
  <2> QED BY <1>1, <2>1, <2>2, <2>3, MeetsInv5
<1>6. ASSUME NEW e \in Endpoints, RecvSend(p, e) PROVE Inv5' /\ LoanStep(caps, caps')
  <2> DEFINE sender == Head(eps[e].queue)
             c      == pending[sender].cap
  <2>1. /\ eps[e].queue # <<>> /\ eps[e].are_senders /\ eps' = Dequeue(e)
        /\ Deliver(sender, c, p)
        /\ pending' = [pending EXCEPT ![sender] = NoPending]
    BY <1>6 DEF RecvSend, Waiting
  <2>2. /\ sender \in Procs /\ sender # p /\ InQueue(eps, e, sender)
    BY <1>1, <1>2, <2>1
  <2>3. c \in Slots \cup {None}
    BY <1>1, <2>2 DEF TypeOK, PendingRecords
  <2>4. Moves(sender, c) => CapAt(sender, c).kind \in ReclaimableKinds
    BY <2>1, <2>2 DEF Inv5, Offers, Moves, At, CapAt
  <2>5. \A q \in Procs : q # sender => pending'[q] = pending[q]
    BY <1>1, <2>1 DEF TypeOK
  <2> HIDE DEF c
  <2>6. Lends(caps, caps', {p})
    BY <1>1, <2>1, <2>2, <2>3, <2>4, DeliverLends
  <2> QED BY <1>1, <2>1, <2>5, <2>6, MeetsInv5
<1>7. ASSUME NEW e \in Endpoints, RecvPeerDied(p, e) PROVE Inv5' /\ LoanStep(caps, caps')
  <2>1. UNCHANGED <<caps, eps, pending>>
    BY <1>7 DEF RecvPeerDied
  <2> QED BY <1>1, <2>1, IdleLends, QuietInv5
<1>8. ASSUME NEW e \in Endpoints, RecvBlocks(p, e) PROVE Inv5' /\ LoanStep(caps, caps')
  <2>1. /\ ~Waiting(e, TRUE) /\ eps' = Enqueue(e, p, FALSE) /\ caps' = caps /\ pending' = pending
    BY <1>8 DEF RecvBlocks
  <2>2. ~Waiting(e, ~FALSE)
    BY <2>1 DEF Waiting
  <2> QED BY <1>1, <2>1, <2>2, BlocksInv5
<1>9. ASSUME NEW e \in Endpoints, CallRendezvous(p, e) PROVE Inv5' /\ LoanStep(caps, caps')
  <2>1. /\ eps[e].queue # <<>> /\ MintReply(Head(eps[e].queue), p) /\ eps' = Dequeue(e)
        /\ pending' = pending
    BY <1>9 DEF CallRendezvous, Waiting
  <2>2. Lends(caps, caps', {Head(eps[e].queue)})
    BY <1>1, <1>2, <2>1, MintLends
  <2> QED BY <1>1, <1>2, <2>1, <2>2, MeetsInv5
<1>10. ASSUME NEW e \in Endpoints, CallBlocks(p, e) PROVE Inv5' /\ LoanStep(caps, caps')
  <2>1. /\ ~Waiting(e, FALSE) /\ eps' = Enqueue(e, p, TRUE) /\ caps' = caps
        /\ pending' = [pending EXCEPT ![p] = [cap |-> None, call |-> TRUE]]
    BY <1>10 DEF CallBlocks
  <2>2. /\ pending'[p].cap = None /\ \A q \in Procs \ {p} : pending'[q] = pending[q]
        /\ ~Waiting(e, ~TRUE)
    BY <1>1, <2>1 DEF TypeOK, Waiting
  <2> QED BY <1>1, <2>1, <2>2, BlocksInv5
<1>11. ASSUME Reply(p) PROVE Inv5' /\ LoanStep(caps, caps')
  <2>1. PICK s \in Slots :
          /\ At(caps, p, s) # None /\ At(caps, p, s).kind = "Reply"
          /\ caps' = [caps EXCEPT ![p] = Revoke(@, s)] /\ eps' = eps /\ pending' = pending
    BY <1>11 DEF Reply, Holds, At, CapAt
  <2>2. DropsOne(caps, caps', p, s) /\ At(caps, p, s).kind \notin ReclaimableKinds
    BY <1>1, <2>1, RevokeCells DEF ReclaimableKinds
  <2>3. Lends(caps, caps', {p})
    BY <1>1, <2>2, DropLends
  <2> QED BY <1>1, <2>1, <2>3, QuietInv5
<1>12. ASSUME Send(p) PROVE Inv5' /\ LoanStep(caps, caps')
  BY <1>3, <1>4, <1>12 DEF Send
<1>13. ASSUME Recv(p) PROVE Inv5' /\ LoanStep(caps, caps')
  BY <1>5, <1>6, <1>7, <1>8, <1>13 DEF Recv
<1>14. ASSUME Call(p) PROVE Inv5' /\ LoanStep(caps, caps')
  BY <1>9, <1>10, <1>14 DEF Call
<1> QED BY <1>11, <1>12, <1>13, <1>14

\* An endpoint that loses referents keeps the side of its waiters.
LEMMA DroppedSide ==
  ASSUME NEW ep \in EndpointRecords, NEW n, NEW m, ep.queue # <<>>
  PROVE  Dropped(ep, n, m).are_senders = ep.are_senders
  BY DEF Dropped, EmptyEndpoint, EndpointRecords

\* The system calls.
LEMMA SyscallInv5 ==
  ASSUME Inv5, NEW p \in Procs,
         FrameAlloc(p) \/ FrameMap(p) \/ FbMap(p) \/ CpuCharge(p) \/ CapRelease(p)
  PROVE  Inv5' /\ LoanStep(caps, caps')
<1>1. /\ caps \in AllTables /\ TypeOK /\ Inv3' /\ state[p] = "Ready"
      /\ TablesSafe(caps, state, free) /\ OnlyOne(caps) /\ OnlyOne(caps') /\ HomesOpen(caps)
  <2>1. caps \in AllTables /\ TypeOK /\ Inv3' /\ state[p] = "Ready"
    BY Inv3Types, SyscallInv3
       DEF Inv5, Inv3, FrameAlloc, FrameMap, FbMap, Map, CpuCharge, CapRelease, CanCall
  <2>2. OnlyOne(caps')
    BY <2>1 DEF Inv3, TablesSafe, OnlyOne, At
  <2> QED BY <2>1, <2>2 DEF Inv5, Inv3, TablesSafe
<1>2. ASSUME FrameAlloc(p) PROVE Inv5' /\ LoanStep(caps, caps')
  <2>1. PICK f \in free :
          /\ caps' = [caps EXCEPT ![p] =
               Put(@, InstallSlot(@), Cap("Frame", f, {"READ", "WRITE", "MAP"}))]
          /\ InstallSlot(caps[p]) # None
          /\ UNCHANGED <<eps, pending>>
    BY <1>2 DEF FrameAlloc
  <2> DEFINE cap == Cap("Frame", f, {"READ", "WRITE", "MAP"})
             l   == InstallSlot(caps[p])
  <2>2. f \in Frames /\ f \in Nat
    BY <1>1 DEF TypeOK, Frames
  <2>3. cap \in Caps
    BY <2>2, CapType DEF Kinds, Rights, Ids
  <2>4. cap.kind \notin ReclaimableKinds /\ cap.origin = None
    BY DEF Cap, ReclaimableKinds
  <2>5. l \in Slots /\ AddsOne(caps, caps', p, l, cap)
    <3> HIDE DEF cap
    <3> QED BY <1>1, <2>1, InstallCells DEF cap
  <2> HIDE DEF cap, l
  <2>6. Lends(caps, caps', {p})
    BY <1>1, <2>3, <2>4, <2>5, AddLends
  <2> QED BY <1>1, <2>1, <2>6, QuietInv5
<1>3. ASSUME NEW kind, NEW limit, Map(p, kind, limit) PROVE Inv5' /\ LoanStep(caps, caps')
  <2>1. UNCHANGED <<caps, eps, pending>>
    BY <1>3 DEF Map
  <2> QED BY <1>1, <2>1, IdleLends, QuietInv5
<1>4. ASSUME CpuCharge(p) PROVE Inv5' /\ LoanStep(caps, caps')
  <2>1. PICK s \in Slots, amount \in 1 .. CpuBudget :
          /\ CapAt(p, s) # None /\ CapAt(p, s).kind = "CpuTime"
          /\ caps' = [caps EXCEPT ![p].slots[s].id = @ - amount]
    BY <1>4 DEF CpuCharge, Holds
  <2>2. UNCHANGED <<eps, pending>>
    BY <1>4 DEF CpuCharge
  <2>3. Lends(caps, caps', {p})
    BY <1>1, <2>1, ChargeLends
  <2> QED BY ONLY Inv5, p \in Procs, <1>1, <2>2, <2>3, QuietInv5
<1>5. ASSUME CapRelease(p) PROVE Inv5' /\ LoanStep(caps, caps')
  <2>1. PICK s \in Slots : CapAt(p, s) # None /\ (ReleaseHome(p, s) \/ ReleaseOwn(p, s))
    BY <1>5 DEF CapRelease
  <2>2. pending' = pending
    BY <1>5 DEF CapRelease
  <2>3. CASE ReleaseHome(p, s)
    <3>1. ReleaseAction(CapAt(p, s)) = "ReclaimTo" /\ SendHome(p, s) /\ eps' = eps
      BY <2>3 DEF ReleaseHome
    <3>2. Lends(caps, caps', {p})
      BY <1>1, <2>1, <3>1, SendHomeLends
    <3> QED BY <1>1, <2>2, <3>1, <3>2, QuietInv5
  <2>4. CASE ReleaseOwn(p, s)
    <3>1. DropsOne(caps, caps', p, s)
      BY <1>1, <2>1, <2>4, RevokeCells DEF ReleaseOwn, At, CapAt
    <3>2. At(caps, p, s).kind \in ReclaimableKinds => At(caps, p, s).origin = None
      BY <2>4 DEF ReleaseOwn, ReleaseAction, At, CapAt
    <3>3. Lends(caps, caps', {p})
      BY <1>1, <3>1, <3>2, DropLends
    <3>4. \A d \in Endpoints : /\ eps'[d].queue = eps[d].queue
                               /\ eps[d].queue # <<>> => eps'[d].are_senders = eps[d].are_senders
      <4> DEFINE cap == CapAt(p, s)
                 ep  == Dropped(eps[cap.id], Has(cap, "SEND"), Has(cap, "RECV"))
      <4>1. eps' = eps \/ eps' = [eps EXCEPT ![cap.id] = ep]
        BY <2>4 DEF ReleaseOwn
      <4>2. cap.id \in Endpoints =>
              /\ ep.queue = eps[cap.id].queue
              /\ eps[cap.id].queue # <<>> => ep.are_senders = eps[cap.id].are_senders
        BY <1>1, DroppedQueue, DroppedSide DEF TypeOK
      <4> HIDE DEF cap, ep
      <4> QED BY <1>1, <4>1, <4>2 DEF TypeOK
    <3> QED BY <1>1, <2>2, <3>3, <3>4, QuietInv5
  <2> QED BY <2>1, <2>3, <2>4
<1> QED BY <1>2, <1>3, <1>4, <1>5 DEF FrameMap, FbMap

\* Spawning, whether the child starts or not.
LEMMA SpawnInv5 ==
  ASSUME Inv5, NEW p \in Procs, Spawn(p)
  PROVE  Inv5' /\ LoanStep(caps, caps')
<1>1. /\ caps \in AllTables /\ TypeOK /\ Inv3' /\ state[p] = "Ready"
      /\ TablesSafe(caps, state, free) /\ HomesOpen(caps)
  BY Inv3Types, SpawnInv3 DEF Inv5, Inv3, Spawn, CanCall
<1>2. ASSUME NEW c \in Slots \cup {None}, MayLend(p, c), c \in Slots, At(caps, p, c) # None
      PROVE  At(caps, p, c).kind \in ReclaimableKinds
  BY <1>2, NoneApart DEF MayLend, Moves, Inv5, At, CapAt
<1>3. ASSUME NEW c \in Slots \cup {None}, MayLend(p, c), SpawnFails(p, c)
      PROVE  Inv5' /\ LoanStep(caps, caps')
  <2>1. PICK l \in Slots : MovesOne(caps, caps', p, c, p, l) /\ c \in Slots
    BY <1>1, <1>3, SpawnFailsCells
  <2>2. At(caps, p, c).kind \in ReclaimableKinds
    BY <1>2, <1>3, <2>1 DEF MovesOne
  <2>3. Lends(caps, caps', {p})
    BY <1>1, <2>1, <2>2, MoveLends
  <2>4. eps' = eps /\ pending' = pending
    BY <1>3 DEF SpawnFails
  <2> QED BY <1>1, <2>3, <2>4, QuietInv5
<1>4. ASSUME NEW c \in Slots \cup {None}, MayLend(p, c), SpawnChild(p, c)
      PROVE  Inv5' /\ LoanStep(caps, caps')
  <2>0. PICK e \in Endpoints, q \in Procs : \E given, handle :
          ChildStarts(p, c, e, q, given, handle)
    BY <1>1, <1>4, SpawnChildShape
  <2>1. PICK given, handle :
          /\ FirstFreeEndpoint(e) /\ state[q] = "Empty"
          /\ given # None => c \in Slots
          /\ SpawnsFrom(caps, caps', p, c, q, e, given, handle)
          /\ eps' = [eps EXCEPT ![e] =
               [EmptyEndpoint EXCEPT !.in_use = TRUE, !.senders = 1,
                  !.receivers = IF handle = None THEN 0 ELSE 1]]
          /\ state' = [state EXCEPT ![q] = "Ready"]
          /\ UNCHANGED <<pending, landing, free, exiting>>
    BY <2>0 DEF ChildStarts
  <2>2. Lends(caps, caps', {p, q})
    BY <1>1, <1>2, <1>4, <2>1, SpawnLends
  <2>3. /\ eps'[e].queue = <<>>
        /\ \A d \in Endpoints : d # e => eps'[d] = eps[d]
    BY <1>1, <2>1 DEF TypeOK, EmptyEndpoint
  <2>4. pending' = pending /\ pending' \in [Procs -> PendingRecords]
    BY <1>1, <2>1 DEF TypeOK
  <2>5. ASSUME NEW d \in Endpoints, NEW w \in Procs, InQueue(eps', d, w), eps'[d].are_senders
        PROVE  /\ InQueue(eps, d, w) /\ eps[d].are_senders /\ w \notin {p, q}
               /\ pending'[w] = pending[w] \/ pending'[w].cap = None
    <3>1. d # e
      BY <2>3, <2>5, EmptyQueue
    <3>2. InQueue(eps, d, w) /\ eps[d].are_senders
      BY <2>3, <2>5, <3>1 DEF InQueue
    <3>3. state[w] = "Blocked"
      BY <3>2 DEF Inv5, Inv3, Once, InQueue
    <3>4. w \notin {p, q}
      BY ONLY <1>1, <2>1, <3>3
    <3> QED BY <2>4, <3>2, <3>4
  <2>6. Offers(pending', caps', eps')
    BY <2>2, <2>4, <2>5, FewerOffers DEF Inv5, Lends
  <2> QED BY <1>1, <2>2, <2>6, Inv5Next DEF Lends
<1> QED BY <1>3, <1>4 DEF Spawn

\* An endpoint that keeps its waiters through a death keeps their side.
LEMMA AfterSide ==
  ASSUME TypeOK, NEW p \in Procs, NEW e \in Endpoints, EndpointAfter(p, e).queue # <<>>
  PROVE  /\ EndpointAfter(p, e).queue = eps[e].queue
         /\ EndpointAfter(p, e).are_senders = eps[e].are_senders
<1>1. ~DeathStrandsPeers(p, e) /\ EndpointAfter(p, e).queue = eps[e].queue
  BY AfterQueue
<1>2. eps[e] \in EndpointRecords /\ eps[e].queue # <<>>
  BY <1>1 DEF TypeOK
<1>3. \/ EndpointAfter(p, e) = eps[e]
      \/ EndpointAfter(p, e) = Dropped(eps[e], Cardinality(Reaching(caps[p], e, "SEND")),
                                               Cardinality(Reaching(caps[p], e, "RECV")))
  BY <1>1 DEF EndpointAfter
<1> QED BY <1>1, <1>2, <1>3, DroppedSide

\* Death, step by step.
LEMMA DeathInv5 ==
  ASSUME Inv5, NEW p \in Procs, Exit(p) \/ ReclaimLentCap(p) \/ FinishExit(p)
  PROVE  Inv5' /\ LoanStep(caps, caps')
<1>1. /\ caps \in AllTables /\ TypeOK /\ Inv3' /\ TablesSafe(caps, state, free)
      /\ HomesOpen(caps)
  BY Inv3Types, DeathInv3 DEF Inv5, Inv3
<1>2. state[p] = "Ready"
  BY NoneApart DEF Inv5, Inv3, ExitingReady, Exit, CanCall, ReclaimLentCap, FinishExit
<1>3. ASSUME Exit(p) PROVE Inv5' /\ LoanStep(caps, caps')
  <2>1. UNCHANGED <<caps, eps, pending>>
    BY <1>3 DEF Exit
  <2> QED BY <1>1, <1>2, <2>1, IdleLends, QuietInv5
<1>4. ASSUME ReclaimLentCap(p) PROVE Inv5' /\ LoanStep(caps, caps')
  <2>1. PICK s \in BorrowedSlots(caps[p]) : SendHome(p, s)
    BY <1>4 DEF ReclaimLentCap
  <2>2. s \in Slots /\ CapAt(p, s) # None /\ ReleaseAction(CapAt(p, s)) = "ReclaimTo"
    BY DEF BorrowedSlots, CapAt
  <2>3. Lends(caps, caps', {p})
    BY <1>1, <2>1, <2>2, SendHomeLends
  <2>4. eps' = eps /\ pending' = pending
    BY <1>4 DEF ReclaimLentCap
  <2> QED BY <1>1, <1>2, <2>3, <2>4, QuietInv5
<1>5. ASSUME FinishExit(p) PROVE Inv5' /\ LoanStep(caps, caps')
  <2>1. Forgets(caps, caps', p) /\ \A e \in Endpoints : eps'[e] = EndpointAfter(p, e)
    BY <1>1, <1>5, FinishExitCells DEF FinishExit
  <2>2. \A s \in Slots : At(caps, p, s) # None /\ At(caps, p, s).kind \in ReclaimableKinds =>
          At(caps, p, s).origin = None
    BY <1>5 DEF FinishExit, BorrowedSlots, ReleaseAction, At
  <2>3. LoanStep(caps, caps')
    BY <1>1, <2>1, <2>2, DeathLoans DEF TablesSafe
  <2>4. HomesOpen(caps')
    BY <1>1, <2>1, DeathHomes
  <2>5. Tame(caps, caps', {})
    BY <1>1, <2>1, ForgetsSame DEF Tame
  <2>6. /\ pending' \in [Procs -> PendingRecords]
        /\ \A q \in Procs : pending'[q] = pending[q] \/ pending'[q].cap = None
    <3>1. pending' \in [Procs -> PendingRecords]
      BY <1>1 DEF Inv3, Inv1, TypeOK
    <3>2. \A q \in Procs : pending'[q] = IF q \in Stranded(p) THEN NoPending ELSE pending[q]
      BY <1>5 DEF FinishExit
    <3> QED BY <3>1, <3>2 DEF NoPending
  <2>7. ASSUME NEW d \in Endpoints, NEW w \in Procs, InQueue(eps', d, w), eps'[d].are_senders
        PROVE  /\ InQueue(eps, d, w) /\ eps[d].are_senders /\ w \notin {}
               /\ pending'[w] = pending[w] \/ pending'[w].cap = None
    <3>1. EndpointAfter(p, d).queue # <<>>
      BY <2>1, <2>7, EmptyQueue
    <3>2. eps'[d].queue = eps[d].queue /\ eps'[d].are_senders = eps[d].are_senders
      BY <1>1, <2>1, <3>1, AfterSide
    <3> QED BY <2>6, <2>7, <3>2 DEF InQueue
  <2>8. Offers(pending', caps', eps')
    BY <2>5, <2>6, <2>7, FewerOffers DEF Inv5
  <2> QED BY <1>1, <2>3, <2>4, <2>8, Inv5Next
<1> QED BY <1>3, <1>4, <1>5

\* The boot state lends nothing.
LEMMA InitInv5 == Init /\ LendKinds \subseteq ReclaimableKinds => Inv5
<1> SUFFICES ASSUME Init, LendKinds \subseteq ReclaimableKinds PROVE Inv5
  OBVIOUS
<1>1. ASSUME NEW p \in Procs, NEW s \in Slots, At(caps, p, s) # None
      PROVE  At(caps, p, s).origin = None
  <2>1. /\ p \in DOMAIN BootGrants
        /\ \/ s = 0 /\ At(caps, p, s) = Budget
           \/ s \in 1 .. Len(BootGrants[p]) /\ At(caps, p, s) = BootGrants[p][s]
    BY <1>1, BootCells
  <2> QED BY <2>1, BootAssumption DEF Budget, Cap
<1>2. \A e \in Endpoints : eps[e].queue = <<>>
  BY DEF Init, BootEndpoint, EmptyEndpoint
<1>3. Offers(pending, caps, eps)
  BY <1>2, EmptyQueue DEF Offers
<1>4. HomesOpen(caps)
  BY <1>1 DEF HomesOpen
<1> QED BY InitInv3, <1>3, <1>4 DEF Inv5

\* The fifth invariant is inductive, and its steps are those of Loans.
LEMMA Inv5Inductive == Inv5 /\ [Next]_vars => Inv5' /\ LoanStep(caps, caps')
<1> SUFFICES ASSUME Inv5, [Next]_vars PROVE Inv5' /\ LoanStep(caps, caps')
  OBVIOUS
<1>1. CASE UNCHANGED vars
  <2>1. Inv3'
    BY Inv3Inductive DEF Inv5
  <2>2. caps' = caps /\ pending' = pending /\ eps' = eps
    BY <1>1 DEF vars
  <2>3. HomesOpen(caps') /\ Offers(pending', caps', eps')
    BY <2>2 DEF Inv5
  <2>4. LoanStep(caps, caps')
    BY <2>2 DEF LoanStep, SameLoans, SameLoan
  <2> QED BY <2>1, <2>3, <2>4, Inv5Next
<1>2. CASE Next
  BY <1>2, GateInv5, SyscallInv5, SpawnInv5, DeathInv5 DEF Next
<1> QED BY <1>1, <1>2

----------------------------------------------------------------------------
(* The theorems.                                                           *)

\* Every outstanding loan has a home slot of its own, empty and reserved in the
\* lender's table, so that a capability that comes back is placed where it left
\* from (ABI.md; revoke_for_lend, install_home and reclaim_to in capability.rs).
\* It needs programs to lend only what no system call can mint again: a frame
\* on loan holds no slot open, and coming back it may land in one that is held
\* open for a disk range.
THEOREM HomesStayOpen ==
  ASSUME LendKinds \subseteq ReclaimableKinds
  PROVE  Spec => []HomesHeldOpen
<1>1. Inv5 => HomesHeldOpen
  <2> SUFFICES ASSUME Inv5, NEW p \in Procs, NEW s \in BorrowedSlots(caps[p])
               PROVE  /\ CanReclaimTo(caps[CapAt(p, s).origin.lender], CapAt(p, s).origin.home)
                      /\ \A q \in Procs : \A r \in BorrowedSlots(caps[q]) :
                           CapAt(q, r).origin = CapAt(p, s).origin => q = p /\ r = s
    BY DEF HomesHeldOpen
  <2>1. ASSUME NEW q \in Procs, NEW r \in BorrowedSlots(caps[q])
        PROVE  r \in Slots /\ At(caps, q, r) = CapAt(q, r) /\ CapAt(q, r) # None
               /\ CapAt(q, r).origin # None
    BY <2>1 DEF BorrowedSlots, ReleaseAction, At, CapAt
  <2>2. caps \in AllTables /\ HomesOpen(caps)
    BY Inv3Types DEF Inv5, Inv3
  <2>3. /\ At(caps, p, s).origin.lender \in Procs /\ At(caps, p, s).origin.home \in Slots
        /\ At(caps, p, s).origin.home \in caps[At(caps, p, s).origin.lender].reserved
    BY <2>1, <2>2, AtType DEF HomesOpen
  <2>4. CanReclaimTo(caps[At(caps, p, s).origin.lender], At(caps, p, s).origin.home)
    BY <2>2, <2>3 DEF CanReclaimTo, AllTables, GoodTables
  <2> QED BY <2>1, <2>2, <2>4 DEF HomesOpen
<1>2. Inv5 /\ [Next]_vars => Inv5'
  BY Inv5Inductive
<1>3. Init => Inv5
  BY InitInv5
<1> QED BY <1>1, <1>2, <1>3, PTL DEF Spec

\* What a capability's holder and owner are, in the words of KernelLoans.
LEMMA LoansOfCaps ==
  ASSUME NEW x
  PROVE  HolderOf(x) = HolderIn(caps, x) /\ OwnerOf(x) = OwnerIn(caps, x)
<1>1. ASSUME NEW p, NEW s PROVE IsAt(x, p, s) <=> ObjectAt(caps, x, p, s)
  BY DEF IsAt, Holds, ObjectAt, At, CapAt
<1>2. HolderOf(x) = HolderIn(caps, x)
  BY <1>1 DEF HolderOf, HolderIn
<1>3. \A p : (CHOOSE s \in Slots : IsAt(x, p, s)) = (CHOOSE s \in Slots : ObjectAt(caps, x, p, s))
  BY <1>1
<1>4. OwnerOf(x) = OwnerIn(caps, x)
  <2> DEFINE h == HolderIn(caps, x)
             s == CHOOSE s \in Slots : ObjectAt(caps, x, h, s)
  <2>1. s = CHOOSE z \in Slots : IsAt(x, h, z)
    BY <1>3
  <2>2. OwnerIn(caps, x) = IF h = None THEN None ELSE OwnerBy(At(caps, h, s), h)
    BY DEF OwnerIn
  <2>3. OwnerOf(x) = IF h = None THEN None ELSE OwnerBy(At(caps, h, s), h)
    <3> HIDE DEF h, s
    <3> QED BY <1>2, <2>1 DEF OwnerOf, OwnerBy, At, CapAt, h
  <2> QED BY <2>2, <2>3
<1> QED BY <1>2, <1>4

\* A step that moves the loans as above is one of Loans, or leaves its variables
\* alone.
LEMMA StepOfLoans ==
  ASSUME NEW t, NEW u, LoanStep(t, u),
         \A x \in Objects : HolderOf(x) = HolderIn(t, x) /\ OwnerOf(x) = OwnerIn(t, x),
         \A x \in Objects : HolderOf(x)' = HolderIn(u, x) /\ OwnerOf(x)' = OwnerIn(u, x)
  PROVE  [Loan!Next]_(Loan!vars)
<1> DEFINE H == [x \in Objects |-> HolderOf(x)]
           W == [x \in Objects |-> OwnerOf(x)]
<1>1. \A x \in Objects : /\ H[x] = HolderIn(t, x) /\ H'[x] = HolderIn(u, x)
                         /\ W[x] = OwnerIn(t, x) /\ W'[x] = OwnerIn(u, x)
  OBVIOUS
<1>2. /\ H = [x \in Objects |-> H[x]] /\ H' = [x \in Objects |-> H'[x]]
      /\ W = [x \in Objects |-> W[x]] /\ W' = [x \in Objects |-> W'[x]]
  OBVIOUS
<1>3. /\ Loan!vars = <<H, W>>
      /\ (Loan!vars)' = <<H', W'>>
  BY DEF Loan!vars
<1>4. /\ \A x, p : Loan!Pass(x, p) <=> /\ H[x] # None /\ p # H[x]
                                       /\ H' = [H EXCEPT ![x] = p] /\ W' = W
      /\ \A x : Loan!Forfeit(x) <=> /\ H[x] = W[x]
                                    /\ H' = [H EXCEPT ![x] = None]
                                    /\ W' = [W EXCEPT ![x] = None]
      /\ \A p : Loan!Die(p) <=>
           /\ \A x \in Objects : H[x] = p => W[x] = p
           /\ H' = [x \in Objects |-> IF H[x] = p THEN None ELSE H[x]]
           /\ W' = [x \in Objects |-> IF W[x] # p THEN W[x]
                                      ELSE IF H[x] = p THEN None ELSE H[x]]
  BY DEF Loan!Pass, Loan!Forfeit, Loan!Die
<1> HIDE DEF H, W
<1>5. CASE SameLoans(t, u)
  <2>1. H' = H /\ W' = W
    BY <1>1, <1>2, <1>5 DEF SameLoans, SameLoan
  <2> QED BY <1>3, <2>1
<1>6. ASSUME NEW x \in Objects, NEW p \in Procs, Passes(t, u, x, p)
      PROVE  Loan!Next
  <2>1. H' = [H EXCEPT ![x] = p] /\ W' = W /\ H[x] # None /\ p # H[x]
    BY <1>1, <1>2, <1>6 DEF Passes, SameLoan
  <2>2. Loan!Pass(x, p)
    BY <1>4, <2>1
  <2> QED BY <2>2 DEF Loan!Next
<1>7. ASSUME NEW x \in Objects, Forfeits(t, u, x) PROVE Loan!Next
  <2>1. H' = [H EXCEPT ![x] = None] /\ W' = [W EXCEPT ![x] = None] /\ H[x] = W[x]
    BY <1>1, <1>2, <1>7 DEF Forfeits, SameLoan
  <2>2. Loan!Forfeit(x)
    BY <1>4, <2>1
  <2> QED BY <2>2 DEF Loan!Next
<1>8. ASSUME NEW p \in Procs, Dies(t, u, p) PROVE Loan!Next
  <2>1. /\ \A x \in Objects : H[x] = p => W[x] = p
        /\ H' = [x \in Objects |-> IF H[x] = p THEN None ELSE H[x]]
        /\ W' = [x \in Objects |-> IF W[x] # p THEN W[x]
                                   ELSE IF H[x] = p THEN None ELSE H[x]]
    BY <1>1, <1>2, <1>8 DEF Dies
  <2>2. Loan!Die(p)
    BY <1>4, <2>1
  <2> QED BY <2>2 DEF Loan!Next
<1> QED BY <1>5, <1>6, <1>7, <1>8 DEF LoanStep

\* At boot whatever is held is owned.
LEMMA InitOfLoans ==
  ASSUME Init
  PROVE  Loan!Init
<1>1. ASSUME NEW p \in Procs, NEW s \in Slots, At(caps, p, s) # None
      PROVE  At(caps, p, s).origin = None
  <2>1. /\ p \in DOMAIN BootGrants
        /\ \/ s = 0 /\ At(caps, p, s) = Budget
           \/ s \in 1 .. Len(BootGrants[p]) /\ At(caps, p, s) = BootGrants[p][s]
    BY <1>1, BootCells
  <2> QED BY <2>1, BootAssumption DEF Budget, Cap
<1>2. OnlyOne(caps)
  BY InitInv3 DEF Inv3, TablesSafe
<1>3. ASSUME NEW x \in Objects
      PROVE  HolderOf(x) \in Procs \cup {None} /\ OwnerOf(x) = HolderOf(x)
  <2>1. CASE \E p \in Procs, s \in Slots : ObjectAt(caps, x, p, s)
    <3>1. PICK p \in Procs, s \in Slots : ObjectAt(caps, x, p, s)
      BY <2>1
    <3>2. HolderIn(caps, x) = p /\ OwnerIn(caps, x) = OwnerBy(At(caps, p, s), p)
      BY <1>2, <3>1, FoundAt
    <3>3. OwnerBy(At(caps, p, s), p) = p
      BY <1>1, <3>1 DEF ObjectAt, OwnerBy
    <3> QED BY <3>2, <3>3, LoansOfCaps
  <2>2. CASE \A p \in Procs, s \in Slots : ~ObjectAt(caps, x, p, s)
    BY <2>2, NotFound, LoansOfCaps
  <2> QED BY <2>1, <2>2
<1>4. /\ [x \in Objects |-> HolderOf(x)] \in [Objects -> Procs \cup {None}]
      /\ [x \in Objects |-> OwnerOf(x)] = [x \in Objects |-> HolderOf(x)]
  BY <1>3
<1> QED BY <1>4 DEF Loan!Init

\* Where programs lend only what no system call can mint again, every sequence
\* of sends, receives, spawns, releases and deaths moves each disk range, input
\* source and screen band as Loans says: a loan passed on keeps its owner, a
\* borrower's release or death returns it, and only an owner can destroy it
\* (ABI.md on lending; ipc.rs, syscall.rs and process.rs).
THEOREM KernelImplementsLoans ==
  ASSUME LendKinds \subseteq ReclaimableKinds
  PROVE  Spec => ImplementsLoans
<1>1. \A x \in Objects : HolderOf(x) = HolderIn(caps, x) /\ OwnerOf(x) = OwnerIn(caps, x)
  BY LoansOfCaps
<1>2. (\A x \in Objects : HolderOf(x) = HolderIn(caps, x) /\ OwnerOf(x) = OwnerIn(caps, x))'
  BY <1>1, PTL
<1>3. \A x \in Objects : HolderOf(x)' = HolderIn(caps', x) /\ OwnerOf(x)' = OwnerIn(caps', x)
  BY <1>2 DEF HolderIn, OwnerIn, ObjectAt, At
<1>4. Inv5 /\ [Next]_vars => Inv5' /\ [Loan!Next]_(Loan!vars)
  BY <1>1, <1>3, Inv5Inductive, StepOfLoans
<1>5. Init => Inv5 /\ Loan!Init
  BY InitInv5, InitOfLoans
<1> QED BY <1>4, <1>5, PTL DEF Spec, ImplementsLoans, Loan!Spec

============================================================================
