---------------------------- MODULE RingsProofs ----------------------------
(***************************************************************************)
(* The safety of completion rings, for any number of processes, rings,     *)
(* entries, request slots, subscriptions and events: nobody sleeps through *)
(* a completion, no ring or subscription outlives its tenant, every        *)
(* awaited request is in exactly one place, and every stream of events     *)
(* tells what was lost.                                                    *)
(***************************************************************************)
EXTENDS Rings, FiniteSetTheorems, WellFoundedInduction, TLAPS

----------------------------------------------------------------------------
(* The invariant, as operators of the values it relates.                   *)

Buffers == [0 .. Entries - 1 -> Completions \cup {None}]

RingTables == [RingIds -> RingRecords]
Memories   == [RingIds -> Memory]
Postings   == [ring : RingTables, mem : Memories, wakes : SUBSET Procs]
SubTables  == [SubSlots -> SubRecords \cup {None}]

\* The processes, once those in W have been woken.
Woken(P, W) == [p \in Procs |-> IF p \in W THEN "Ready" ELSE P[p]]

\* Process p sleeps on ring r.
SleepsOn(R, M, p, r) ==
  R[r].in_use /\ R[r].owner = p /\ R[r].waiting /\ R[r].cq_tail = M[r].head

\* Rings and processes agree: whoever is parked sleeps on an empty ring, each mark
\* is that of a parked owner, who has no other, and no owner is gone.
Agree(R, M, P) ==
  /\ \A p \in Procs : P[p] = "Parked" => \E r \in RingIds : SleepsOn(R, M, p, r)
  /\ \A r \in RingIds : R[r].waiting => R[r].in_use /\ P[R[r].owner] = "Parked"
  /\ \A r, s \in RingIds :
       R[r].waiting /\ R[s].waiting /\ R[r].owner = R[s].owner => r = s
  /\ \A r \in RingIds : R[r].in_use => P[R[r].owner] # "Empty"

\* Subscription x is the present tenant's.
OfTenant(R, x) == x # None => R[x.ring].in_use /\ R[x.ring].reg = x.reg

\* The rings have the tenants they had in R.
SameTenants(R, S) == \A r \in RingIds :
  S[r].in_use = R[r].in_use /\ S[r].owner = R[r].owner /\ S[r].reg = R[r].reg

\* No more was dropped than n events.
DropsWithin(x, n) == x # None => x.dropped <= n

Types ==
  /\ proc \in [Procs -> {"Empty", "Ready", "Parked"}]
  /\ ring \in RingTables /\ mem \in Memories
  /\ routing \in [Slots -> Routings \cup {None}]
  /\ subs \in SubTables
  /\ drain \in RingIds \cup {None}
  /\ clock \in 0 .. MaxEvents /\ regs \in 0 .. MaxRegs

\* The inductive invariant.
RInv ==
  /\ Types
  /\ Agree(ring, mem, proc)
  /\ \A i \in SubSlots : OfTenant(ring, subs[i]) /\ DropsWithin(subs[i], clock)
  /\ drain # None => ring[drain].in_use

----------------------------------------------------------------------------
(* Indices that wrap.                                                      *)

LEMMA Numbers ==
  /\ NumProcs \in Nat /\ NumRings \in Nat /\ NumSubs \in Nat /\ NumSlots \in Nat
  /\ Entries \in Nat \ {0} /\ IndexMod \in Nat \ {0}
  /\ MaxRegs \in Nat /\ MaxEvents \in Nat
BY RingsAssumption

\* An index stays an index, and finds its place in the buffer.
LEMMA IndexType ==
  ASSUME NEW i \in Indices
  PROVE  NextIndex(i) \in Indices /\ i % Entries \in 0 .. Entries - 1
BY Numbers DEF Indices, NextIndex
LEMMA DivMod ==
  ASSUME NEW a \in Int, NEW b \in Nat \ {0}
  PROVE  /\ a % b \in 0 .. b - 1 /\ a \div b \in Int
         /\ a = b * (a \div b) + (a % b)
OBVIOUS

\* Quotient and remainder are unique.
LEMMA DivModUnique ==
  ASSUME NEW b \in Nat \ {0}, NEW p \in Int, NEW q \in Int,
         NEW r \in 0 .. b - 1, NEW s \in 0 .. b - 1, b * p + r = b * q + s
  PROVE  r = s
<1>1. ASSUME NEW x \in Int, NEW y \in Int, x < y PROVE b * x + b <= b * y
  <2>1. PICK k \in Nat : y = x + k + 1
    <3>1. y - x - 1 \in Nat /\ y = x + (y - x - 1) + 1
      BY <1>1
    <3> QED BY <3>1
  <2>2. b * y = b * x + b * k + b
    BY <2>1
  <2>3. b * k >= 0
    OBVIOUS
  <2> QED BY <2>2, <2>3
<1>2. ~(p < q) /\ ~(q < p)
  BY <1>1
<1> QED BY <1>2

\* a and a + b * k have the same remainder.
LEMMA ModShift ==
  ASSUME NEW a \in Int, NEW b \in Nat \ {0}, NEW k \in Int
  PROVE  (a + b * k) % b = a % b
<1> DEFINE c == a + b * k
           p == c \div b
           q == a \div b
<1>1. c \in Int /\ c % b \in 0 .. b - 1 /\ p \in Int /\ c = b * p + (c % b)
  BY DivMod
<1>2. a % b \in 0 .. b - 1 /\ q \in Int /\ a = b * q + (a % b)
  BY DivMod
<1>3. b * p + (c % b) = b * (q + k) + (a % b)
  <2> HIDE DEF p, q
  <2> QED BY <1>1, <1>2
<1>4. q + k \in Int
  BY <1>2
<1> HIDE DEF c, p, q
<1>5. c % b = a % b
  BY <1>1, <1>2, <1>3, <1>4, DivModUnique
<1> QED BY <1>5 DEF c

\* A remainder may be taken before or after another summand is added.
LEMMA ModSum ==
  ASSUME NEW a \in Int, NEW b \in Nat \ {0}, NEW d \in Int
  PROVE  ((a % b) + d) % b = (a + d) % b
<1> DEFINE m == a % b
           q == a \div b
           c == m + d
           n == b * q
<1>1. m \in Int /\ q \in Int /\ a = b * q + m
  BY DivMod
<1> HIDE DEF m, q
<1>2. c \in Int /\ n \in Int /\ a + d = c + n
  BY <1>1
<1>3. (c + n) % b = c % b
  <2> HIDE DEF c
  <2> QED BY <1>1, <1>2, ModShift
<1> HIDE DEF c, n
<1> QED BY <1>2, <1>3 DEF c, m

LEMMA ModSmall ==
  ASSUME NEW b \in Nat \ {0}, NEW a \in 0 .. b - 1
  PROVE  a % b = a
<1>1. a \in Int /\ a % b \in 0 .. b - 1 /\ a \div b \in Int /\ a = b * (a \div b) + (a % b)
  BY DivMod
<1>2. b * (a \div b) + (a % b) = b * 0 + a
  BY <1>1
<1> QED BY <1>1, <1>2, DivModUnique

\* The place in the buffer does not depend on where the index wrapped.
LEMMA PlaceWraps ==
  ASSUME NEW a \in Int
  PROVE  (a % IndexMod) % Entries = a % Entries
<1>1. IndexMod \in Nat \ {0} /\ Entries \in Nat \ {0} /\ IndexMod % Entries = 0
  BY RingsAssumption
<1>2. PICK k \in Int : IndexMod = Entries * k
  BY <1>1, DivMod
<1> DEFINE m == a % IndexMod
           q == a \div IndexMod
           n == k * q
           s == Entries * n
<1>3. m \in Int /\ q \in Int /\ a = IndexMod * q + m
  BY <1>1, DivMod
<1> HIDE DEF m, q
<1>4. n \in Int /\ IndexMod * q = s /\ s \in Int
  BY <1>1, <1>2, <1>3
<1> HIDE DEF n
<1>5. (m + s) % Entries = m % Entries
  BY <1>1, <1>3, <1>4, ModShift
<1> HIDE DEF s
<1>6. a = m + s
  BY <1>3, <1>4
<1> QED BY <1>5, <1>6 DEF m

\* Every entry between the indices has been written.
Filled(t, h, b) ==
  \A j \in 0 .. ((t - h) % IndexMod) - 1 : b[(h + j) % Entries] \in Completions

\* How the number of unreaped entries moves with either index.
LEMMA CountSteps ==
  ASSUME NEW t \in Indices, NEW h \in Indices
  PROVE  LET c == (t - h) % IndexMod IN
         /\ c \in 0 .. IndexMod - 1
         /\ (h + c) % Entries = t % Entries
         /\ (NextIndex(t) - h) % IndexMod = IF c + 1 = IndexMod THEN 0 ELSE c + 1
         /\ t # h => c > 0 /\ (t - NextIndex(h)) % IndexMod = c - 1
<1> DEFINE M == IndexMod
           c == (t - h) % M
<1>1. M \in Nat \ {0} /\ t \in 0 .. M - 1 /\ h \in 0 .. M - 1 /\ t - h \in Int
  BY Numbers DEF Indices
<1>2. c \in 0 .. M - 1
  BY <1>1, DivMod
<1>3. t % M = t /\ h % M = h
  BY <1>1, ModSmall
<1>4. (c + h) % M = t
  <2>1. (c + h) % M = ((t - h) + h) % M
    BY <1>1, ModSum
  <2>2. (t - h) + h = t
    BY <1>1
  <2> QED BY <1>3, <2>1, <2>2
<1>5. (h + c) % Entries = t % Entries
  <2>1. h + c \in Int /\ h + c = c + h
    BY <1>1, <1>2
  <2>2. ((h + c) % M) % Entries = (h + c) % Entries
    BY <2>1, PlaceWraps
  <2> QED BY <1>4, <2>1, <2>2
<1>6. \A x \in 0 .. M - 1 : x % M = x
  BY <1>1, ModSmall
<1>7. M % M = 0
  <2>1. (0 + M * 1) % M = 0 % M
    BY <1>1, ModShift
  <2>2. 0 % M = 0 /\ 0 + M * 1 = M
    BY <1>1, <1>6
  <2> QED BY <2>1, <2>2
<1>8. (NextIndex(t) - h) % M = (c + 1) % M
  <2>1. (((t + 1) % M) + (0 - h)) % M = ((t + 1) + (0 - h)) % M
    <3>1. t + 1 \in Int /\ 0 - h \in Int
      BY <1>1
    <3> QED BY <1>1, <3>1, ModSum
  <2>2. (c + 1) % M = ((t - h) + 1) % M
    BY <1>1, ModSum
  <2>3. (t + 1) + (0 - h) = (t - h) + 1
    BY <1>1
  <2>4. (t + 1) % M \in Int
    BY <1>1, DivMod
  <2>5. NextIndex(t) - h = ((t + 1) % M) + (0 - h)
    <3>1. \A x \in Int : x - h = x + (0 - h)
      BY <1>1
    <3> QED BY <2>4, <3>1 DEF NextIndex
  <2> QED BY <2>1, <2>2, <2>3, <2>5
<1>9. (c + 1) % M = IF c + 1 = M THEN 0 ELSE c + 1
  <2>1. c + 1 # M => c + 1 \in 0 .. M - 1
    BY <1>1, <1>2
  <2> HIDE DEF c
  <2> QED BY <1>6, <1>7, <2>1
<1>10. ASSUME t # h PROVE c > 0 /\ (t - NextIndex(h)) % M = c - 1
  <2>1. c # 0
    <3>1. ASSUME c = 0 PROVE FALSE
      <4>1. (0 + h) % M = t
        BY <1>4, <3>1
      <4>2. 0 + h = h
        BY <1>1
      <4> QED BY <1>3, <1>10, <4>1, <4>2
    <3> QED BY <3>1
  <2>2. c > 0 /\ c - 1 \in 0 .. M - 1
    <3> HIDE DEF c
    <3> QED BY <1>1, <1>2, <2>1
  <2>3. (t - NextIndex(h)) % M = ((t - h) - 1) % M
    <3>1. PICK k \in Int : (h + 1) % M = (h + 1) + M * k
      <4>1. h + 1 \in Int
        BY <1>1
      <4>2. /\ (h + 1) % M \in 0 .. M - 1 /\ (h + 1) \div M \in Int
            /\ h + 1 = M * ((h + 1) \div M) + ((h + 1) % M)
        BY <1>1, <4>1, DivMod
      <4> DEFINE q == (h + 1) \div M
                 x == (h + 1) % M
      <4> HIDE DEF q, x
      <4>3. q \in Int /\ x \in Int /\ h + 1 = M * q + x
        BY <1>1, <4>2 DEF q, x
      <4>4. x = (h + 1) + M * (0 - q) /\ 0 - q \in Int
        BY <1>1, <4>3
      <4> QED BY <4>4 DEF x
    <3> DEFINE y == (h + 1) % M
               z == (t - h) - 1
    <3> HIDE DEF y
    <3>2. t - y = z + M * (0 - k) /\ 0 - k \in Int /\ z \in Int
      BY <1>1, <3>1 DEF y
    <3> HIDE DEF z
    <3>3. (z + M * (0 - k)) % M = z % M
      BY <1>1, <3>2, ModShift
    <3> QED BY <3>2, <3>3 DEF y, z, NextIndex
  <2>4. (c + (0 - 1)) % M = ((t - h) + (0 - 1)) % M
    <3>1. 0 - 1 \in Int
      OBVIOUS
    <3> QED BY <1>1, <3>1, ModSum
  <2>5. c + (0 - 1) = c - 1 /\ (t - h) + (0 - 1) = (t - h) - 1
    <3> HIDE DEF c
    <3> QED BY <1>1, <1>2
  <2>6. (c - 1) % M = c - 1
    BY <1>6, <2>2
  <2> HIDE DEF c
  <2> QED BY <2>2, <2>3, <2>4, <2>5, <2>6 DEF c
<1> QED BY <1>2, <1>5, <1>8, <1>9, <1>10

LEMMA PostFills ==
  ASSUME NEW t \in Indices, NEW h \in Indices, NEW b \in Buffers, NEW e \in Completions,
         Filled(t, h, b)
  PROVE  Filled(NextIndex(t), h, [b EXCEPT ![t % Entries] = e])
<1> DEFINE c == (t - h) % IndexMod
           d == (NextIndex(t) - h) % IndexMod
<1>1. /\ c \in 0 .. IndexMod - 1
      /\ (h + c) % Entries = t % Entries
      /\ d = IF c + 1 = IndexMod THEN 0 ELSE c + 1
  BY CountSteps
<1>2. \A j \in 0 .. c - 1 : b[(h + j) % Entries] \in Completions
  BY DEF Filled
<1> HIDE DEF c, d
<1>3. ASSUME NEW j \in 0 .. d - 1
      PROVE  [b EXCEPT ![t % Entries] = e][(h + j) % Entries] \in Completions
  <2>1. j \in 0 .. c /\ h + j \in Int
    BY <1>1, <1>3, Numbers DEF Indices
  <2>2. (h + j) % Entries \in 0 .. Entries - 1
    BY <2>1, Numbers, DivMod
  <2>3. CASE j = c
    BY <1>1, <2>2, <2>3 DEF Buffers
  <2>4. CASE j # c
    <3>1. j \in 0 .. c - 1
      BY <1>1, <2>1, <2>4
    <3> QED BY <1>2, <2>2, <3>1 DEF Buffers
  <2> QED BY <2>3, <2>4
<1> QED BY <1>3 DEF Filled, d

LEMMA ReapFills ==
  ASSUME NEW t \in Indices, NEW h \in Indices, t # h, NEW b \in Buffers, NEW v,
         Filled(t, h, b), (t - h) % IndexMod > Entries => v = b[h % Entries]
  PROVE  /\ b[h % Entries] \in Completions
         /\ Filled(t, NextIndex(h), [b EXCEPT ![h % Entries] = v])
<1> DEFINE c == (t - h) % IndexMod
           d == (t - NextIndex(h)) % IndexMod
           w == [b EXCEPT ![h % Entries] = v]
<1>1. c \in 0 .. IndexMod - 1 /\ c > 0 /\ d = c - 1
  BY CountSteps
<1>2. /\ \A j \in 0 .. c - 1 : b[(h + j) % Entries] \in Completions
      /\ c > Entries => v = b[h % Entries]
  BY DEF Filled
<1> HIDE DEF c, d
<1>3. b[h % Entries] \in Completions
  <2>1. 0 \in 0 .. c - 1 /\ h + 0 = h
    BY <1>1, Numbers DEF Indices
  <2> QED BY <1>2, <2>1
<1>4. ASSUME NEW j \in 0 .. d - 1
      PROVE  w[(NextIndex(h) + j) % Entries] \in Completions
  <2> DEFINE i == h + (j + 1)
  <2>1. j + 1 \in 0 .. c - 1 /\ i \in Int /\ j \in Int /\ h + 1 \in Int
    BY <1>1, <1>4, Numbers DEF Indices
  <2>2. (NextIndex(h) + j) % Entries = i % Entries
    <3>1. (((h + 1) % IndexMod) + j) % IndexMod = ((h + 1) + j) % IndexMod
      BY <2>1, Numbers, ModSum
    <3>2. (h + 1) + j = i
      BY <2>1, Numbers DEF Indices
    <3>3. (i % IndexMod) % Entries = i % Entries
      BY <2>1, PlaceWraps
    <3>4. (h + 1) % IndexMod \in Int
      BY <2>1, Numbers, DivMod
    <3>5. NextIndex(h) + j \in Int /\ NextIndex(h) + j = ((h + 1) % IndexMod) + j
      BY <2>1, <3>4 DEF NextIndex
    <3>6. ((NextIndex(h) + j) % IndexMod) % Entries = (NextIndex(h) + j) % Entries
      BY <3>5, PlaceWraps
    <3> QED BY <3>1, <3>2, <3>3, <3>5, <3>6
  <2>3. i % Entries \in 0 .. Entries - 1 /\ b[i % Entries] \in Completions
    BY <1>2, <2>1, Numbers, DivMod
  <2>4. CASE i % Entries # h % Entries
    BY <2>2, <2>3, <2>4 DEF Buffers
  <2>5. CASE i % Entries = h % Entries
    <3>1. c > Entries
      <4>1. SUFFICES ASSUME j + 1 \in 1 .. Entries - 1 PROVE FALSE
        BY <1>1, <2>1, Numbers
      <4>2. PICK p \in Int, q \in Int, x \in 0 .. Entries - 1 :
              i = Entries * p + x /\ h = Entries * q + x
        <5>1. h \in Int
          BY Numbers DEF Indices
        <5> HIDE DEF i
        <5>2. /\ i % Entries \in 0 .. Entries - 1 /\ i \div Entries \in Int
              /\ i = Entries * (i \div Entries) + (i % Entries)
          BY <2>1, Numbers, DivMod
        <5>3. /\ h % Entries \in 0 .. Entries - 1 /\ h \div Entries \in Int
              /\ h = Entries * (h \div Entries) + (h % Entries)
          BY <5>1, Numbers, DivMod
        <5> QED BY <2>5, <5>2, <5>3
      <4>3. Entries * p + 0 = Entries * q + (j + 1)
        BY <4>2, <2>1, Numbers
      <4>4. 0 \in 0 .. Entries - 1 /\ j + 1 \in 0 .. Entries - 1 /\ Entries \in Nat \ {0}
        BY <4>1, Numbers
      <4>5. 0 = j + 1
        BY <4>3, <4>4, DivModUnique
      <4> QED BY <2>1, <4>1, <4>5
    <3> QED BY <1>2, <1>3, <2>2, <2>3, <2>5, <3>1 DEF Buffers
  <2> QED BY <2>4, <2>5
<1> QED BY <1>3, <1>4 DEF Filled, d

----------------------------------------------------------------------------
(* Posting.                                                                *)

\* What cq_post does to a ring in use.
LEMMA PostCells ==
  ASSUME NEW Q \in Postings, NEW r \in RingIds, NEW e \in Completions, Q.ring[r].in_use
  PROVE  LET N == CqPost(Q, r, e) IN
         /\ N \in Postings
         /\ N.wakes = IF Q.ring[r].waiting THEN Q.wakes \cup {Q.ring[r].owner} ELSE Q.wakes
         /\ \A s \in RingIds : s # r => N.ring[s] = Q.ring[s] /\ N.mem[s] = Q.mem[s]
         /\ ~N.ring[r].waiting
         /\ SameTenants(Q.ring, N.ring)
         /\ N.ring[r].cq_tail = NextIndex(Q.ring[r].cq_tail)
         /\ N.mem[r].sq = Q.mem[r].sq /\ N.mem[r].head = Q.mem[r].head
         /\ N.mem[r].buf = [Q.mem[r].buf EXCEPT ![Q.ring[r].cq_tail % Entries] = e]
<1> DEFINE t    == Q.ring[r].cq_tail
           ok   == Q.ring[r].clean /\ ~IsFull(Q, r) /\ e.reg = Q.ring[r].reg
           cell == [Q.ring[r] EXCEPT !.cq_tail = NextIndex(@), !.clean = ok]
           m    == [Q.mem[r] EXCEPT !.buf = [@ EXCEPT ![t % Entries] = e]]
           P    == [ring |-> [Q.ring EXCEPT ![r] = cell],
                    mem |-> [Q.mem EXCEPT ![r] = m], wakes |-> Q.wakes]
           N    == CqPost(Q, r, e)
<1>1. Q.ring \in RingTables /\ Q.mem \in Memories /\ Q.wakes \in SUBSET Procs
  BY DEF Postings
<1>2. Q.ring[r] \in RingRecords /\ Q.mem[r] \in Memory
  BY <1>1 DEF RingTables, Memories
<1>3. t \in Indices /\ NextIndex(t) \in Indices /\ t % Entries \in 0 .. Entries - 1
  BY <1>2, IndexType DEF RingRecords
<1>4. ok \in BOOLEAN
  BY <1>2 DEF RingRecords
<1> HIDE DEF ok
<1>5. cell \in RingRecords /\ cell.owner = Q.ring[r].owner /\ cell.reg = Q.ring[r].reg
      /\ cell.in_use = Q.ring[r].in_use /\ cell.waiting = Q.ring[r].waiting
  BY <1>2, <1>3, <1>4 DEF RingRecords
<1>6. m \in Memory
  BY <1>2, <1>3 DEF Memory
<1>7. /\ [Q.ring EXCEPT
             ![r].cq_tail = NextIndex(@),
             ![r].clean = @ /\ ~IsFull(Q, r) /\ e.reg = Q.ring[r].reg] = P.ring
      /\ [Q.mem EXCEPT ![r].buf[Q.ring[r].cq_tail % Entries] = e] = P.mem
  BY <1>1, <1>2 DEF RingTables, Memories, RingRecords, Memory, ok
<1>8. N = Wake(P, r)
  BY <1>7 DEF CqPost
<1>9. /\ N.ring = [Q.ring EXCEPT ![r] = [cell EXCEPT !.waiting = FALSE]]
      /\ N.mem = [Q.mem EXCEPT ![r] = m]
      /\ N.wakes = IF Q.ring[r].waiting THEN Q.wakes \cup {Q.ring[r].owner} ELSE Q.wakes
      /\ N = [ring |-> N.ring, mem |-> N.mem, wakes |-> N.wakes]
  <2>1. N = [ring |-> [P.ring EXCEPT ![r].waiting = FALSE], mem |-> P.mem,
             wakes |-> IF P.ring[r].waiting THEN P.wakes \cup {P.ring[r].owner} ELSE P.wakes]
    BY <1>8 DEF Wake
  <2>2. P.ring[r] = cell
    BY <1>1 DEF RingTables
  <2>3. [P.ring EXCEPT ![r].waiting = FALSE] = [Q.ring EXCEPT ![r] = [cell EXCEPT !.waiting = FALSE]]
    <3> HIDE DEF cell, m
    <3> QED BY <1>1 DEF RingTables
  <2> HIDE DEF cell, m, N
  <2> QED BY <1>5, <2>1, <2>2, <2>3
<1> QED
  <2> HIDE DEF cell, m, N
  <2>1. [cell EXCEPT !.waiting = FALSE] \in RingRecords
    BY <1>5 DEF RingRecords
  <2>2. N.ring \in RingTables /\ N.mem \in Memories /\ N.wakes \in SUBSET Procs
    BY <1>1, <1>2, <1>6, <1>9, <2>1 DEF RingTables, Memories, RingRecords
  <2>3. N \in Postings
    BY <1>9, <2>2 DEF Postings
  <2>4. /\ \A s \in RingIds : s # r => N.ring[s] = Q.ring[s] /\ N.mem[s] = Q.mem[s]
        /\ ~N.ring[r].waiting
        /\ SameTenants(Q.ring, N.ring)
    <3>1. N.ring[r] = [cell EXCEPT !.waiting = FALSE]
      BY <1>1, <1>9 DEF RingTables
    <3>2. ~N.ring[r].waiting /\ N.ring[r].owner = cell.owner /\ N.ring[r].reg = cell.reg
          /\ N.ring[r].in_use = cell.in_use
      BY <1>5, <3>1 DEF RingRecords
    <3>3. \A s \in RingIds : s # r => N.ring[s] = Q.ring[s] /\ N.mem[s] = Q.mem[s]
      BY <1>1, <1>9 DEF RingTables, Memories
    <3> QED BY <1>5, <3>2, <3>3 DEF SameTenants
  <2>5. N.ring[r].cq_tail = NextIndex(t)
    <3>1. cell.cq_tail = NextIndex(t)
      BY <1>2 DEF RingRecords, cell
    <3>2. N.ring[r] = [cell EXCEPT !.waiting = FALSE]
      BY <1>1, <1>9 DEF RingTables
    <3> QED BY <1>5, <3>1, <3>2 DEF RingRecords
  <2>6. /\ N.mem[r].sq = Q.mem[r].sq /\ N.mem[r].head = Q.mem[r].head
        /\ N.mem[r].buf = [Q.mem[r].buf EXCEPT ![t % Entries] = e]
    <3>1. N.mem[r] = m
      BY <1>1, <1>9 DEF Memories
    <3> QED BY <1>2, <3>1 DEF Memory, m
  <2> QED BY <1>9, <2>3, <2>4, <2>5, <2>6 DEF N


ProcTables == [Procs -> {"Empty", "Ready", "Parked"}]

LEMMA WokenType ==
  ASSUME NEW P \in ProcTables, NEW W
  PROVE  /\ Woken(P, W) \in ProcTables
         /\ \A p \in Procs : Woken(P, W)[p] = IF p \in W THEN "Ready" ELSE P[p]
BY DEF Woken, ProcTables

\* A completion wakes its reader and nobody else: rings and processes still agree.
LEMMA PostAgrees ==
  ASSUME NEW Q \in Postings, NEW r \in RingIds, NEW e \in Completions,
         NEW P \in ProcTables, Agree(Q.ring, Q.mem, Woken(P, Q.wakes))
  PROVE  LET N == CqPost(Q, r, e) IN
         /\ N \in Postings
         /\ Agree(N.ring, N.mem, Woken(P, N.wakes))
         /\ SameTenants(Q.ring, N.ring)
<1> DEFINE N == CqPost(Q, r, e)
<1>1. CASE ~Q.ring[r].in_use
  BY <1>1 DEF CqPost, SameTenants
<1>2. CASE Q.ring[r].in_use
  <2>1. /\ N \in Postings
        /\ N.wakes = IF Q.ring[r].waiting THEN Q.wakes \cup {Q.ring[r].owner} ELSE Q.wakes
        /\ \A s \in RingIds : s # r => N.ring[s] = Q.ring[s] /\ N.mem[s] = Q.mem[s]
        /\ ~N.ring[r].waiting
        /\ SameTenants(Q.ring, N.ring)
    BY <1>2, PostCells
  <2> HIDE DEF N
  <2> DEFINE V == Woken(P, Q.wakes)
             U == Woken(P, N.wakes)
  <2>2. /\ \A p \in Procs : V[p] = IF p \in Q.wakes THEN "Ready" ELSE P[p]
        /\ \A p \in Procs : U[p] = IF p \in N.wakes THEN "Ready" ELSE P[p]
    BY WokenType
  <2>3. \A s \in RingIds : Q.ring[s].owner \in Procs
    BY DEF Postings, RingTables, RingRecords
  <2>4. \A p \in Procs : U[p] = IF Q.ring[r].waiting /\ p = Q.ring[r].owner
                                THEN "Ready" ELSE V[p]
    BY <2>1, <2>2
  <2>5. /\ \A p \in Procs : V[p] = "Parked" =>
             \E s \in RingIds : SleepsOn(Q.ring, Q.mem, p, s)
        /\ \A s \in RingIds : Q.ring[s].waiting => Q.ring[s].in_use /\ V[Q.ring[s].owner] = "Parked"
        /\ \A x, s \in RingIds :
             Q.ring[x].waiting /\ Q.ring[s].waiting /\ Q.ring[x].owner = Q.ring[s].owner => x = s
        /\ \A s \in RingIds : Q.ring[s].in_use => V[Q.ring[s].owner] # "Empty"
    BY DEF Agree
  <2> HIDE DEF U, V
  <2>6. ASSUME NEW p \in Procs, U[p] = "Parked"
        PROVE  \E s \in RingIds : SleepsOn(N.ring, N.mem, p, s)
    <3>1. V[p] = "Parked" /\ ~(Q.ring[r].waiting /\ p = Q.ring[r].owner)
      BY <2>4, <2>6
    <3>2. PICK s \in RingIds : SleepsOn(Q.ring, Q.mem, p, s)
      BY <2>5, <3>1
    <3>3. s # r
      BY <3>1, <3>2 DEF SleepsOn
    <3> QED BY <2>1, <3>2, <3>3 DEF SleepsOn
  <2>7. ASSUME NEW s \in RingIds, N.ring[s].waiting
        PROVE  N.ring[s].in_use /\ U[N.ring[s].owner] = "Parked"
    <3>1. s # r /\ N.ring[s] = Q.ring[s]
      BY <2>1, <2>7
    <3>2. ~(Q.ring[r].waiting /\ Q.ring[s].owner = Q.ring[r].owner)
      BY <2>5, <2>7, <3>1
    <3> QED BY <2>3, <2>4, <2>5, <2>7, <3>1, <3>2
  <2>8. \A x, s \in RingIds :
          N.ring[x].waiting /\ N.ring[s].waiting /\ N.ring[x].owner = N.ring[s].owner => x = s
    BY <2>1, <2>5
  <2>9. ASSUME NEW s \in RingIds, N.ring[s].in_use PROVE U[N.ring[s].owner] # "Empty"
    <3>1. Q.ring[s].in_use /\ N.ring[s].owner = Q.ring[s].owner
      BY <2>1, <2>9 DEF SameTenants
    <3> QED BY <2>3, <2>4, <2>5, <3>1
  <2>10. Agree(N.ring, N.mem, U)
    BY <2>6, <2>7, <2>8, <2>9 DEF Agree
  <2> QED BY <2>1, <2>10 DEF N, U
<1> QED BY <1>1, <1>2

----------------------------------------------------------------------------
(* The queues an action starts from.                                       *)

LEMMA QueuesGood ==
  ASSUME RInv
  PROVE  /\ Queues \in Postings
         /\ Agree(Queues.ring, Queues.mem, Woken(proc, Queues.wakes))
         /\ SameTenants(ring, Queues.ring)
<1>1. Woken(proc, {}) = proc
  BY DEF RInv, Types, Woken
<1>2. Queues \in Postings
  BY DEF RInv, Types, Queues, Postings
<1>3. Queues.ring = ring /\ Queues.mem = mem /\ Queues.wakes = {}
  BY DEF Queues
<1> QED BY <1>1, <1>2, <1>3 DEF RInv, SameTenants

\* Taking a submission changes neither rings nor indices.
LEMMA ConsumedGood ==
  ASSUME RInv, drain # None, mem[drain].sq # <<>>
  PROVE  /\ Consumed \in Postings
         /\ Agree(Consumed.ring, Consumed.mem, Woken(proc, Consumed.wakes))
         /\ SameTenants(ring, Consumed.ring)
         /\ Entry \in Submissions
<1> DEFINE m == [mem EXCEPT ![drain].sq = Tail(@)]
<1>1. drain \in RingIds /\ mem \in Memories /\ mem[drain] \in Memory
  BY DEF RInv, Types, Memories
<1>2. Tail(mem[drain].sq) \in Seq(Submissions) /\ Entry \in Submissions
  BY <1>1 DEF Memory, Entry
<1>3. m \in Memories /\ \A r \in RingIds : m[r].head = mem[r].head
  BY <1>1, <1>2 DEF Memories, Memory
<1>4. Consumed = [ring |-> ring, mem |-> m, wakes |-> {}]
  BY DEF Consumed
<1> HIDE DEF m
<1>5. Consumed \in Postings
  BY <1>3, <1>4 DEF RInv, Types, Postings
<1>6. Woken(proc, {}) = proc
  BY DEF RInv, Types, Woken
<1>7. Agree(ring, m, proc)
  BY <1>3 DEF RInv, Agree, SleepsOn
<1> QED BY <1>2, <1>4, <1>5, <1>6, <1>7 DEF SameTenants

\* A posting of the invariant's kind leads back to it.
LEMMA PublishGood ==
  ASSUME RInv, NEW Q \in Postings, Agree(Q.ring, Q.mem, Woken(proc, Q.wakes)),
         SameTenants(ring, Q.ring), Publish(Q)
  PROVE  /\ proc' \in ProcTables /\ ring' \in RingTables /\ mem' \in Memories
         /\ Agree(ring', mem', proc')
         /\ SameTenants(ring, ring')
<1>1. proc' = Woken(proc, Q.wakes) /\ ring' = Q.ring /\ mem' = Q.mem
  BY DEF Publish, Woken
<1>2. proc \in ProcTables
  BY DEF RInv, Types, ProcTables
<1> QED BY <1>1, <1>2, WokenType DEF Postings

LEMMA TenantsKept ==
  ASSUME NEW R, NEW S, SameTenants(R, S), NEW x, x # None => x.ring \in RingIds, OfTenant(R, x)
  PROVE  OfTenant(S, x)
BY DEF SameTenants, OfTenant


----------------------------------------------------------------------------
(* An event, delivered to one subscription after the other.                *)

\* A non-empty set of numbers has a least element.
LEMMA LeastExists ==
  ASSUME NEW S \in SUBSET Nat, S # {}
  PROVE  \E s \in S : \A r \in S : s <= r
<1> DEFINE Less == {ss \in Nat \X Nat : ss[1] < ss[2]}
<1>1. IsWellFoundedOn(Less, Nat)
  BY NatLessThanWellFounded, Zenon DEF OpToRel
<1>2. \A x, y \in S : ~(<<y, x>> \in Less) => x <= y
  <2>1. ASSUME NEW x \in S, NEW y \in S, ~(x <= y)
        PROVE  <<y, x>> \in Less
    BY <2>1
  <2> QED BY <2>1
<1> HIDE DEF Less
<1>3. \E x \in S : \A y \in S : ~(<<y, x>> \in Less)
  BY <1>1, WFMin
<1> QED BY <1>2, <1>3

\* g is the delivery's course up to the n-th subscription.
Course(g, n) ==
  g = [i \in 0 .. n |->
         IF i = 0 THEN [q |-> Queues, s |-> subs] ELSE DeliverTo(g[i - 1], i - 1)]

LEMMA CourseExists == \E g : Course(g, NumSubs)
<1> DEFINE Bad == {n \in Nat : ~ \E g : Course(g, n)}
<1>1. SUFFICES ASSUME Bad # {} PROVE FALSE
  BY Numbers
<1>2. PICK n \in Bad : \A k \in Bad : n <= k
  BY <1>1, LeastExists
<1>3. n \in Nat /\ ~ \E g : Course(g, n)
  BY <1>2
<1>4. CASE n = 0
  <2> DEFINE g == [i \in 0 .. 0 |-> [q |-> Queues, s |-> subs]]
  <2>1. Course(g, 0)
    BY DEF Course
  <2> QED BY <1>3, <1>4, <2>1
<1>5. CASE n # 0
  <2>1. n - 1 \in Nat /\ n - 1 \notin Bad
    BY <1>2, <1>3, <1>5
  <2>2. PICK g : Course(g, n - 1)
    BY <2>1
  <2> DEFINE h == [i \in 0 .. n |-> IF i = n THEN DeliverTo(g[n - 1], n - 1) ELSE g[i]]
  <2>3. ASSUME NEW i \in 0 .. n
        PROVE  h[i] = IF i = 0 THEN [q |-> Queues, s |-> subs] ELSE DeliverTo(h[i - 1], i - 1)
    <3>1. CASE i = n
      BY <1>3, <1>5, <3>1
    <3>2. CASE i # n
      <4>1. i \in 0 .. n - 1 /\ h[i] = g[i]
        BY <1>3, <3>2
      <4>2. g[i] = IF i = 0 THEN [q |-> Queues, s |-> subs] ELSE DeliverTo(g[i - 1], i - 1)
        BY <2>2, <4>1 DEF Course
      <4>3. i # 0 => i - 1 \in 0 .. n /\ i - 1 # n /\ h[i - 1] = g[i - 1]
        BY <1>3, <4>1
      <4> QED BY <4>1, <4>2, <4>3
    <3> QED BY <3>1, <3>2
  <2>4. h = [i \in 0 .. n |-> h[i]]
    OBVIOUS
  <2> HIDE DEF h
  <2>5. Course(h, n)
    BY <2>3, <2>4 DEF Course
  <2> QED BY <1>3, <2>5
<1> QED BY <1>4, <1>5

LEMMA DeliveredSteps == Course(Delivered, NumSubs)
<1>1. Delivered = CHOOSE g : Course(g, NumSubs)
  BY DEF Delivered, Course
<1> QED BY <1>1, CourseExists


\* What holds once the first n subscriptions have had the event.
Delivering(D, n) ==
  /\ D.q \in Postings
  /\ Agree(D.q.ring, D.q.mem, Woken(proc, D.q.wakes))
  /\ SameTenants(ring, D.q.ring)
  /\ D.s \in SubTables
  /\ \A j \in SubSlots : /\ OfTenant(ring, D.s[j]) /\ DropsWithin(D.s[j], clock + 1)
                         /\ j >= n => D.s[j] = subs[j]
  /\ D = [q |-> D.q, s |-> D.s]

\* The table after subscription i has been set to x.
LEMMA SubStored ==
  ASSUME NEW T \in SubTables, NEW i \in SubSlots, NEW x \in SubRecords, NEW n \in Nat,
         \A j \in SubSlots : /\ OfTenant(ring, T[j]) /\ DropsWithin(T[j], n)
                             /\ j >= i => T[j] = subs[j],
         OfTenant(ring, x), DropsWithin(x, n)
  PROVE  LET U == [T EXCEPT ![i] = x] IN
         /\ U \in SubTables
         /\ \A j \in SubSlots : /\ OfTenant(ring, U[j]) /\ DropsWithin(U[j], n)
                                /\ j >= i + 1 => U[j] = subs[j]
BY Numbers DEF SubTables, SubSlots

LEMMA DeliverToGood ==
  ASSUME RInv, clock < MaxEvents, NEW i \in SubSlots, NEW D, Delivering(D, i)
  PROVE  Delivering(DeliverTo(D, i), i + 1)
<1> DEFINE sub == subs[i]
<1>1. /\ clock \in Nat /\ i \in Nat /\ subs \in SubTables /\ proc \in ProcTables
      /\ OfTenant(ring, sub) /\ DropsWithin(sub, clock)
  BY Numbers DEF RInv, Types, ProcTables, SubSlots
<1>2. /\ D.q \in Postings /\ D.s \in SubTables /\ D = [q |-> D.q, s |-> D.s]
      /\ Agree(D.q.ring, D.q.mem, Woken(proc, D.q.wakes)) /\ SameTenants(ring, D.q.ring)
      /\ \A j \in SubSlots : /\ OfTenant(ring, D.s[j]) /\ DropsWithin(D.s[j], clock + 1)
                             /\ j >= i => D.s[j] = subs[j]
  BY DEF Delivering
<1>3. CASE sub = None
  <2>1. DeliverTo(D, i) = D
    BY <1>3 DEF DeliverTo
  <2>2. \A j \in SubSlots : j >= i + 1 => j >= i
    BY <1>1, Numbers DEF SubSlots
  <2> QED BY <1>2, <2>1, <2>2 DEF Delivering
<1>4. ASSUME sub # None PROVE sub \in SubRecords /\ D.s[i] = sub
  BY <1>1, <1>2, <1>4 DEF SubTables
<1>5. CASE sub # None /\ D.q.ring[sub.ring].in_use /\ IsFull(D.q, sub.ring)
  <2> DEFINE x == CountDrop(sub)
             U == [D.s EXCEPT ![i] = x]
  <2>1. /\ x \in SubRecords /\ x.ring = sub.ring /\ x.reg = sub.reg
        /\ x.dropped = sub.dropped + 1 /\ sub.dropped \in Nat
    BY <1>1, <1>4, <1>5, Numbers DEF CountDrop, SubRecords, DropsWithin
  <2> HIDE DEF x
  <2>2. OfTenant(ring, x) /\ DropsWithin(x, clock + 1)
    BY <1>1, <1>5, <2>1 DEF OfTenant, DropsWithin
  <2>3. /\ U \in SubTables
        /\ \A j \in SubSlots : /\ OfTenant(ring, U[j]) /\ DropsWithin(U[j], clock + 1)
                               /\ j >= i + 1 => U[j] = subs[j]
    BY <1>1, <1>2, <2>1, <2>2, SubStored
  <2>4. DeliverTo(D, i) = [q |-> D.q, s |-> U]
    BY <1>2, <1>5 DEF DeliverTo, x
  <2> HIDE DEF U
  <2> QED BY <1>2, <2>3, <2>4 DEF Delivering
<1>6. CASE sub # None /\ ~(D.q.ring[sub.ring].in_use /\ IsFull(D.q, sub.ring))
  <2> DEFINE e == EventFor(sub)
             N == CqPost(D.q, sub.ring, e)
             x == [sub EXCEPT !.dropped = 0]
             U == [D.s EXCEPT ![i] = x]
  <2>1. sub.ring \in RingIds /\ e \in Completions
    BY <1>1, <1>4, <1>6, Numbers DEF SubRecords, EventFor, Completions
  <2> HIDE DEF e
  <2>2. /\ N \in Postings
        /\ Agree(N.ring, N.mem, Woken(proc, N.wakes))
        /\ SameTenants(D.q.ring, N.ring)
    BY <1>1, <1>2, <2>1, PostAgrees
  <2>3. x \in SubRecords /\ x.ring = sub.ring /\ x.reg = sub.reg /\ x.dropped = 0
    BY <1>4, <1>6, Numbers DEF SubRecords
  <2>4. DeliverTo(D, i) = [q |-> N, s |-> U]
    <3>1. [D.s EXCEPT ![i].dropped = 0] = U
      BY <1>2, <1>4, <1>6
    <3> QED BY <1>6, <3>1 DEF DeliverTo, e
  <2> HIDE DEF x, N
  <2>5. OfTenant(ring, x) /\ DropsWithin(x, clock + 1)
    BY <1>1, <1>6, <2>3 DEF OfTenant, DropsWithin
  <2>6. /\ U \in SubTables
        /\ \A j \in SubSlots : /\ OfTenant(ring, U[j]) /\ DropsWithin(U[j], clock + 1)
                               /\ j >= i + 1 => U[j] = subs[j]
    BY <1>1, <1>2, <2>3, <2>5, SubStored
  <2>7. SameTenants(ring, N.ring)
    BY <1>2, <2>2 DEF SameTenants
  <2> HIDE DEF U
  <2> QED BY <2>2, <2>4, <2>6, <2>7 DEF Delivering
<1> QED BY <1>3, <1>5, <1>6

LEMMA DeliveredGood ==
  ASSUME RInv, clock < MaxEvents
  PROVE  \A n \in 0 .. NumSubs : Delivering(Delivered[n], n)
<1> DEFINE Bad == {n \in 0 .. NumSubs : ~Delivering(Delivered[n], n)}
<1>1. \A n \in 0 .. NumSubs :
        Delivered[n] = IF n = 0 THEN [q |-> Queues, s |-> subs]
                       ELSE DeliverTo(Delivered[n - 1], n - 1)
  BY DeliveredSteps DEF Course
<1>2. SUFFICES ASSUME Bad # {} PROVE FALSE
  BY Numbers
<1>3. PICK n \in Bad : \A k \in Bad : n <= k
  <2>1. Bad \in SUBSET Nat
    OBVIOUS
  <2> QED BY <1>2, <2>1, LeastExists
<1>4. n \in 0 .. NumSubs /\ ~Delivering(Delivered[n], n)
  BY <1>3
<1>5. CASE n = 0
  <2>1. Delivered[n] = [q |-> Queues, s |-> subs]
    BY <1>1, <1>4, <1>5
  <2>2. subs \in SubTables /\ clock \in Nat
    BY Numbers DEF RInv, Types
  <2>3. ASSUME NEW j \in SubSlots PROVE OfTenant(ring, subs[j]) /\ DropsWithin(subs[j], clock + 1)
    <3>1. subs[j] # None => subs[j].dropped \in Nat
      BY <2>2, Numbers DEF SubTables, SubRecords
    <3> QED BY <2>2, <3>1 DEF RInv, DropsWithin
  <2>4. Delivering([q |-> Queues, s |-> subs], n)
    BY <2>2, <2>3, QueuesGood DEF Delivering
  <2> QED BY <1>4, <2>1, <2>4
<1>6. CASE n # 0
  <2>1. n - 1 \in 0 .. NumSubs /\ n - 1 \in SubSlots /\ n - 1 < n /\ (n - 1) + 1 = n
    BY <1>4, <1>6, Numbers DEF SubSlots
  <2>2. Delivering(Delivered[n - 1], n - 1)
    BY <1>3, <2>1
  <2>3. Delivering(DeliverTo(Delivered[n - 1], n - 1), n)
    <3>1. Delivering(DeliverTo(Delivered[n - 1], n - 1), (n - 1) + 1)
      BY ONLY RInv, clock < MaxEvents, <2>1, <2>2, DeliverToGood
    <3> QED BY <2>1, <3>1
  <2>4. Delivered[n] = DeliverTo(Delivered[n - 1], n - 1)
    BY <1>1, <1>4, <1>6
  <2> QED BY <1>4, <2>3, <2>4
<1> QED BY <1>5, <1>6


----------------------------------------------------------------------------
(* The actions.                                                            *)

\* An action that ends with a posting.
LEMMA PostedRInv ==
  ASSUME RInv, NEW Q \in Postings, Agree(Q.ring, Q.mem, Woken(proc, Q.wakes)),
         SameTenants(ring, Q.ring), Publish(Q),
         routing' \in [Slots -> Routings \cup {None}], subs' \in SubTables,
         \A i \in SubSlots : OfTenant(ring, subs'[i]) /\ DropsWithin(subs'[i], clock'),
         drain' = drain, clock' \in 0 .. MaxEvents, regs' = regs
  PROVE  RInv'
<1>1. /\ proc' \in ProcTables /\ ring' \in RingTables /\ mem' \in Memories
      /\ Agree(ring', mem', proc')
      /\ SameTenants(ring, ring')
  BY PublishGood
<1>2. Types'
  BY <1>1 DEF RInv, Types, ProcTables
<1>3. ASSUME NEW i \in SubSlots PROVE OfTenant(ring', subs'[i])
  <2>1. subs'[i] # None => subs'[i].ring \in RingIds
    BY DEF SubTables, SubRecords
  <2> QED BY <1>1, <2>1, TenantsKept
<1>4. drain' # None => ring'[drain'].in_use
  BY <1>1 DEF RInv, Types, SameTenants
<1> QED BY <1>1, <1>2, <1>3, <1>4 DEF RInv

LEMMA PostIoRInv ==
  ASSUME RInv, drain # None, mem[drain].sq # <<>>, PostIo PROVE RInv'
<1>1. /\ Consumed \in Postings
      /\ Agree(Consumed.ring, Consumed.mem, Woken(proc, Consumed.wakes))
      /\ SameTenants(ring, Consumed.ring)
      /\ Entry \in Submissions
  BY ConsumedGood
<1>2. /\ proc \in ProcTables /\ drain \in RingIds /\ ring[drain].reg \in 0 .. MaxRegs
      /\ routing \in [Slots -> Routings \cup {None}] /\ subs \in SubTables
      /\ clock \in 0 .. MaxEvents
      /\ \A i \in SubSlots : OfTenant(ring, subs[i]) /\ DropsWithin(subs[i], clock)
  BY DEF RInv, Types, ProcTables, RingTables, RingRecords
<1>3. Target \in Routings /\ Done(Target) \in Completions
  BY <1>1, <1>2, Numbers DEF Target, Routings, Submissions, Done, Completions
<1>4. subs' = subs /\ drain' = drain /\ clock' = clock /\ regs' = regs
  BY DEF PostIo, ghostVars
<1>5. CASE /\ routing' = [routing EXCEPT ![free[Len(free)]] = Target]
           /\ Publish(Consumed)
  <2>1. routing' \in [Slots -> Routings \cup {None}]
    BY <1>2, <1>3, <1>5
  <2> QED BY <1>1, <1>2, <1>4, <1>5, <2>1, PostedRInv
<1>6. CASE /\ Publish(CqPost(Consumed, drain, Done(Target)))
           /\ UNCHANGED routing
  <2> DEFINE N == CqPost(Consumed, drain, Done(Target))
  <2>1. /\ N \in Postings
        /\ Agree(N.ring, N.mem, Woken(proc, N.wakes))
        /\ SameTenants(Consumed.ring, N.ring)
    BY <1>1, <1>2, <1>3, PostAgrees
  <2>2. Publish(N)
    BY <1>6
  <2> HIDE DEF N
  <2>3. SameTenants(ring, N.ring)
    BY <1>1, <2>1 DEF SameTenants
  <2> QED BY <1>2, <1>4, <1>6, <2>1, <2>2, <2>3, PostedRInv
<1> QED BY <1>5, <1>6 DEF PostIo

LEMMA PostEventSubRInv ==
  ASSUME RInv, drain # None, mem[drain].sq # <<>>, PostEventSub PROVE RInv'
<1>1. /\ Consumed \in Postings
      /\ Agree(Consumed.ring, Consumed.mem, Woken(proc, Consumed.wakes))
      /\ SameTenants(ring, Consumed.ring)
      /\ Entry \in Submissions
  BY ConsumedGood
<1>2. /\ proc \in ProcTables /\ drain \in RingIds /\ ring[drain].reg \in 0 .. MaxRegs
      /\ routing \in [Slots -> Routings \cup {None}] /\ subs \in SubTables
      /\ clock \in 0 .. MaxEvents /\ ring[drain].in_use
      /\ \A i \in SubSlots : OfTenant(ring, subs[i]) /\ DropsWithin(subs[i], clock)
  BY DEF RInv, Types, ProcTables, RingTables, RingRecords
<1>3. SubErr(Target) \in Completions
  <2>1. Target.ud \in Cookies /\ Target.reg \in 0 .. MaxRegs
    BY <1>1, <1>2 DEF Target, Submissions
  <2>2. Done(Target) \in Completions
    BY <2>1, Numbers DEF Done, Completions
  <2> QED BY <2>2 DEF SubErr, Completions
<1>4. routing' = routing /\ drain' = drain /\ clock' = clock /\ regs' = regs
  BY DEF PostEventSub
<1>5. CASE /\ \E i \in FreeSubs :
                subs' = [subs EXCEPT ![i] = [ring |-> drain, ud |-> Entry.ud, dropped |-> 0,
                                              reg |-> ring[drain].reg]]
           /\ Publish(Consumed)
  <2> DEFINE x == [ring |-> drain, ud |-> Entry.ud, dropped |-> 0, reg |-> ring[drain].reg]
  <2>1. PICK i \in FreeSubs : subs' = [subs EXCEPT ![i] = x]
    BY <1>5
  <2>2. x \in SubRecords /\ OfTenant(ring, x) /\ DropsWithin(x, clock)
    BY <1>1, <1>2, Numbers DEF Submissions, SubRecords, OfTenant, DropsWithin
  <2> HIDE DEF x
  <2>3. /\ subs' \in SubTables
        /\ \A j \in SubSlots : OfTenant(ring, subs'[j]) /\ DropsWithin(subs'[j], clock)
    BY <1>2, <2>1, <2>2 DEF SubTables, FreeSubs
  <2> QED BY <1>1, <1>2, <1>4, <1>5, <2>3, PostedRInv
<1>6. CASE /\ Publish(CqPost(Consumed, drain, SubErr(Target)))
           /\ UNCHANGED subs
  <2> DEFINE N == CqPost(Consumed, drain, SubErr(Target))
  <2>1. /\ N \in Postings
        /\ Agree(N.ring, N.mem, Woken(proc, N.wakes))
        /\ SameTenants(Consumed.ring, N.ring)
    BY <1>1, <1>2, <1>3, PostAgrees
  <2>2. Publish(N)
    BY <1>6
  <2> HIDE DEF N
  <2>3. SameTenants(ring, N.ring)
    BY <1>1, <2>1 DEF SameTenants
  <2> QED BY <1>2, <1>4, <1>6, <2>1, <2>2, <2>3, PostedRInv
<1> QED BY <1>5, <1>6 DEF PostEventSub

LEMMA PostCancelRInv ==
  ASSUME RInv, drain # None, mem[drain].sq # <<>>, PostCancel PROVE RInv'
<1>1. /\ Consumed \in Postings
      /\ Agree(Consumed.ring, Consumed.mem, Woken(proc, Consumed.wakes))
      /\ SameTenants(ring, Consumed.ring)
  BY ConsumedGood
<1>2. /\ routing' = routing /\ drain' = drain /\ clock' = clock /\ regs' = regs
      /\ Publish(Consumed)
      /\ \A i \in SubSlots : subs'[i] = None \/ subs'[i] = subs[i]
      /\ subs' \in SubTables
      /\ routing \in [Slots -> Routings \cup {None}] /\ clock \in 0 .. MaxEvents
  BY DEF PostCancel, ghostVars, RInv, Types, SubTables
<1>3. \A i \in SubSlots : OfTenant(ring, subs'[i]) /\ DropsWithin(subs'[i], clock)
  BY <1>2 DEF RInv, OfTenant, DropsWithin
<1> QED BY <1>1, <1>2, <1>3, PostedRInv

LEMMA CompleteIrqRInv ==
  ASSUME RInv, CompleteIrq PROVE RInv'
<1>1. PICK i \in Slots :
        /\ routing[i] # None
        /\ routing' = [routing EXCEPT ![i] = None]
        /\ Publish(CqPost(Queues, routing[i].ring, Done(routing[i])))
        /\ UNCHANGED <<subs, drain, ghostVars>>
  BY DEF CompleteIrq
<1>2. /\ proc \in ProcTables /\ routing \in [Slots -> Routings \cup {None}]
      /\ subs \in SubTables /\ clock \in 0 .. MaxEvents
      /\ \A j \in SubSlots : OfTenant(ring, subs[j]) /\ DropsWithin(subs[j], clock)
  BY DEF RInv, Types, ProcTables
<1> DEFINE t == routing[i]
           N == CqPost(Queues, t.ring, Done(t))
<1>3. t.ring \in RingIds /\ Done(t) \in Completions
  BY <1>1, <1>2, Numbers DEF Routings, Done, Completions
<1>4. /\ N \in Postings
      /\ Agree(N.ring, N.mem, Woken(proc, N.wakes))
      /\ SameTenants(Queues.ring, N.ring)
  BY <1>2, <1>3, QueuesGood, PostAgrees
<1>5. Publish(N)
  BY <1>1
<1> HIDE DEF N
<1>6. SameTenants(ring, N.ring)
  BY <1>4, QueuesGood DEF SameTenants
<1>7. routing' \in [Slots -> Routings \cup {None}] /\ subs' = subs /\ drain' = drain
      /\ clock' = clock /\ regs' = regs
  BY <1>1, <1>2 DEF ghostVars
<1> QED BY <1>2, <1>4, <1>5, <1>6, <1>7, PostedRInv

LEMMA RecordRInv ==
  ASSUME RInv, Record PROVE RInv'
<1> DEFINE D == Delivered[NumSubs]
<1>1. clock < MaxEvents /\ clock' = clock + 1 /\ subs' = D.s /\ Publish(D.q)
      /\ routing' = routing /\ drain' = drain /\ regs' = regs
  BY DEF Record
<1>2. Delivering(D, NumSubs)
  BY <1>1, Numbers, DeliveredGood
<1> HIDE DEF D
<1>3. clock' \in 0 .. MaxEvents /\ routing' \in [Slots -> Routings \cup {None}]
  BY <1>1, Numbers DEF RInv, Types
<1> QED BY <1>1, <1>2, <1>3, PostedRInv DEF Delivering


\* What a process does in its own memory: the rings are not touched, and a head
\* moves only where nobody sleeps.
LEMMA UserRInv ==
  ASSUME RInv, NEW p \in Procs, NEW r \in RingIds, UserStep(p, r) PROVE RInv'
<1>1. /\ mem \in Memories /\ mem[r] \in Memory /\ ring \in RingTables
      /\ Agree(ring, mem, proc)
  BY DEF RInv, Types, Memories
<1>2. CanUse(p, r)
  BY DEF UserStep, Produce, Reap
<1>3. UNCHANGED <<proc, ring, kernelVars, clock, regs>>
  BY DEF UserStep, Produce, Reap
<1>4. mem' \in Memories /\ \A s \in RingIds : s # r => mem'[s] = mem[s]
  <2>1. CASE Produce(p, r)
    <3>1. PICK s \in Submissions : mem' = [mem EXCEPT ![r].sq = Append(@, s)]
      BY <2>1 DEF Produce
    <3>2. Append(mem[r].sq, s) \in Seq(Submissions)
      BY <1>1 DEF Memory
    <3> QED BY <1>1, <3>1, <3>2 DEF Memories, Memory
  <2>2. CASE Reap(p, r)
    <3> DEFINE h == mem[r].head
               v == IF UnreapedCount(Queues, r) > Entries THEN mem[r].buf[h % Entries] ELSE None
               b == [mem[r].buf EXCEPT ![h % Entries] = v]
    <3>1. mem' = [mem EXCEPT ![r] = [sq |-> mem[r].sq, head |-> NextIndex(h), buf |-> b]]
      BY <2>2 DEF Reap
    <3>2. h \in Indices /\ mem[r].buf \in Buffers
      BY <1>1 DEF Memory, Buffers
    <3>3. NextIndex(h) \in Indices /\ h % Entries \in 0 .. Entries - 1
      BY <3>2, IndexType
    <3>4. b \in Buffers
      BY <3>2, <3>3 DEF Buffers
    <3> HIDE DEF b, h
    <3>5. [sq |-> mem[r].sq, head |-> NextIndex(h), buf |-> b] \in Memory
      BY <1>1, <3>3, <3>4 DEF Memory, Buffers
    <3> QED BY <1>1, <3>1, <3>5 DEF Memories
  <2> QED BY <2>1, <2>2 DEF UserStep
<1>5. ~ring[r].waiting
  BY <1>1, <1>2 DEF CanUse, Agree
<1>6. Agree(ring, mem', proc)
  BY <1>1, <1>4, <1>5 DEF Agree, SleepsOn
<1> QED BY <1>3, <1>4, <1>6 DEF RInv, Types, kernelVars

\* A new tenant takes a ring that has no subscription.
LEMMA RegisterRInv ==
  ASSUME RInv, NEW p \in Procs, RingRegister(p) PROVE RInv'
<1>1. PICK r \in FreeRings :
        /\ ring' = [ring EXCEPT ![r] = [EmptyRing EXCEPT !.in_use = TRUE, !.owner = p,
                                                         !.reg = regs + 1]]
        /\ mem' = [mem EXCEPT ![r] = FreshMemory]
  BY DEF RingRegister
<1>2. /\ r \in RingIds /\ ~ring[r].in_use /\ proc[p] = "Ready" /\ drain = None
      /\ regs' = regs + 1 /\ regs < MaxRegs
      /\ UNCHANGED <<proc, kernelVars, clock>>
  BY <1>1 DEF RingRegister, FreeRings
<1>3. /\ ring \in RingTables /\ mem \in Memories /\ regs \in 0 .. MaxRegs
      /\ Agree(ring, mem, proc) /\ subs \in SubTables
  BY DEF RInv, Types
<1>4. 0 \in Indices /\ 0 .. Entries - 1 \subseteq Nat /\ 0 \in Procs /\ regs + 1 \in 0 .. MaxRegs
  BY <1>2, <1>3, RingsAssumption DEF Indices, Procs
<1> DEFINE x == [EmptyRing EXCEPT !.in_use = TRUE, !.owner = p, !.reg = regs + 1]
<1>5. x \in RingRecords /\ x.in_use /\ x.owner = p /\ ~x.waiting
  BY <1>4 DEF EmptyRing, RingRecords
<1>6. FreshMemory \in Memory
  BY <1>4 DEF FreshMemory, Memory
<1> HIDE DEF x
<1>7. /\ ring' \in RingTables /\ mem' \in Memories /\ ring'[r] = x
      /\ \A s \in RingIds : s # r => ring'[s] = ring[s] /\ mem'[s] = mem[s]
  BY <1>1, <1>2, <1>3, <1>5, <1>6 DEF RingTables, Memories, x
<1>8. Agree(ring', mem', proc')
  BY <1>2, <1>3, <1>5, <1>7 DEF Agree, SleepsOn
<1>9. ASSUME NEW i \in SubSlots PROVE OfTenant(ring', subs[i])
  <2>1. subs[i] # None => subs[i].ring \in RingIds /\ ring[subs[i].ring].in_use
    BY <1>3 DEF RInv, OfTenant, SubTables, SubRecords
  <2> QED BY <1>2, <1>7, <2>1 DEF RInv, OfTenant
<1> QED BY <1>2, <1>4, <1>7, <1>8, <1>9 DEF RInv, Types, kernelVars

\* release takes the subscriptions along.
LEMMA ReleaseRInv ==
  ASSUME RInv, NEW R \in SUBSET RingIds, Release(R), drain = None,
         \A r \in R : ~ring[r].waiting,
         proc' \in ProcTables,
         \A p \in Procs : proc'[p] = "Parked" <=> proc[p] = "Parked",
         \A r \in RingIds \ R : ring[r].in_use => proc'[ring[r].owner] # "Empty"
  PROVE  RInv'
<1>1. /\ ring' = [r \in RingIds |-> IF r \in R THEN EmptyRing ELSE ring[r]]
      /\ mem' = [r \in RingIds |-> IF r \in R THEN FreshMemory ELSE mem[r]]
      /\ subs' = [i \in SubSlots |-> IF subs[i] # None /\ subs[i].ring \in R THEN None ELSE subs[i]]
      /\ UNCHANGED <<routing, free, drain, clock, regs>>
  BY DEF Release, ReleasedSubs
<1>2. /\ ring \in RingTables /\ mem \in Memories
      /\ Agree(ring, mem, proc) /\ subs \in SubTables
  BY DEF RInv, Types
<1>3. 0 \in Indices /\ 0 .. Entries - 1 \subseteq Nat /\ 0 \in Procs /\ 0 \in 0 .. MaxRegs
  BY RingsAssumption DEF Indices, Procs
<1>4. EmptyRing \in RingRecords /\ ~EmptyRing.waiting /\ ~EmptyRing.in_use
  BY <1>3 DEF EmptyRing, RingRecords
<1>5. FreshMemory \in Memory
  BY <1>3 DEF FreshMemory, Memory
<1>6. /\ ring' \in RingTables /\ mem' \in Memories
      /\ \A r \in RingIds : r \in R => ring'[r] = EmptyRing
      /\ \A r \in RingIds : r \notin R => ring'[r] = ring[r] /\ mem'[r] = mem[r]
  BY <1>1, <1>2, <1>4, <1>5 DEF RingTables, Memories
<1>7. \A r \in RingIds : ring[r].owner \in Procs
  BY <1>2 DEF RingTables, RingRecords
<1>8. Agree(ring', mem', proc')
  BY <1>2, <1>4, <1>6, <1>7 DEF Agree, SleepsOn
<1>9. subs' \in SubTables
  BY <1>1, <1>2 DEF SubTables
<1>10. ASSUME NEW i \in SubSlots PROVE OfTenant(ring', subs'[i]) /\ DropsWithin(subs'[i], clock)
  <2>1. subs[i] # None => subs[i].ring \in RingIds
    BY <1>2 DEF SubTables, SubRecords
  <2>2. OfTenant(ring, subs[i]) /\ DropsWithin(subs[i], clock)
    BY DEF RInv
  <2>3. subs'[i] = IF subs[i] # None /\ subs[i].ring \in R THEN None ELSE subs[i]
    BY <1>1
  <2> QED BY <1>6, <2>1, <2>2, <2>3 DEF OfTenant, DropsWithin
<1> QED BY <1>1, <1>6, <1>8, <1>9, <1>10 DEF RInv, Types, ProcTables

LEMMA SystemCallRInv ==
  ASSUME RInv, NEW p \in Procs, SystemCall(p) PROVE RInv'
<1>1. /\ ring \in RingTables /\ mem \in Memories /\ proc \in ProcTables
      /\ Agree(ring, mem, proc) /\ subs \in SubTables
  BY DEF RInv, Types, ProcTables
<1>2. CASE RingRegister(p)
  BY <1>2, RegisterRInv
<1>3. CASE Exit(p)
  <2>1. /\ proc[p] = "Ready" /\ drain = None /\ Release(Owned(p))
        /\ proc' = [proc EXCEPT ![p] = "Empty"]
    BY <1>3 DEF Exit
  <2>2. Owned(p) \in SUBSET RingIds /\ \A r \in Owned(p) : ~ring[r].waiting
    BY <1>1, <2>1 DEF Owned, Agree
  <2>3. /\ proc' \in ProcTables
        /\ \A q \in Procs : proc'[q] = "Parked" <=> proc[q] = "Parked"
    BY <1>1, <2>1 DEF ProcTables
  <2>4. ASSUME NEW r \in RingIds \ Owned(p), ring[r].in_use
        PROVE  proc'[ring[r].owner] # "Empty"
    <3>1. ring[r].owner # p /\ ring[r].owner \in Procs
      BY <1>1, <2>4 DEF Owned, RingTables, RingRecords
    <3> QED BY <1>1, <2>1, <2>4, <3>1 DEF ProcTables, Agree
  <2> QED BY <2>1, <2>2, <2>3, <2>4, ReleaseRInv
<1>4. CASE Spawn(p)
  <2>1. /\ proc[p] = "Empty" /\ proc' = [proc EXCEPT ![p] = "Ready"]
        /\ UNCHANGED <<ring, mem, kernelVars, ghostVars>>
    BY <1>4 DEF Spawn
  <2>2. /\ proc' \in ProcTables
        /\ \A q \in Procs : proc'[q] = IF q = p THEN "Ready" ELSE proc[q]
    BY <1>1, <2>1 DEF ProcTables
  <2>3. \A r \in RingIds : ring[r].owner \in Procs
    BY <1>1 DEF RingTables, RingRecords
  <2>4. Agree(ring, mem, proc')
    BY <1>1, <2>1, <2>2, <2>3 DEF Agree
  <2> QED BY <2>1, <2>2, <2>4 DEF RInv, Types, kernelVars, ghostVars, ProcTables
<1>5. ASSUME NEW r \in RingIds, RingSubmit(p, r) PROVE RInv'
  BY <1>5 DEF RingSubmit, CanUse, RInv, Types, ghostVars
<1>6. ASSUME NEW r \in RingIds, RingWait(p, r) PROVE RInv'
  <2>1. /\ proc[p] = "Ready" /\ ring[r].in_use /\ ring[r].owner = p /\ drain = None
        /\ ring[r].cq_tail = mem[r].head
        /\ ring' = [ring EXCEPT ![r].waiting = TRUE]
        /\ proc' = [proc EXCEPT ![p] = "Parked"]
        /\ UNCHANGED <<mem, kernelVars, ghostVars>>
    BY <1>6 DEF RingWait, CanUse, NothingToReap
  <2>2. /\ proc' \in ProcTables
        /\ \A q \in Procs : proc'[q] = IF q = p THEN "Parked" ELSE proc[q]
    BY <1>1, <2>1 DEF ProcTables
  <2>3. /\ ring' \in RingTables
        /\ \A s \in RingIds : s # r => ring'[s] = ring[s]
        /\ ring'[r].waiting /\ ring'[r].cq_tail = ring[r].cq_tail
        /\ \A s \in RingIds : /\ ring'[s].in_use = ring[s].in_use
                              /\ ring'[s].owner = ring[s].owner
                              /\ ring'[s].reg = ring[s].reg
    BY <1>1, <2>1 DEF RingTables, RingRecords
  <2>4. \A s \in RingIds : ring[s].owner \in Procs
    BY <1>1 DEF RingTables, RingRecords
  <2>5. \A s \in RingIds : ring[s].owner = p => ~ring[s].waiting
    BY <1>1, <2>1 DEF Agree
  <2>6. ASSUME NEW q \in Procs, proc'[q] = "Parked"
        PROVE  \E s \in RingIds : SleepsOn(ring', mem, q, s)
    <3>1. CASE q = p
      BY <2>1, <2>3, <3>1 DEF SleepsOn
    <3>2. CASE q # p
      <4>1. PICK s \in RingIds : SleepsOn(ring, mem, q, s)
        BY <1>1, <2>2, <2>6, <3>2 DEF Agree
      <4>2. s # r
        BY <2>1, <3>2, <4>1 DEF SleepsOn
      <4> QED BY <2>3, <4>1, <4>2 DEF SleepsOn
    <3> QED BY <3>1, <3>2
  <2>7. ASSUME NEW s \in RingIds, ring'[s].waiting
        PROVE  ring'[s].in_use /\ proc'[ring'[s].owner] = "Parked"
    BY <1>1, <2>1, <2>2, <2>3, <2>4, <2>7 DEF Agree
  <2>8. \A x, s \in RingIds :
          ring'[x].waiting /\ ring'[s].waiting /\ ring'[x].owner = ring'[s].owner => x = s
    BY <1>1, <2>1, <2>3, <2>5 DEF Agree
  <2>9. \A s \in RingIds : ring'[s].in_use => proc'[ring'[s].owner] # "Empty"
    BY <1>1, <2>1, <2>2, <2>3, <2>4 DEF Agree
  <2>10. Agree(ring', mem, proc')
    BY <2>6, <2>7, <2>8, <2>9 DEF Agree
  <2>11. ASSUME NEW i \in SubSlots PROVE OfTenant(ring', subs[i])
    <3>1. subs[i] # None => subs[i].ring \in RingIds
      BY <1>1 DEF SubTables, SubRecords
    <3>2. SameTenants(ring, ring')
      BY <2>3 DEF SameTenants
    <3> QED BY <3>1, <3>2, TenantsKept DEF RInv
  <2> QED BY <2>1, <2>2, <2>3, <2>10, <2>11 DEF RInv, Types, kernelVars, ghostVars, ProcTables
<1>7. ASSUME NEW r \in RingIds, CapRelease(p, r) PROVE RInv'
  <2>1. CanUse(p, r) /\ drain = None /\ Release({r}) /\ proc' = proc
    BY <1>7 DEF CapRelease
  <2>2. ~ring[r].waiting
    BY <1>1, <2>1 DEF CanUse, Agree
  <2> QED BY <1>1, <2>1, <2>2, ReleaseRInv DEF Agree
<1> QED BY <1>2, <1>3, <1>4, <1>5, <1>6, <1>7 DEF SystemCall


LEMMA InitRInv == Init => RInv
<1>1. SUFFICES ASSUME Init PROVE RInv
  OBVIOUS
<1>2. 0 \in Indices /\ 0 .. Entries - 1 \subseteq Nat /\ 0 \in Procs /\ 0 \in 0 .. MaxRegs
      /\ 0 \in 0 .. MaxEvents
  BY RingsAssumption DEF Indices, Procs
<1>3. EmptyRing \in RingRecords /\ ~EmptyRing.waiting /\ ~EmptyRing.in_use
  BY <1>2 DEF EmptyRing, RingRecords
<1>4. FreshMemory \in Memory
  BY <1>2 DEF FreshMemory, Memory
<1>5. Types
  BY <1>1, <1>2, <1>3, <1>4 DEF Init, Types, RingTables, Memories, SubTables
<1>6. Agree(ring, mem, proc)
  BY <1>1, <1>3 DEF Init, Agree
<1> QED BY <1>1, <1>5, <1>6 DEF Init, RInv, OfTenant, DropsWithin

LEMMA NextRInv == RInv /\ [Next]_vars => RInv'
<1> SUFFICES ASSUME RInv, [Next]_vars PROVE RInv'
  OBVIOUS
<1>1. CASE UNCHANGED vars
  BY <1>1 DEF vars, kernelVars, ghostVars, RInv, Types
<1>2. CASE DrainEntry
  BY <1>2, PostIoRInv, PostEventSubRInv, PostCancelRInv DEF DrainEntry
<1>3. CASE DrainEnds
  BY <1>3 DEF DrainEnds, RInv, Types, ghostVars
<1> QED BY <1>1, <1>2, <1>3, SystemCallRInv, UserRInv, CompleteIrqRInv, RecordRInv DEF Next

----------------------------------------------------------------------------
(* What a process reaps is a completion: no entry between the indices of a *)
(* ring is blank, even one that answers have gone round.                   *)

Whole(R, M) == \A r \in RingIds :
  Filled(R[r].cq_tail, M[r].head, M[r].buf) /\ Len(M[r].sq) <= Entries

Rest ==
  /\ free \in Seq(Slots)
  /\ await \in [RingIds -> SUBSET Cookies]
  /\ got \in [RingIds -> [Cookies -> 0 .. MaxEvents]]

WInv == RInv /\ Whole(ring, mem) /\ Rest

LEMMA PostWhole ==
  ASSUME NEW Q \in Postings, NEW r \in RingIds, NEW e \in Completions, Whole(Q.ring, Q.mem)
  PROVE  Whole(CqPost(Q, r, e).ring, CqPost(Q, r, e).mem)
<1> DEFINE N == CqPost(Q, r, e)
<1>1. CASE ~Q.ring[r].in_use
  BY <1>1 DEF CqPost
<1>2. CASE Q.ring[r].in_use
  <2>1. /\ N \in Postings
        /\ N.wakes = IF Q.ring[r].waiting THEN Q.wakes \cup {Q.ring[r].owner} ELSE Q.wakes
        /\ \A s \in RingIds : s # r => N.ring[s] = Q.ring[s] /\ N.mem[s] = Q.mem[s]
        /\ ~N.ring[r].waiting
        /\ SameTenants(Q.ring, N.ring)
        /\ N.ring[r].cq_tail = NextIndex(Q.ring[r].cq_tail)
        /\ N.mem[r].sq = Q.mem[r].sq /\ N.mem[r].head = Q.mem[r].head
        /\ N.mem[r].buf = [Q.mem[r].buf EXCEPT ![Q.ring[r].cq_tail % Entries] = e]
    BY <1>2, PostCells
  <2> HIDE DEF N
  <2>2. /\ Q.ring[r].cq_tail \in Indices /\ Q.mem[r].head \in Indices
        /\ Q.mem[r].buf \in Buffers
    BY DEF Postings, RingTables, RingRecords, Memories, Memory, Buffers
  <2>3. Filled(Q.ring[r].cq_tail, Q.mem[r].head, Q.mem[r].buf)
    BY DEF Whole
  <2>4. Filled(N.ring[r].cq_tail, N.mem[r].head, N.mem[r].buf)
    BY <2>1, <2>2, <2>3, PostFills
  <2>5. Whole(N.ring, N.mem)
    BY <2>1, <2>4 DEF Whole
  <2> QED BY <2>5 DEF N
<1> QED BY <1>1, <1>2

LEMMA ConsumedWhole ==
  ASSUME WInv, drain # None, mem[drain].sq # <<>>
  PROVE  Whole(Consumed.ring, Consumed.mem)
<1>1. drain \in RingIds /\ mem \in Memories /\ mem[drain] \in Memory
  BY DEF WInv, RInv, Types, Memories
<1>2. Len(Tail(mem[drain].sq)) <= Entries
  <2>1. mem[drain].sq \in Seq(Submissions) /\ Len(mem[drain].sq) <= Entries
    BY <1>1 DEF WInv, Whole, Memory
  <2> QED BY <2>1, Numbers
<1>3. \A r \in RingIds : /\ Consumed.mem[r].head = mem[r].head /\ Consumed.mem[r].buf = mem[r].buf
                         /\ Len(Consumed.mem[r].sq) <= Entries
  BY <1>1, <1>2 DEF Consumed, Memories, Memory, WInv, Whole
<1>4. Consumed.ring = ring
  BY DEF Consumed
<1> QED BY <1>3, <1>4 DEF WInv, Whole

LEMMA DeliveredWhole ==
  ASSUME WInv, clock < MaxEvents
  PROVE  Whole(Delivered[NumSubs].q.ring, Delivered[NumSubs].q.mem)
<1> DEFINE Bad == {n \in 0 .. NumSubs : ~Whole(Delivered[n].q.ring, Delivered[n].q.mem)}
<1>1. \A n \in 0 .. NumSubs :
        Delivered[n] = IF n = 0 THEN [q |-> Queues, s |-> subs]
                       ELSE DeliverTo(Delivered[n - 1], n - 1)
  BY DeliveredSteps DEF Course
<1>2. SUFFICES ASSUME Bad # {} PROVE FALSE
  BY Numbers
<1>3. PICK n \in Bad : \A k \in Bad : n <= k
  <2>1. Bad \in SUBSET Nat
    OBVIOUS
  <2> QED BY <1>2, <2>1, LeastExists
<1>4. n \in 0 .. NumSubs /\ ~Whole(Delivered[n].q.ring, Delivered[n].q.mem)
  BY <1>3
<1>5. CASE n = 0
  <2>1. Delivered[n] = [q |-> Queues, s |-> subs]
    BY <1>1, <1>4, <1>5
  <2> QED BY <1>4, <2>1 DEF Queues, WInv
<1>6. CASE n # 0
  <2> DEFINE D   == Delivered[n - 1]
             sub == subs[n - 1]
  <2>1. n - 1 \in 0 .. NumSubs /\ n - 1 \in SubSlots /\ n - 1 < n
    BY <1>4, <1>6, Numbers DEF SubSlots
  <2>2. Whole(D.q.ring, D.q.mem)
    BY <1>3, <2>1
  <2>3. Delivering(D, n - 1)
    BY <2>1, DeliveredGood DEF WInv
  <2>4. D.q \in Postings /\ D = [q |-> D.q, s |-> D.s]
    BY <2>3 DEF Delivering
  <2>5. Delivered[n] = DeliverTo(D, n - 1)
    BY <1>1, <1>4, <1>6
  <2> HIDE DEF D
  <2>6. ASSUME sub # None PROVE sub.ring \in RingIds /\ EventFor(sub) \in Completions
    <3>1. sub \in SubRecords /\ clock \in 0 .. MaxEvents
      BY <2>1, <2>6 DEF WInv, RInv, Types, SubTables
    <3> QED BY <3>1, Numbers DEF SubRecords, EventFor, Completions
  <2>7. \/ Delivered[n].q = D.q
        \/ sub # None /\ Delivered[n].q = CqPost(D.q, sub.ring, EventFor(sub))
    BY <2>4, <2>5 DEF DeliverTo
  <2>8. sub # None => Whole(CqPost(D.q, sub.ring, EventFor(sub)).ring,
                            CqPost(D.q, sub.ring, EventFor(sub)).mem)
    BY <2>2, <2>4, <2>6, PostWhole
  <2> QED BY <1>4, <2>2, <2>7, <2>8
<1> QED BY <1>5, <1>6


\* An action that ends with a posting and leaves the programs' own books alone.
LEMMA PostedWhole ==
  ASSUME NEW Q, Whole(Q.ring, Q.mem), Publish(Q) PROVE Whole(ring', mem')
BY DEF Publish

LEMMA DrainWhole ==
  ASSUME WInv, DrainEntry PROVE Whole(ring', mem') /\ Rest'
<1>1. /\ drain # None /\ mem[drain].sq # <<>> /\ drain \in RingIds
      /\ PostIo \/ PostEventSub \/ PostCancel
      /\ ring[drain].reg \in 0 .. MaxRegs /\ clock \in 0 .. MaxEvents
  BY DEF DrainEntry, WInv, RInv, Types, RingTables, RingRecords
<1>2. Consumed \in Postings /\ Entry \in Submissions
  BY <1>1, ConsumedGood DEF WInv
<1>3. Whole(Consumed.ring, Consumed.mem)
  BY <1>1, ConsumedWhole
<1>4. /\ Entry.ud \in Cookies
      /\ Target.ud \in Cookies /\ Target.reg \in 0 .. MaxRegs
  BY <1>1, <1>2 DEF Target, Submissions
<1>5. Done(Target) \in Completions
  BY <1>4, Numbers DEF Done, Completions
<1>6. SubErr(Target) \in Completions
  BY <1>5 DEF SubErr, Completions
<1>7. ASSUME NEW e \in Completions
      PROVE  Whole(CqPost(Consumed, drain, e).ring, CqPost(Consumed, drain, e).mem)
  BY <1>1, <1>2, <1>3, PostWhole
<1>8. free \in Seq(Slots) /\ await \in [RingIds -> SUBSET Cookies]
      /\ got \in [RingIds -> [Cookies -> 0 .. MaxEvents]]
  BY DEF WInv, Rest
<1>9. CASE PostIo
  <2>1. await' = await /\ got' = got
    BY <1>9 DEF PostIo, ghostVars
  <2>2. free' \in Seq(Slots)
    <3>1. free' = free \/ (free # <<>> /\ free' = SubSeq(free, 1, Len(free) - 1))
      BY <1>9 DEF PostIo
    <3>2. ASSUME free # <<>> PROVE SubSeq(free, 1, Len(free) - 1) \in Seq(Slots)
      BY <1>8, <3>2
    <3> QED BY <1>8, <3>1, <3>2
  <2>3. Publish(Consumed) \/ Publish(CqPost(Consumed, drain, Done(Target)))
    BY <1>9 DEF PostIo
  <2>4. Whole(ring', mem')
    BY <1>3, <1>5, <1>7, <2>3, PostedWhole
  <2> QED BY <1>8, <2>1, <2>2, <2>4 DEF Rest
<1>10. CASE PostEventSub
  <2>1. await' = await /\ free' = free
    BY <1>10 DEF PostEventSub
  <2>2. got' = got \/ got' = [got EXCEPT ![drain][Entry.ud] = clock]
    BY <1>10 DEF PostEventSub
  <2>3. got' \in [RingIds -> [Cookies -> 0 .. MaxEvents]]
    <3> DEFINE row == [got[drain] EXCEPT ![Entry.ud] = clock]
    <3>1. row \in [Cookies -> 0 .. MaxEvents]
      BY <1>1, <1>8
    <3>2. got' = got \/ got' = [got EXCEPT ![drain] = row]
      BY <2>2
    <3> HIDE DEF row
    <3> QED BY <1>1, <1>8, <3>1, <3>2
  <2>4. Publish(Consumed) \/ Publish(CqPost(Consumed, drain, SubErr(Target)))
    BY <1>10 DEF PostEventSub
  <2>5. Whole(ring', mem')
    BY <1>3, <1>6, <1>7, <2>4, PostedWhole
  <2> QED BY <1>8, <2>1, <2>3, <2>5 DEF Rest
<1>11. CASE PostCancel
  <2>1. await' = await /\ free' = free /\ got' = got /\ Publish(Consumed)
    BY <1>11 DEF PostCancel, ghostVars
  <2> QED BY <1>3, <1>8, <2>1, PostedWhole DEF Rest
<1> QED BY <1>1, <1>9, <1>10, <1>11

LEMMA InterruptWhole ==
  ASSUME WInv, CompleteIrq \/ Record PROVE Whole(ring', mem') /\ Rest'
<1>1. CASE CompleteIrq
  <2>1. PICK i \in Slots :
          /\ routing[i] # None
          /\ free' = Append(free, i)
          /\ Publish(CqPost(Queues, routing[i].ring, Done(routing[i])))
          /\ await' = await /\ got' = got
    BY <1>1 DEF CompleteIrq, ghostVars
  <2>2. routing[i] \in Routings
    BY <2>1 DEF WInv, RInv, Types
  <2>3. routing[i].ring \in RingIds /\ Done(routing[i]) \in Completions
    BY <2>2, Numbers DEF Routings, Done, Completions
  <2>4. Queues \in Postings /\ Whole(Queues.ring, Queues.mem)
    <3>1. Whole(Queues.ring, Queues.mem)
      BY DEF WInv, Queues
    <3> QED BY <3>1, QueuesGood DEF WInv
  <2>5. Whole(CqPost(Queues, routing[i].ring, Done(routing[i])).ring,
              CqPost(Queues, routing[i].ring, Done(routing[i])).mem)
    BY <2>3, <2>4, PostWhole
  <2>6. free' \in Seq(Slots)
    BY <2>1 DEF WInv, Rest
  <2> QED BY <2>1, <2>5, <2>6, PostedWhole DEF WInv, Rest
<1>2. CASE Record
  <2>1. /\ clock < MaxEvents /\ Publish(Delivered[NumSubs].q)
        /\ free' = free /\ await' = await /\ got' = got
    BY <1>2 DEF Record
  <2> QED BY <2>1, DeliveredWhole, PostedWhole DEF WInv, Rest
<1> QED BY <1>1, <1>2

LEMMA FreshFilled == Filled(0, 0, FreshMemory.buf) /\ Len(FreshMemory.sq) <= Entries
<1>1. (0 - 0) % IndexMod = 0
  <2>1. 0 \in 0 .. IndexMod - 1 /\ 0 - 0 = 0
    BY Numbers
  <2> QED BY <2>1, Numbers, ModSmall
<1> QED BY <1>1, Numbers DEF Filled, FreshMemory

LEMMA UserWhole ==
  ASSUME WInv, NEW p \in Procs, NEW r \in RingIds, UserStep(p, r)
  PROVE  Whole(ring', mem') /\ Rest'
<1>1. /\ mem \in Memories /\ mem[r] \in Memory /\ mem[r].sq \in Seq(Submissions)
      /\ mem[r].head \in Indices /\ mem[r].buf \in Buffers /\ ring[r].cq_tail \in Indices
      /\ Filled(ring[r].cq_tail, mem[r].head, mem[r].buf) /\ Len(mem[r].sq) <= Entries
  BY DEF WInv, RInv, Types, Memories, Memory, Buffers, RingTables, RingRecords, Whole
<1>2. Whole(ring, mem) /\ Rest
  BY DEF WInv
<1>3. CASE Produce(p, r)
  <2>1. /\ Len(mem[r].sq) < Entries /\ ring' = ring /\ got' = got /\ free' = free
        /\ \E s \in Submissions :
             /\ mem' = [mem EXCEPT ![r].sq = Append(@, s)]
             /\ await' = [await EXCEPT ![r] = IF s.op = "IO" THEN @ \cup {s.ud} ELSE @]
    BY <1>3 DEF Produce, kernelVars
  <2>2. PICK s \in Submissions :
          /\ mem' = [mem EXCEPT ![r].sq = Append(@, s)]
          /\ await' = [await EXCEPT ![r] = IF s.op = "IO" THEN @ \cup {s.ud} ELSE @]
    BY <2>1
  <2>3. Len(Append(mem[r].sq, s)) <= Entries
    BY <1>1, <2>1, Numbers
  <2>4. \A x \in RingIds : /\ mem'[x].head = mem[x].head /\ mem'[x].buf = mem[x].buf
                           /\ x # r => mem'[x] = mem[x]
    BY <1>1, <2>2 DEF Memories, Memory
  <2>5. mem'[r].sq = Append(mem[r].sq, s)
    BY <1>1, <2>2 DEF Memories, Memory
  <2>6. Whole(ring, mem')
    BY <1>2, <2>3, <2>4, <2>5 DEF Whole
  <2>7. await' \in [RingIds -> SUBSET Cookies]
    BY <1>2, <2>2 DEF Rest, Submissions
  <2> QED BY <1>2, <2>1, <2>6, <2>7 DEF Rest
<1>4. CASE Reap(p, r)
  <2> DEFINE h == mem[r].head
             e == mem[r].buf[h % Entries]
             v == IF UnreapedCount(Queues, r) > Entries THEN e ELSE None
             b == [mem[r].buf EXCEPT ![h % Entries] = v]
  <2>1. /\ mem[r].head # ring[r].cq_tail /\ ring' = ring /\ free' = free
        /\ mem' = [mem EXCEPT ![r] = [sq |-> mem[r].sq, head |-> NextIndex(h), buf |-> b]]
        /\ await' = [await EXCEPT ![r] = IF e.kind = "done" THEN @ \ {e.ud} ELSE @]
        /\ got' = [got EXCEPT ![r][e.ud] = IF e.kind = "event" THEN e.n ELSE @]
    BY <1>4 DEF Reap, kernelVars
  <2>2. (ring[r].cq_tail - h) % IndexMod > Entries => v = e
    BY DEF UnreapedCount, Queues
  <2>3. e \in Completions /\ Filled(ring[r].cq_tail, NextIndex(h), b)
    <3> HIDE DEF v
    <3> QED BY <1>1, <2>1, <2>2, ReapFills
  <2> HIDE DEF e, b
  <2>4. /\ mem'[r].head = NextIndex(h) /\ mem'[r].buf = b /\ mem'[r].sq = mem[r].sq
        /\ \A x \in RingIds : x # r => mem'[x] = mem[x]
    BY <1>1, <2>1 DEF Memories
  <2>5. Whole(ring, mem')
    BY <1>2, <2>3, <2>4 DEF Whole
  <2>6. /\ await' \in [RingIds -> SUBSET Cookies]
        /\ got' \in [RingIds -> [Cookies -> 0 .. MaxEvents]]
    BY <1>2, <2>1, <2>3 DEF Rest, Completions
  <2> QED BY <1>2, <2>1, <2>5, <2>6 DEF Rest
<1> QED BY <1>3, <1>4 DEF UserStep

LEMMA SystemCallWhole ==
  ASSUME WInv, NEW p \in Procs, SystemCall(p) PROVE Whole(ring', mem') /\ Rest'
<1>1. Whole(ring, mem) /\ Rest /\ ring \in RingTables /\ mem \in Memories
  BY DEF WInv, RInv, Types
<1>2. EmptyRing.cq_tail = 0 /\ FreshMemory.head = 0
  BY DEF EmptyRing, FreshMemory
<1>3. CASE RingRegister(p)
  <2>1. PICK r \in RingIds :
          /\ ring' = [ring EXCEPT ![r] = [EmptyRing EXCEPT !.in_use = TRUE, !.owner = p,
                                                           !.reg = regs + 1]]
          /\ mem' = [mem EXCEPT ![r] = FreshMemory]
          /\ await' = [await EXCEPT ![r] = {}]
          /\ got' = [got EXCEPT ![r] = [u \in Cookies |-> 0]]
    BY <1>3 DEF RingRegister, FreeRings
  <2> DEFINE x == [EmptyRing EXCEPT !.in_use = TRUE, !.owner = p, !.reg = regs + 1]
  <2>2. x.cq_tail = 0
    BY DEF EmptyRing
  <2> HIDE DEF x
  <2>3. /\ ring'[r] = x /\ mem'[r] = FreshMemory
        /\ \A s \in RingIds : s # r => ring'[s] = ring[s] /\ mem'[s] = mem[s]
    BY <1>1, <2>1 DEF RingTables, Memories, x
  <2>4. Whole(ring', mem')
    BY <1>1, <1>2, <2>2, <2>3, FreshFilled DEF Whole
  <2>5. free' = free
    BY <1>3 DEF RingRegister, kernelVars
  <2> QED BY <1>1, <2>1, <2>4, <2>5, Numbers DEF Rest
<1>4. ASSUME NEW R, Release(R) PROVE Whole(ring', mem') /\ Rest'
  <2>1. /\ \A r \in RingIds : /\ ring'[r] = IF r \in R THEN EmptyRing ELSE ring[r]
                              /\ mem'[r] = IF r \in R THEN FreshMemory ELSE mem[r]
        /\ await' = [r \in RingIds |-> IF r \in R THEN {} ELSE await[r]]
        /\ got' = [r \in RingIds |-> IF r \in R THEN [u \in Cookies |-> 0] ELSE got[r]]
        /\ free' = free
    BY <1>4 DEF Release
  <2>2. Whole(ring', mem')
    BY <1>1, <1>2, <2>1, FreshFilled DEF Whole
  <2> QED BY <1>1, <2>1, <2>2, Numbers DEF Rest
<1>5. CASE Spawn(p)
  BY <1>1, <1>5 DEF Spawn, kernelVars, ghostVars, Rest
<1>6. ASSUME NEW r \in RingIds, RingSubmit(p, r) PROVE Whole(ring', mem') /\ Rest'
  BY <1>1, <1>6 DEF RingSubmit, ghostVars, Rest
<1>7. ASSUME NEW r \in RingIds, RingWait(p, r) PROVE Whole(ring', mem') /\ Rest'
  <2>1. /\ ring' = [ring EXCEPT ![r].waiting = TRUE] /\ mem' = mem
        /\ free' = free /\ await' = await /\ got' = got
    BY <1>7 DEF RingWait, kernelVars, ghostVars
  <2>2. \A s \in RingIds : ring'[s].cq_tail = ring[s].cq_tail
    BY <1>1, <2>1 DEF RingTables, RingRecords
  <2> QED BY <1>1, <2>1, <2>2 DEF Whole, Rest
<1> QED BY <1>3, <1>4, <1>5, <1>6, <1>7 DEF SystemCall, Exit, CapRelease

LEMMA NextWInv == WInv /\ [Next]_vars => WInv'
<1> SUFFICES ASSUME WInv, [Next]_vars PROVE WInv'
  OBVIOUS
<1>1. RInv'
  BY NextRInv DEF WInv
<1>2. Whole(ring, mem) /\ Rest
  BY DEF WInv
<1>3. CASE UNCHANGED vars
  BY <1>1, <1>2, <1>3 DEF vars, kernelVars, ghostVars, WInv, Rest
<1>4. CASE DrainEnds
  BY <1>1, <1>2, <1>4 DEF DrainEnds, ghostVars, WInv, Rest
<1>5. (Whole(ring, mem) /\ Rest)' => WInv'
  BY <1>1 DEF WInv
<1> QED BY <1>3, <1>4, <1>5, DrainWhole, InterruptWhole, UserWhole, SystemCallWhole DEF Next

----------------------------------------------------------------------------
(* The theorems.                                                           *)

LEMMA InitWInv == Init => WInv
<1> SUFFICES ASSUME Init PROVE WInv
  OBVIOUS
<1>1. Whole(ring, mem)
  BY FreshFilled DEF Init, Whole, EmptyRing, FreshMemory
<1>2. free \in Seq(Slots)
  <2>1. \A i \in 1 .. NumSlots : i - 1 \in Slots
    BY Numbers DEF Slots
  <2>2. free = [i \in 1 .. NumSlots |-> i - 1]
    BY DEF Init
  <2> QED BY <2>1, <2>2, Numbers
<1>3. Rest
  BY <1>2, Numbers DEF Init, Rest
<1> QED BY <1>1, <1>3, InitRInv DEF WInv

LEMMA WInvHolds == Spec => []WInv
BY InitWInv, NextWInv, PTL DEF Spec

\* Type correctness; what a process reaps, in particular, is always a completion
\* the kernel has posted, wherever the indices have wrapped and even after answers
\* have gone round an unreaped buffer.
THEOREM RingsTypeCorrect == Spec => []TypeOK
<1>1. WInv => TypeOK
  BY DEF WInv, RInv, Types, Whole, Rest, TypeOK, RingTables, Memories, Memory, SubTables
<1> QED BY <1>1, WInvHolds, PTL

\* However completions, events, waits, registrations and deaths interleave, a
\* process parked in ring_wait is marked on a live, empty ring of its own, and
\* every mark is that of a parked process: no wake-up is lost.
THEOREM NoWakeupLost == Spec => []ParkedOnEmpty
<1>1. WInv => ParkedOnEmpty
  BY DEF WInv, RInv, Agree, SleepsOn, ParkedOnEmpty, Owned
<1> QED BY <1>1, WInvHolds, PTL

\* A ring in use has a living owner, and every subscription belongs to the present
\* tenant of its ring, whatever was released, died or registered before.
THEOREM TenantsStartClean == Spec => []NoneInherited
<1>1. WInv => NoneInherited
  BY DEF WInv, RInv, Agree, OfTenant, NoneInherited
<1> QED BY <1>1, WInvHolds, PTL

----------------------------------------------------------------------------
(* Where a request is.  One set of places per queue, as operators of a     *)
(* ring's table entry and memory, so that they can be followed through the *)
(* postings of an action.                                                  *)

\* A set of one element.
One(S) == \E i \in S : \A j \in S : j = i

\* A request with its places in the submission queue, at the device and in the
\* completion queue: in exactly one of them if it is awaited, in none otherwise.
Placed(A, B, C, awaited) ==
  IF awaited
  THEN \/ One(A) /\ B = {} /\ C = {}
       \/ A = {} /\ One(B) /\ C = {}
       \/ A = {} /\ B = {} /\ One(C)
  ELSE A = {} /\ B = {} /\ C = {}

\* The three places, for cookie u of the tenant k of ring r, whose table entry is x
\* and whose memory is m.
SqOf(m, u)       == {i \in 1 .. Len(m.sq) : m.sq[i] = [op |-> "IO", ud |-> u]}
DevOf(T, r, k, u) == {i \in Slots : T[i] = [ring |-> r, ud |-> u, reg |-> k]}
CqOf(x, m, u)    ==
  {j \in 0 .. ((x.cq_tail - m.head) % IndexMod) - 1 :
     m.buf[(m.head + j) % Entries] = Done([ud |-> u, reg |-> x.reg])}

\* A clean queue has not been overrun, and its answers are the present tenant's.
Trim(x, m) ==
  /\ (x.cq_tail - m.head) % IndexMod <= Entries
  /\ \A j \in 0 .. ((x.cq_tail - m.head) % IndexMod) - 1 :
       LET e == m.buf[(m.head + j) % Entries]
       IN e.kind = "done" => e = Done([ud |-> e.ud, reg |-> x.reg])

\* The books of ring r.
BooksAt(x, m, T, w, r) ==
  x.in_use /\ x.clean =>
    /\ Trim(x, m)
    /\ \A u \in Cookies : Placed(SqOf(m, u), DevOf(T, r, x.reg, u), CqOf(x, m, u), u \in w)

Books == \A r \in RingIds : BooksAt(ring[r], mem[r], routing, await[r], r)

\* The request slots on the stack are different ones, and at rest.
Pool ==
  /\ \A i, j \in 1 .. Len(free) : free[i] = free[j] => i = j
  /\ \A i \in 1 .. Len(free) : routing[free[i]] = None

\* Registrations are numbered.
Numbered ==
  /\ \A i \in Slots : routing[i] # None => routing[i].reg <= regs
  /\ \A r \in RingIds : ring[r].reg <= regs

\* Two sets of numbers, one a place behind the other.
LEMMA Shifted ==
  ASSUME NEW A \in SUBSET Int, NEW B \in SUBSET Int, \A i \in Int : i \in B <=> i + 1 \in A
  PROVE  (A = {} <=> B = {}) /\ (One(A) <=> One(B))
<1>1. \A i \in A : i - 1 \in Int /\ (i - 1) + 1 = i /\ i - 1 \in B
  <2> TAKE i \in A
  <2>1. i \in Int /\ i - 1 \in Int /\ (i - 1) + 1 = i
    OBVIOUS
  <2> QED BY <2>1
<1>2. \A i \in B : i \in Int /\ i + 1 \in A
  OBVIOUS
<1>3. A = {} <=> B = {}
  BY <1>1, <1>2
<1>4. ASSUME One(A) PROVE One(B)
  <2>1. PICK i \in A : \A j \in A : j = i
    BY <1>4 DEF One
  <2>2. ASSUME NEW j \in B PROVE j = i - 1
    <3>1. j \in Int /\ j + 1 = i
      BY <1>2, <2>1
    <3> QED BY <3>1
  <2> QED BY <1>1, <2>2 DEF One
<1>5. ASSUME One(B) PROVE One(A)
  <2>1. PICK i \in B : \A j \in B : j = i
    BY <1>5 DEF One
  <2>2. ASSUME NEW j \in A PROVE j = i + 1
    <3>1. j - 1 = i /\ j \in Int
      BY <1>1, <2>1
    <3> QED BY <3>1
  <2> QED BY <1>2, <2>2 DEF One
<1> QED BY <1>3, <1>4, <1>5

\* Fewer than Entries places apart is not the same place in the buffer.
LEMMA PlacesDiffer ==
  ASSUME NEW a \in Int, NEW k \in 1 .. Entries - 1
  PROVE  (a + k) % Entries # a % Entries
<1> DEFINE i == a + k
<1>1. Entries \in Nat \ {0} /\ i \in Int /\ i = a + k
  BY Numbers
<1> HIDE DEF i
<1>2. SUFFICES ASSUME i % Entries = a % Entries PROVE FALSE
  BY DEF i
<1>3. PICK p \in Int, q \in Int, x \in 0 .. Entries - 1 :
        i = Entries * p + x /\ a = Entries * q + x
  <2>1. /\ i % Entries \in 0 .. Entries - 1 /\ i \div Entries \in Int
        /\ i = Entries * (i \div Entries) + (i % Entries)
    BY <1>1, DivMod
  <2>2. /\ a % Entries \in 0 .. Entries - 1 /\ a \div Entries \in Int
        /\ a = Entries * (a \div Entries) + (a % Entries)
    BY <1>1, DivMod
  <2> QED BY <1>2, <2>1, <2>2
<1>4. Entries * p + 0 = Entries * q + k
  BY <1>1, <1>3
<1>5. 0 \in 0 .. Entries - 1 /\ k \in 0 .. Entries - 1
  BY <1>1
<1>6. 0 = k
  BY <1>1, <1>4, <1>5, DivModUnique
<1> QED BY <1>6

\* Buffer w has, between indices that are c + 1 apart, what b had between indices
\* that were c apart, and then e.
Posted(t, h, b, w, e) ==
  LET c == (t - h) % IndexMod
  IN /\ c \in Nat /\ (NextIndex(t) - h) % IndexMod = c + 1
     /\ w[(h + c) % Entries] = e
     /\ \A j \in 0 .. c - 1 : w[(h + j) % Entries] = b[(h + j) % Entries]

\* What a posting leaves of a queue that has room.
LEMMA PostMoves ==
  ASSUME NEW t \in Indices, NEW h \in Indices, NEW b \in Buffers, NEW e,
         (t - h) % IndexMod < Entries
  PROVE  Posted(t, h, b, [b EXCEPT ![t % Entries] = e], e)
<1> DEFINE c == (t - h) % IndexMod
           d == (NextIndex(t) - h) % IndexMod
           w == [b EXCEPT ![t % Entries] = e]
<1>1. /\ c \in 0 .. IndexMod - 1
      /\ (h + c) % Entries = t % Entries
      /\ d = IF c + 1 = IndexMod THEN 0 ELSE c + 1
      /\ c < Entries
  BY CountSteps
<1> HIDE DEF c, d
<1>2. Entries \in Nat \ {0} /\ IndexMod \in Nat /\ IndexMod > Entries /\ h \in Int
  BY RingsAssumption DEF Indices
<1>3. c \in Nat /\ d = c + 1
  BY ONLY <1>1, <1>2
<1>4. t % Entries \in 0 .. Entries - 1
  BY IndexType
<1>5. w[(h + c) % Entries] = e
  BY ONLY <1>1, <1>4, b \in Buffers DEF Buffers
<1>6. ASSUME NEW j \in 0 .. c - 1 PROVE w[(h + j) % Entries] = b[(h + j) % Entries]
  <2>1. h + j \in Int /\ c - j \in 1 .. Entries - 1 /\ (h + j) + (c - j) = h + c
    BY ONLY <1>1, <1>2, <1>3, <1>6
  <2>2. ((h + j) + (c - j)) % Entries # (h + j) % Entries
    BY ONLY <2>1, PlacesDiffer
  <2>3. (h + j) % Entries # t % Entries
    BY ONLY <1>1, <2>1, <2>2
  <2>4. (h + j) % Entries \in 0 .. Entries - 1
    BY ONLY <1>2, <2>1, DivMod
  <2> QED BY ONLY <2>3, <2>4, b \in Buffers DEF Buffers
<1> QED BY ONLY <1>3, <1>5, <1>6 DEF Posted, c, d

\* Buffer w has, between indices that are c - 1 apart, what b had behind the first of c.
Reaped(t, h, b, w) ==
  LET c == (t - h) % IndexMod
  IN /\ c \in Nat /\ c > 0 /\ (t - NextIndex(h)) % IndexMod = c - 1
     /\ \A j \in 0 .. c - 2 :
          w[(NextIndex(h) + j) % Entries] = b[(h + (j + 1)) % Entries]

\* What reaping leaves of a queue that has not been overrun.
LEMMA ReapMoves ==
  ASSUME NEW t \in Indices, NEW h \in Indices, t # h, NEW b \in Buffers, NEW v,
         (t - h) % IndexMod <= Entries
  PROVE  Reaped(t, h, b, [b EXCEPT ![h % Entries] = v])
<1> DEFINE c == (t - h) % IndexMod
           w == [b EXCEPT ![h % Entries] = v]
<1>1. /\ c \in 0 .. IndexMod - 1 /\ c > 0 /\ (t - NextIndex(h)) % IndexMod = c - 1
      /\ c <= Entries
  BY CountSteps
<1> HIDE DEF c
<1>2. Entries \in Nat \ {0} /\ IndexMod \in Nat \ {0} /\ h \in Int
  BY Numbers DEF Indices
<1>3. ASSUME NEW j \in 0 .. c - 2
      PROVE  w[(NextIndex(h) + j) % Entries] = b[(h + (j + 1)) % Entries]
  <2> DEFINE i == h + (j + 1)
  <2>1. i \in Int /\ j \in Int /\ h + 1 \in Int /\ (h + 1) + j = i /\ j + 1 \in 1 .. Entries - 1
    BY ONLY <1>1, <1>2, <1>3
  <2>2. (NextIndex(h) + j) % Entries = i % Entries
    <3>1. (((h + 1) % IndexMod) + j) % IndexMod = i % IndexMod
      <4>1. (((h + 1) % IndexMod) + j) % IndexMod = ((h + 1) + j) % IndexMod
        BY ONLY <1>2, <2>1, ModSum
      <4> QED BY ONLY <2>1, <4>1
    <3>2. (i % IndexMod) % Entries = i % Entries
      BY ONLY <2>1, PlaceWraps
    <3>3. (h + 1) % IndexMod \in Int
      BY ONLY <1>2, <2>1, DivMod
    <3>4. NextIndex(h) + j \in Int /\ NextIndex(h) + j = ((h + 1) % IndexMod) + j
      BY ONLY <2>1, <3>3 DEF NextIndex
    <3>5. ((NextIndex(h) + j) % IndexMod) % Entries = (NextIndex(h) + j) % Entries
      BY ONLY <3>4, PlaceWraps
    <3> QED BY ONLY <3>1, <3>2, <3>4, <3>5
  <2>3. i % Entries # h % Entries
    BY ONLY <1>2, <2>1, PlacesDiffer
  <2>4. i % Entries \in 0 .. Entries - 1
    BY ONLY <1>2, <2>1, DivMod
  <2> HIDE DEF i
  <2>5. w[i % Entries] = b[i % Entries]
    BY ONLY <2>3, <2>4, b \in Buffers DEF Buffers
  <2> QED BY ONLY <2>2, <2>5 DEF i
<1> QED BY ONLY <1>1, <1>3 DEF Reaped, c

\* A ring stays clean only if the entry is the tenant's and there was room.
LEMMA PostClean ==
  ASSUME NEW Q \in Postings, NEW r \in RingIds, NEW e \in Completions, Q.ring[r].in_use,
         CqPost(Q, r, e).ring[r].clean
  PROVE  Q.ring[r].clean /\ ~IsFull(Q, r) /\ e.reg = Q.ring[r].reg
<1> DEFINE ok   == Q.ring[r].clean /\ ~IsFull(Q, r) /\ e.reg = Q.ring[r].reg
           cell == [Q.ring[r] EXCEPT !.cq_tail = NextIndex(@), !.clean = ok]
           R    == [Q.ring EXCEPT ![r] = cell]
           S    == [R EXCEPT ![r].waiting = FALSE]
<1>1. Q.ring \in RingTables /\ Q.ring[r] \in RingRecords
  BY DEF Postings, RingTables
<1>2. [Q.ring EXCEPT
         ![r].cq_tail = NextIndex(@),
         ![r].clean = @ /\ ~IsFull(Q, r) /\ e.reg = Q.ring[r].reg] = R
  BY ONLY <1>1 DEF RingTables, RingRecords
<1>3. CqPost(Q, r, e).ring = S
  BY ONLY <1>2, Q.ring[r].in_use DEF CqPost, Wake
<1> HIDE DEF ok
<1>4. cell.clean = ok /\ S[r].clean = cell.clean
  BY ONLY <1>1, r \in RingIds DEF RingTables, RingRecords
<1>5. ok
  BY ONLY <1>3, <1>4, CqPost(Q, r, e).ring[r].clean
<1> QED BY ONLY <1>5 DEF ok

\* What a posting that leaves the ring clean does to the books.
LEMMA PostCq ==
  ASSUME NEW Q \in Postings, NEW r \in RingIds, NEW e \in Completions, Q.ring[r].in_use,
         CqPost(Q, r, e).ring[r].clean, Trim(Q.ring[r], Q.mem[r]),
         e.kind = "done" => e = Done([ud |-> e.ud, reg |-> e.reg])
  PROVE  LET N == CqPost(Q, r, e)
             c == (Q.ring[r].cq_tail - Q.mem[r].head) % IndexMod
         IN /\ Trim(N.ring[r], N.mem[r])
            /\ \A u \in Cookies :
                 CqOf(N.ring[r], N.mem[r], u) =
                   IF e = Done([ud |-> u, reg |-> Q.ring[r].reg])
                   THEN CqOf(Q.ring[r], Q.mem[r], u) \cup {c}
                   ELSE CqOf(Q.ring[r], Q.mem[r], u)
<1> DEFINE N == CqPost(Q, r, e)
           t == Q.ring[r].cq_tail
           h == Q.mem[r].head
           b == Q.mem[r].buf
           c == (t - h) % IndexMod
           w == [b EXCEPT ![t % Entries] = e]
           k == Q.ring[r].reg
<1>1. /\ t \in Indices /\ h \in Indices /\ b \in Buffers
  BY DEF Postings, RingTables, RingRecords, Memories, Memory, Buffers
<1>2. /\ N.ring[r].cq_tail = NextIndex(t) /\ N.mem[r].head = h /\ N.mem[r].buf = w
      /\ N.ring[r].reg = k
  <2>1. /\ N \in Postings
        /\ N.wakes = IF Q.ring[r].waiting THEN Q.wakes \cup {Q.ring[r].owner} ELSE Q.wakes
        /\ \A s \in RingIds : s # r => N.ring[s] = Q.ring[s] /\ N.mem[s] = Q.mem[s]
        /\ ~N.ring[r].waiting
        /\ SameTenants(Q.ring, N.ring)
        /\ N.ring[r].cq_tail = NextIndex(Q.ring[r].cq_tail)
        /\ N.mem[r].sq = Q.mem[r].sq /\ N.mem[r].head = Q.mem[r].head
        /\ N.mem[r].buf = [Q.mem[r].buf EXCEPT ![Q.ring[r].cq_tail % Entries] = e]
    BY PostCells
  <2> QED BY ONLY <2>1, r \in RingIds DEF SameTenants
<1>3. Q.ring[r].clean /\ ~IsFull(Q, r) /\ e.reg = k
  BY PostClean
<1>4. c \in 0 .. IndexMod - 1 /\ c < Entries
  <2>1. c \in 0 .. IndexMod - 1
    BY ONLY <1>1, CountSteps
  <2>2. ~(c >= Entries)
    BY ONLY <1>3 DEF IsFull, UnreapedCount
  <2> HIDE DEF c
  <2> QED BY ONLY <2>1, <2>2, Numbers
<1>5. /\ c \in Nat /\ (NextIndex(t) - h) % IndexMod = c + 1
      /\ w[(h + c) % Entries] = e
      /\ \A j \in 0 .. c - 1 : w[(h + j) % Entries] = b[(h + j) % Entries]
  <2> HIDE DEF t, h, b
  <2>1. (t - h) % IndexMod < Entries
    BY ONLY <1>4
  <2>2. Posted(t, h, b, w, e)
    BY ONLY <1>1, <2>1, PostMoves
  <2> QED BY ONLY <2>2 DEF Posted
<1>6. /\ (N.ring[r].cq_tail - N.mem[r].head) % IndexMod = c + 1
      /\ N.mem[r].head = h /\ N.mem[r].buf = w /\ N.ring[r].reg = k
  BY ONLY <1>2, <1>5
<1>7. /\ c <= Entries
      /\ \A j \in 0 .. c - 1 : b[(h + j) % Entries].kind = "done" =>
           b[(h + j) % Entries] = Done([ud |-> b[(h + j) % Entries].ud, reg |-> k])
  BY DEF Trim
<1> DEFINE old(j) == b[(h + j) % Entries]
           new(j) == w[(h + j) % Entries]
<1>8. /\ c \in Nat /\ c + 1 <= Entries /\ new(c) = e
      /\ \A j \in 0 .. c - 1 : new(j) = old(j)
      /\ \A j \in 0 .. c : j # c => j \in 0 .. c - 1
      /\ \A j \in 0 .. c - 1 : j \in 0 .. c
      /\ (c + 1) - 1 = c /\ c \in 0 .. c
  <2>1. /\ c \in Nat /\ new(c) = e /\ \A j \in 0 .. c - 1 : new(j) = old(j)
    BY ONLY <1>5
  <2> HIDE DEF c
  <2>2. c + 1 <= Entries
    BY ONLY <1>4, <2>1, Numbers
  <2> QED BY ONLY <2>1, <2>2
<1>9. /\ \A j \in 0 .. c - 1 : old(j).kind = "done" => old(j) = Done([ud |-> old(j).ud, reg |-> k])
      /\ \A u : CqOf(Q.ring[r], Q.mem[r], u) =
                  {j \in 0 .. c - 1 : old(j) = Done([ud |-> u, reg |-> k])}
  BY ONLY <1>7 DEF CqOf
<1>10. /\ Trim(N.ring[r], N.mem[r]) <=>
            /\ c + 1 <= Entries
            /\ \A j \in 0 .. (c + 1) - 1 :
                 new(j).kind = "done" => new(j) = Done([ud |-> new(j).ud, reg |-> k])
       /\ \A u : CqOf(N.ring[r], N.mem[r], u) =
                  {j \in 0 .. (c + 1) - 1 : new(j) = Done([ud |-> u, reg |-> k])}
  <2> HIDE DEF N, h, w, k, c
  <2> QED BY ONLY <1>6 DEF Trim, CqOf
<1>11. e.kind = "done" => e = Done([ud |-> e.ud, reg |-> k])
  BY ONLY <1>3, e.kind = "done" => e = Done([ud |-> e.ud, reg |-> e.reg])
<1> HIDE DEF N, h, w, k, c, old, new, b, t
<1>12. Trim(N.ring[r], N.mem[r])
  BY ONLY <1>8, <1>9, <1>10, <1>11
<1>13. ASSUME NEW u \in Cookies
       PROVE  CqOf(N.ring[r], N.mem[r], u) =
                IF e = Done([ud |-> u, reg |-> k])
                THEN CqOf(Q.ring[r], Q.mem[r], u) \cup {c} ELSE CqOf(Q.ring[r], Q.mem[r], u)
  <2> DEFINE x == Done([ud |-> u, reg |-> k])
  <2>1. CqOf(N.ring[r], N.mem[r], u) = {j \in 0 .. c : new(j) = x}
    BY ONLY <1>8, <1>10
  <2>2. CqOf(Q.ring[r], Q.mem[r], u) = {j \in 0 .. c - 1 : old(j) = x}
    BY ONLY <1>9
  <2> HIDE DEF x
  <2>3. {j \in 0 .. c : new(j) = x} =
          IF e = x THEN {j \in 0 .. c - 1 : old(j) = x} \cup {c}
          ELSE {j \in 0 .. c - 1 : old(j) = x}
    BY ONLY <1>8
  <2> QED BY ONLY <2>1, <2>2, <2>3 DEF x
<1> QED BY ONLY <1>12, <1>13 DEF N, c, t, h, k

\* The books of a posting, with T for the routing and W for what is awaited.
QBooks(Q, T, W) == \A r \in RingIds : BooksAt(Q.ring[r], Q.mem[r], T, W[r], r)

\* The books, but for the answer to u, which is in none of the three places.
Owed(x, m, T, w, r, u) ==
  x.in_use /\ x.clean =>
    /\ Trim(x, m)
    /\ \A v \in Cookies : v # u =>
         Placed(SqOf(m, v), DevOf(T, r, x.reg, v), CqOf(x, m, v), v \in w)
    /\ SqOf(m, u) = {} /\ DevOf(T, r, x.reg, u) = {} /\ CqOf(x, m, u) = {} /\ u \in w

\* What a posting to a ring in use leaves, with the queue's part left out.
LEMMA PostFrame ==
  ASSUME NEW Q \in Postings, NEW r \in RingIds, NEW e \in Completions, Q.ring[r].in_use
  PROVE  LET N == CqPost(Q, r, e) IN
         /\ \A s \in RingIds : s # r => N.ring[s] = Q.ring[s] /\ N.mem[s] = Q.mem[s]
         /\ N.mem[r].sq = Q.mem[r].sq /\ N.ring[r].reg = Q.ring[r].reg
<1> DEFINE N == CqPost(Q, r, e)
<1>1. /\ N \in Postings
      /\ N.wakes = IF Q.ring[r].waiting THEN Q.wakes \cup {Q.ring[r].owner} ELSE Q.wakes
      /\ \A s \in RingIds : s # r => N.ring[s] = Q.ring[s] /\ N.mem[s] = Q.mem[s]
      /\ ~N.ring[r].waiting
      /\ SameTenants(Q.ring, N.ring)
      /\ N.ring[r].cq_tail = NextIndex(Q.ring[r].cq_tail)
      /\ N.mem[r].sq = Q.mem[r].sq /\ N.mem[r].head = Q.mem[r].head
      /\ N.mem[r].buf = [Q.mem[r].buf EXCEPT ![Q.ring[r].cq_tail % Entries] = e]
  BY PostCells
<1> HIDE DEF N
<1>2. N.ring[r].reg = Q.ring[r].reg
  BY ONLY <1>1, r \in RingIds DEF SameTenants
<1> QED BY ONLY <1>1, <1>2 DEF N

\* An event or a refusal is no answer.
LEMMA PostNoAnswer ==
  ASSUME NEW Q \in Postings, NEW r \in RingIds, NEW e \in Completions, e.kind # "done",
         NEW T, NEW W, QBooks(Q, T, W)
  PROVE  QBooks(CqPost(Q, r, e), T, W)
<1> DEFINE N == CqPost(Q, r, e)
<1>1. CASE ~Q.ring[r].in_use
  BY <1>1 DEF CqPost
<1>2. CASE Q.ring[r].in_use
  <2>1. /\ \A s \in RingIds : s # r => N.ring[s] = Q.ring[s] /\ N.mem[s] = Q.mem[s]
        /\ N.mem[r].sq = Q.mem[r].sq /\ N.ring[r].reg = Q.ring[r].reg
    BY <1>2, PostFrame
  <2>2. ASSUME N.ring[r].clean
        PROVE  BooksAt(N.ring[r], N.mem[r], T, W[r], r)
    <3>1. Q.ring[r].clean
      BY <1>2, <2>2, PostClean
    <3>2. /\ Trim(Q.ring[r], Q.mem[r])
          /\ \A u \in Cookies : Placed(SqOf(Q.mem[r], u), DevOf(T, r, Q.ring[r].reg, u),
                                       CqOf(Q.ring[r], Q.mem[r], u), u \in W[r])
      BY ONLY QBooks(Q, T, W), r \in RingIds, <1>2, <3>1 DEF QBooks, BooksAt
    <3>3. \A u : e # Done([ud |-> u, reg |-> Q.ring[r].reg])
      BY DEF Done
    <3>4. /\ Trim(N.ring[r], N.mem[r])
          /\ \A u \in Cookies :
                 CqOf(N.ring[r], N.mem[r], u) =
                   IF e = Done([ud |-> u, reg |-> Q.ring[r].reg])
                   THEN CqOf(Q.ring[r], Q.mem[r], u)
                          \cup {(Q.ring[r].cq_tail - Q.mem[r].head) % IndexMod}
                   ELSE CqOf(Q.ring[r], Q.mem[r], u)
      BY <1>2, <2>2, <3>2, PostCq
    <3> HIDE DEF N
    <3>5. \A u : SqOf(N.mem[r], u) = SqOf(Q.mem[r], u)
      BY ONLY <2>1 DEF SqOf
    <3>6. \A u \in Cookies : CqOf(N.ring[r], N.mem[r], u) = CqOf(Q.ring[r], Q.mem[r], u)
      BY ONLY <3>3, <3>4
    <3> QED BY ONLY <2>1, <3>2, <3>4, <3>5, <3>6 DEF BooksAt
  <2> HIDE DEF N
  <2>3. BooksAt(N.ring[r], N.mem[r], T, W[r], r)
    BY ONLY <2>2 DEF BooksAt
  <2>4. QBooks(N, T, W)
    BY ONLY QBooks(Q, T, W), <2>1, <2>3 DEF QBooks
  <2> QED BY ONLY <2>4 DEF N
<1> QED BY <1>1, <1>2

\* An answer that was owed puts the books right again.
LEMMA PostAnswer ==
  ASSUME NEW Q \in Postings, NEW r \in RingIds, NEW u \in Cookies, NEW k \in 0 .. MaxRegs,
         NEW T, NEW W,
         \A s \in RingIds : s # r => BooksAt(Q.ring[s], Q.mem[s], T, W[s], s),
         k = Q.ring[r].reg => Owed(Q.ring[r], Q.mem[r], T, W[r], r, u)
  PROVE  QBooks(CqPost(Q, r, Done([ud |-> u, reg |-> k])), T, W)
<1> DEFINE e == Done([ud |-> u, reg |-> k])
           N == CqPost(Q, r, e)
           x == Q.ring[r]
           m == Q.mem[r]
           c == (Q.ring[r].cq_tail - Q.mem[r].head) % IndexMod
<1>1. /\ e \in Completions /\ e.kind = "done" /\ e.ud = u /\ e.reg = k
      /\ e = Done([ud |-> e.ud, reg |-> e.reg])
      /\ \A v, l : e = Done([ud |-> v, reg |-> l]) => v = u
  BY Numbers DEF Done, Completions
<1> HIDE DEF e
<1>2. CASE ~x.in_use
  <2>1. N = Q
    BY ONLY <1>2 DEF CqPost
  <2>2. BooksAt(Q.ring[r], Q.mem[r], T, W[r], r)
    BY ONLY <1>2 DEF BooksAt
  <2> QED BY <2>1, <2>2 DEF QBooks, e
<1>3. CASE x.in_use
  <2>1. /\ \A s \in RingIds : s # r => N.ring[s] = Q.ring[s] /\ N.mem[s] = Q.mem[s]
        /\ N.mem[r].sq = Q.mem[r].sq /\ N.ring[r].reg = Q.ring[r].reg
    BY <1>1, <1>3, PostFrame
  <2>2. ASSUME N.ring[r].clean
        PROVE  BooksAt(N.ring[r], N.mem[r], T, W[r], r)
    <3>1. x.clean /\ e.reg = x.reg
      BY <1>1, <1>3, <2>2, PostClean
    <3>2. Owed(x, m, T, W[r], r, u) /\ k = x.reg
      BY ONLY <1>1, <3>1, k = Q.ring[r].reg => Owed(Q.ring[r], Q.mem[r], T, W[r], r, u)
    <3> HIDE DEF c, x, m
    <3>3. /\ Trim(x, m)
          /\ \A v \in Cookies : v # u =>
               Placed(SqOf(m, v), DevOf(T, r, x.reg, v), CqOf(x, m, v), v \in W[r])
          /\ SqOf(m, u) = {} /\ DevOf(T, r, x.reg, u) = {} /\ CqOf(x, m, u) = {} /\ u \in W[r]
      BY ONLY <1>3, <3>1, <3>2 DEF Owed
    <3>4. /\ Trim(N.ring[r], N.mem[r])
          /\ \A v \in Cookies :
                 CqOf(N.ring[r], N.mem[r], v) =
                   IF e = Done([ud |-> v, reg |-> Q.ring[r].reg])
                   THEN CqOf(Q.ring[r], Q.mem[r], v)
                          \cup {(Q.ring[r].cq_tail - Q.mem[r].head) % IndexMod}
                   ELSE CqOf(Q.ring[r], Q.mem[r], v)
      BY <1>1, <1>3, <2>2, <3>3, PostCq DEF x, m
    <3>5. e = Done([ud |-> u, reg |-> Q.ring[r].reg])
      BY ONLY <3>2 DEF e, x
    <3> HIDE DEF N
    <3>6. \A v : SqOf(N.mem[r], v) = SqOf(m, v)
      BY ONLY <2>1 DEF SqOf, m
    <3>7. \A v \in Cookies : CqOf(N.ring[r], N.mem[r], v) =
                               IF v = u THEN CqOf(x, m, v) \cup {c} ELSE CqOf(x, m, v)
      BY ONLY <1>1, <3>4, <3>5 DEF x, m, c
    <3>8. CqOf(N.ring[r], N.mem[r], u) = {c} /\ One({c})
      <4>1. One({c})
        BY ONLY TRUE DEF One
      <4> QED BY ONLY <3>3, <3>7, <4>1, u \in Cookies
    <3>9. N.ring[r].reg = x.reg
      BY ONLY <2>1 DEF x
    <3>10. ASSUME NEW v \in Cookies
           PROVE  Placed(SqOf(N.mem[r], v), DevOf(T, r, x.reg, v),
                         CqOf(N.ring[r], N.mem[r], v), v \in W[r])
      <4>1. CASE v = u
        BY ONLY <3>3, <3>6, <3>8, <4>1 DEF Placed
      <4>2. CASE v # u
        <5>1. CqOf(N.ring[r], N.mem[r], v) = CqOf(x, m, v)
          BY ONLY <3>7, <3>10, <4>2
        <5> QED BY ONLY <3>3, <3>6, <3>10, <4>2, <5>1
      <4> QED BY ONLY <4>1, <4>2
    <3> QED BY ONLY <3>4, <3>9, <3>10 DEF BooksAt
  <2> HIDE DEF N
  <2>3. BooksAt(N.ring[r], N.mem[r], T, W[r], r)
    BY ONLY <2>2 DEF BooksAt
  <2>4. QBooks(N, T, W)
    BY ONLY \A s \in RingIds : s # r => BooksAt(Q.ring[s], Q.mem[s], T, W[s], s), <2>1, <2>3 DEF QBooks
  <2> QED BY ONLY <2>4 DEF N, e
<1> QED BY ONLY <1>2, <1>3

\* Taking the first submission moves the others up.
LEMMA TailSq ==
  ASSUME NEW m, NEW n, NEW u, m.sq \in Seq(Submissions), m.sq # <<>>, n.sq = Tail(m.sq)
  PROVE  /\ Head(m.sq) # [op |-> "IO", ud |-> u] =>
              (SqOf(m, u) = {} <=> SqOf(n, u) = {}) /\ (One(SqOf(m, u)) <=> One(SqOf(n, u)))
         /\ Head(m.sq) = [op |-> "IO", ud |-> u] =>
              SqOf(m, u) # {} /\ (One(SqOf(m, u)) => SqOf(n, u) = {})
<1> DEFINE q == m.sq
           y == Tail(q)
           z == [op |-> "IO", ud |-> u]
           A == SqOf(m, u)
           B == SqOf(n, u)
<1>1. q \in Seq(Submissions) /\ q # <<>>
  OBVIOUS
<1> HIDE DEF q
<1>2. /\ Len(q) \in Nat /\ Len(q) >= 1 /\ Len(y) = Len(q) - 1 /\ Head(q) = q[1]
      /\ \A i \in 1 .. Len(q) - 1 : y[i] = q[i + 1]
  BY ONLY <1>1
<1> HIDE DEF y, z
<1>3. A = {i \in 1 .. Len(q) : q[i] = z} /\ B = {i \in 1 .. Len(y) : y[i] = z}
  BY DEF SqOf, q, y, z
<1>4. A \in SUBSET Int /\ B \in SUBSET Int
  BY ONLY <1>2, <1>3
<1> HIDE DEF A, B
<1>5. 1 \in A <=> Head(q) = z
  BY ONLY <1>2, <1>3
<1>6. ASSUME NEW i \in Int, i # 0 PROVE i \in B <=> i + 1 \in A
  <2>1. i \in 1 .. Len(y) <=> i + 1 \in 1 .. Len(q)
    BY ONLY <1>2, <1>6
  <2>2. i \in 1 .. Len(y) => y[i] = q[i + 1]
    BY ONLY <1>2
  <2> QED BY ONLY <1>3, <2>1, <2>2
<1>7. 0 \notin B
  BY ONLY <1>2, <1>3
<1>8. ASSUME Head(q) # z PROVE (A = {} <=> B = {}) /\ (One(A) <=> One(B))
  <2>1. \A i \in Int : i \in B <=> i + 1 \in A
    BY ONLY <1>5, <1>6, <1>7, <1>8
  <2> QED BY ONLY <1>4, <2>1, Shifted
<1>9. ASSUME Head(q) = z, One(A) PROVE B = {}
  <2>1. \A i \in A : i = 1
    BY ONLY <1>5, <1>9 DEF One
  <2>2. ASSUME NEW i \in B PROVE FALSE
    <3>1. i \in Int /\ i # 0
      BY ONLY <1>4, <1>7, <2>2
    <3>2. i + 1 \in A
      BY ONLY <1>6, <2>2, <3>1
    <3> QED BY ONLY <2>1, <3>1, <3>2
  <2> QED BY ONLY <2>2
<1> QED BY ONLY <1>5, <1>8, <1>9 DEF A, B, q, z

\* The books once a submission is taken: an event's or a cancellation leaves them as
\* they are, a request's leaves its answer owed.
LEMMA TakenBooks ==
  ASSUME NEW x, NEW m, NEW n, NEW T, NEW w, NEW r, BooksAt(x, m, T, w, r),
         m.sq \in Seq(Submissions), m.sq # <<>>, n.sq = Tail(m.sq),
         n.head = m.head, n.buf = m.buf
  PROVE  /\ Head(m.sq).op # "IO" => BooksAt(x, n, T, w, r)
         /\ Head(m.sq).op = "IO" => Owed(x, n, T, w, r, Head(m.sq).ud)
<1> DEFINE a == Head(m.sq)
<1>1. a \in Submissions
  <2> DEFINE q == m.sq
  <2>1. q \in Seq(Submissions) /\ q # <<>>
    OBVIOUS
  <2> HIDE DEF q
  <2>2. Head(q) \in Submissions
    BY ONLY <2>1
  <2> QED BY ONLY <2>2 DEF q
<1>2. a.op = "IO" => a = [op |-> "IO", ud |-> a.ud] /\ a.ud \in Cookies
  BY ONLY <1>1 DEF Submissions
<1>3. \A v : a = [op |-> "IO", ud |-> v] => a.op = "IO" /\ a.ud = v
  OBVIOUS
<1>4. \A v : /\ a # [op |-> "IO", ud |-> v] =>
                  (SqOf(m, v) = {} <=> SqOf(n, v) = {}) /\ (One(SqOf(m, v)) <=> One(SqOf(n, v)))
             /\ a = [op |-> "IO", ud |-> v] =>
                  SqOf(m, v) # {} /\ (One(SqOf(m, v)) => SqOf(n, v) = {})
  BY TailSq
<1>5. (Trim(x, m) => Trim(x, n)) /\ \A v : CqOf(x, n, v) = CqOf(x, m, v)
  BY ONLY n.head = m.head, n.buf = m.buf DEF Trim, CqOf
<1> HIDE DEF a
<1>6. SUFFICES ASSUME x.in_use, x.clean
               PROVE  (a.op # "IO" => BooksAt(x, n, T, w, r))
                      /\ (a.op = "IO" => Owed(x, n, T, w, r, a.ud))
  BY DEF BooksAt, Owed, a
<1>7. /\ Trim(x, m)
      /\ \A v \in Cookies : Placed(SqOf(m, v), DevOf(T, r, x.reg, v), CqOf(x, m, v), v \in w)
  BY ONLY <1>6, BooksAt(x, m, T, w, r) DEF BooksAt
<1>8. ASSUME NEW v \in Cookies, a # [op |-> "IO", ud |-> v]
      PROVE  Placed(SqOf(n, v), DevOf(T, r, x.reg, v), CqOf(x, n, v), v \in w)
  BY ONLY <1>4, <1>5, <1>7, <1>8 DEF Placed
<1>9. CASE a.op # "IO"
  <2>1. \A v \in Cookies : a # [op |-> "IO", ud |-> v]
    BY ONLY <1>3, <1>9
  <2> QED BY ONLY <1>5, <1>7, <1>8, <1>9, <2>1 DEF BooksAt
<1>10. CASE a.op = "IO"
  <2>1. \A v \in Cookies : v # a.ud => a # [op |-> "IO", ud |-> v]
    BY ONLY <1>3
  <2>2. Placed(SqOf(m, a.ud), DevOf(T, r, x.reg, a.ud), CqOf(x, m, a.ud), a.ud \in w)
    BY ONLY <1>2, <1>7, <1>10
  <2>3. SqOf(m, a.ud) # {} /\ (One(SqOf(m, a.ud)) => SqOf(n, a.ud) = {})
    BY ONLY <1>2, <1>4, <1>10
  <2>4. /\ SqOf(n, a.ud) = {} /\ DevOf(T, r, x.reg, a.ud) = {} /\ CqOf(x, m, a.ud) = {}
        /\ a.ud \in w
    BY ONLY <2>2, <2>3 DEF Placed
  <2> QED BY ONLY <1>5, <1>7, <1>8, <1>10, <2>1, <2>4 DEF Owed
<1> QED BY ONLY <1>9, <1>10

RoutingTables == [Slots -> Routings \cup {None}]

\* A request slot is claimed.
LEMMA Claimed ==
  ASSUME NEW T \in RoutingTables, NEW f \in Slots, T[f] = None, NEW t \in Routings,
         NEW r \in RingIds, NEW k \in 0 .. MaxRegs, NEW u \in Cookies
  PROVE  DevOf([T EXCEPT ![f] = t], r, k, u) =
           IF t = [ring |-> r, ud |-> u, reg |-> k] THEN DevOf(T, r, k, u) \cup {f}
           ELSE DevOf(T, r, k, u)
<1> DEFINE y == [ring |-> r, ud |-> u, reg |-> k]
           U == [T EXCEPT ![f] = t]
<1>1. y \in Routings
  BY DEF Routings
<1>2. T[f] # y
  BY ONLY <1>1, T[f] = None, NoneAssumption
<1> HIDE DEF y
<1>3. \A i \in Slots : U[i] = IF i = f THEN t ELSE T[i]
  BY DEF RoutingTables
<1> HIDE DEF U
<1>4. {i \in Slots : U[i] = y} = IF t = y THEN {i \in Slots : T[i] = y} \cup {f}
                                ELSE {i \in Slots : T[i] = y}
  BY ONLY <1>2, <1>3, f \in Slots
<1> QED BY ONLY <1>4 DEF U, y, DevOf

\* A request slot is given back.
LEMMA GivenBack ==
  ASSUME NEW T \in RoutingTables, NEW f \in Slots,
         NEW r \in RingIds, NEW k \in 0 .. MaxRegs, NEW u \in Cookies
  PROVE  DevOf([T EXCEPT ![f] = None], r, k, u) = DevOf(T, r, k, u) \ {f}
<1> DEFINE y == [ring |-> r, ud |-> u, reg |-> k]
           U == [T EXCEPT ![f] = None]
<1>1. y \in Routings
  BY DEF Routings
<1>2. None # y
  BY ONLY <1>1, NoneAssumption
<1> HIDE DEF y
<1>3. \A i \in Slots : U[i] = IF i = f THEN None ELSE T[i]
  BY DEF RoutingTables
<1> HIDE DEF U
<1>4. {i \in Slots : U[i] = y} = {i \in Slots : T[i] = y} \ {f}
  BY ONLY <1>2, <1>3, f \in Slots
<1> QED BY ONLY <1>4 DEF U, y, DevOf

\* The inductive invariant.
AInv == WInv /\ Books /\ Pool /\ Numbered

LEMMA PostTenants ==
  ASSUME NEW Q \in Postings, NEW r \in RingIds, NEW e \in Completions
  PROVE  SameTenants(Q.ring, CqPost(Q, r, e).ring)
<1> DEFINE N == CqPost(Q, r, e)
<1>1. CASE ~Q.ring[r].in_use
  BY <1>1 DEF CqPost, SameTenants
<1>2. CASE Q.ring[r].in_use
  <2>1. /\ N \in Postings
        /\ N.wakes = IF Q.ring[r].waiting THEN Q.wakes \cup {Q.ring[r].owner} ELSE Q.wakes
        /\ \A s \in RingIds : s # r => N.ring[s] = Q.ring[s] /\ N.mem[s] = Q.mem[s]
        /\ ~N.ring[r].waiting
        /\ SameTenants(Q.ring, N.ring)
    BY <1>2, PostCells
  <2> QED BY ONLY <2>1
<1> QED BY ONLY <1>1, <1>2

\* An action that ends with a posting.
LEMMA PostedBooks ==
  ASSUME NEW Q, Publish(Q), QBooks(Q, routing', await') PROVE Books'
<1>1. ring' = Q.ring /\ mem' = Q.mem
  BY DEF Publish
<1> QED BY ONLY <1>1, QBooks(Q, routing', await') DEF QBooks, Books

LEMMA PostedNumbers ==
  ASSUME NEW Q, Publish(Q), SameTenants(ring, Q.ring), Numbered, regs' = regs,
         \A i \in Slots : routing'[i] # None => routing'[i].reg <= regs
  PROVE  Numbered'
<1>1. ring' = Q.ring
  BY DEF Publish
<1>2. \A r \in RingIds : ring'[r].reg = ring[r].reg
  BY ONLY <1>1, SameTenants(ring, Q.ring) DEF SameTenants
<1>3. \A r \in RingIds : ring'[r].reg <= regs
  BY ONLY <1>2, Numbered DEF Numbered
<1> QED BY ONLY <1>3, regs' = regs,
                \A i \in Slots : routing'[i] # None => routing'[i].reg <= regs DEF Numbered

\* The queues once a submission is taken.
LEMMA ConsumedCells ==
  ASSUME AInv, drain # None, mem[drain].sq # <<>>
  PROVE  /\ drain \in RingIds /\ Consumed.ring = ring
         /\ \A s \in RingIds : s # drain => Consumed.mem[s] = mem[s]
         /\ mem[drain].sq \in Seq(Submissions)
         /\ Consumed.mem[drain].sq = Tail(mem[drain].sq)
         /\ Consumed.mem[drain].head = mem[drain].head
         /\ Consumed.mem[drain].buf = mem[drain].buf
<1>1. drain \in RingIds /\ mem \in Memories /\ mem[drain] \in Memory
  BY DEF AInv, WInv, RInv, Types, Memories
<1>2. Consumed.ring = ring /\ Consumed.mem = [mem EXCEPT ![drain].sq = Tail(@)]
  BY DEF Consumed
<1> QED BY ONLY <1>1, <1>2 DEF Memories, Memory

LEMMA ConsumedBooks ==
  ASSUME AInv, drain # None, mem[drain].sq # <<>>
  PROVE  /\ \A s \in RingIds : s # drain =>
              BooksAt(Consumed.ring[s], Consumed.mem[s], routing, await[s], s)
         /\ Entry.op # "IO" => QBooks(Consumed, routing, await)
         /\ Entry.op = "IO" => Owed(Consumed.ring[drain], Consumed.mem[drain], routing,
                                    await[drain], drain, Entry.ud)
<1> DEFINE n == Consumed.mem[drain]
<1>1. /\ drain \in RingIds /\ Consumed.ring = ring
      /\ \A s \in RingIds : s # drain => Consumed.mem[s] = mem[s]
      /\ mem[drain].sq \in Seq(Submissions)
      /\ n.sq = Tail(mem[drain].sq)
      /\ n.head = mem[drain].head
      /\ n.buf = mem[drain].buf
  BY ConsumedCells
<1> HIDE DEF n
<1>2. \A s \in RingIds : BooksAt(ring[s], mem[s], routing, await[s], s)
  BY DEF AInv, Books
<1>3. /\ Head(mem[drain].sq).op # "IO" => BooksAt(ring[drain], n, routing, await[drain], drain)
      /\ Head(mem[drain].sq).op = "IO" =>
           Owed(ring[drain], n, routing, await[drain], drain, Head(mem[drain].sq).ud)
  <2>1. BooksAt(ring[drain], mem[drain], routing, await[drain], drain)
    BY ONLY <1>1, <1>2
  <2> QED BY ONLY <1>1, <2>1, mem[drain].sq # <<>>, TakenBooks
<1>4. \A s \in RingIds : s # drain =>
        BooksAt(Consumed.ring[s], Consumed.mem[s], routing, await[s], s)
  BY ONLY <1>1, <1>2
<1> QED BY ONLY <1>1, <1>3, <1>4 DEF QBooks, Entry, n

\* The answer that was owed is now with the device.
LEMMA ClaimedBooks ==
  ASSUME NEW x, NEW m, NEW T \in RoutingTables, NEW f \in Slots, T[f] = None, NEW w,
         NEW r \in RingIds, NEW u \in Cookies, x.reg \in 0 .. MaxRegs,
         Owed(x, m, T, w, r, u)
  PROVE  BooksAt(x, m, [T EXCEPT ![f] = [ring |-> r, ud |-> u, reg |-> x.reg]], w, r)
<1> DEFINE k == x.reg
           t == [ring |-> r, ud |-> u, reg |-> k]
           U == [T EXCEPT ![f] = t]
<1>1. k \in 0 .. MaxRegs
  OBVIOUS
<1> HIDE DEF k
<1>2. t \in Routings /\ \A v : t = [ring |-> r, ud |-> v, reg |-> k] => v = u
  BY ONLY <1>1, r \in RingIds, u \in Cookies DEF Routings
<1> HIDE DEF t
<1>3. ASSUME NEW v \in Cookies
      PROVE  DevOf(U, r, k, v) = IF t = [ring |-> r, ud |-> v, reg |-> k]
                                 THEN DevOf(T, r, k, v) \cup {f} ELSE DevOf(T, r, k, v)
  BY ONLY <1>1, <1>2, T \in RoutingTables, f \in Slots, T[f] = None, r \in RingIds, Claimed
<1> HIDE DEF U
<1>4. SUFFICES ASSUME x.in_use, x.clean PROVE BooksAt(x, m, U, w, r)
  BY DEF BooksAt, U, t, k
<1>5. /\ Trim(x, m)
      /\ \A v \in Cookies : v # u =>
           Placed(SqOf(m, v), DevOf(T, r, k, v), CqOf(x, m, v), v \in w)
      /\ SqOf(m, u) = {} /\ DevOf(T, r, k, u) = {} /\ CqOf(x, m, u) = {} /\ u \in w
  BY ONLY <1>4, Owed(x, m, T, w, r, u) DEF Owed, k
<1>6. DevOf(U, r, k, u) = {f} /\ One({f})
  <2>1. t = [ring |-> r, ud |-> u, reg |-> k]
    BY ONLY TRUE DEF t
  <2>2. DevOf(U, r, k, u) = {f}
    BY ONLY <1>3, <1>5, <2>1, u \in Cookies
  <2> QED BY ONLY <2>2 DEF One
<1>7. ASSUME NEW v \in Cookies
      PROVE  Placed(SqOf(m, v), DevOf(U, r, k, v), CqOf(x, m, v), v \in w)
  <2>1. CASE v = u
    BY ONLY <1>5, <1>6, <2>1 DEF Placed
  <2>2. CASE v # u
    <3>1. DevOf(U, r, k, v) = DevOf(T, r, k, v)
      BY ONLY <1>2, <1>3, <1>7, <2>2
    <3> QED BY ONLY <1>5, <1>7, <2>2, <3>1
  <2> QED BY ONLY <2>1, <2>2
<1> QED BY ONLY <1>5, <1>7 DEF BooksAt, k

\* Another ring's request changes nothing.
LEMMA ClaimedElsewhere ==
  ASSUME NEW x, NEW m, NEW T \in RoutingTables, NEW f \in Slots, T[f] = None, NEW w,
         NEW r \in RingIds, NEW t \in Routings, t.ring # r, x.reg \in 0 .. MaxRegs,
         BooksAt(x, m, T, w, r)
  PROVE  BooksAt(x, m, [T EXCEPT ![f] = t], w, r)
<1> DEFINE U == [T EXCEPT ![f] = t]
           k == x.reg
<1>1. k \in 0 .. MaxRegs
  OBVIOUS
<1> HIDE DEF k
<1>2. ASSUME NEW v \in Cookies PROVE DevOf(U, r, k, v) = DevOf(T, r, k, v)
  <2>1. t # [ring |-> r, ud |-> v, reg |-> k]
    BY ONLY t.ring # r
  <2>2. DevOf(U, r, k, v) = IF t = [ring |-> r, ud |-> v, reg |-> k]
                            THEN DevOf(T, r, k, v) \cup {f} ELSE DevOf(T, r, k, v)
    BY ONLY <1>1, <1>2, T \in RoutingTables, f \in Slots, T[f] = None, r \in RingIds,
            t \in Routings, Claimed
  <2> QED BY ONLY <2>1, <2>2
<1> HIDE DEF U
<1>3. BooksAt(x, m, U, w, r)
  BY ONLY <1>2, BooksAt(x, m, T, w, r) DEF BooksAt, k
<1> QED BY ONLY <1>3 DEF U

\* post_read and post_write: the answer is owed by the device, or given at once.
LEMMA PostIoBooks ==
  ASSUME AInv, drain # None, mem[drain].sq # <<>>, PostIo
  PROVE  Books' /\ Pool' /\ Numbered'
<1> DEFINE u == Entry.ud
           k == ring[drain].reg
<1>1. /\ drain \in RingIds /\ routing \in RoutingTables /\ k \in 0 .. MaxRegs
      /\ \A s \in RingIds : ring[s].reg \in 0 .. MaxRegs
      /\ Pool /\ Numbered /\ free \in Seq(Slots) /\ k <= regs
  <2>1. /\ drain \in RingIds /\ routing \in RoutingTables
        /\ \A s \in RingIds : ring[s].reg \in 0 .. MaxRegs
        /\ Pool /\ Numbered /\ free \in Seq(Slots)
    BY DEF AInv, WInv, RInv, Types, Rest, RoutingTables, RingTables, RingRecords
  <2> QED BY ONLY <2>1 DEF Numbered
<1>2. /\ Consumed \in Postings /\ SameTenants(ring, Consumed.ring) /\ Entry \in Submissions
      /\ Consumed.ring = ring
  BY ConsumedGood DEF AInv, WInv, Consumed
<1>3. u \in Cookies /\ Entry.op = "IO"
  BY ONLY <1>2, PostIo DEF Submissions, PostIo
<1>4. /\ \A s \in RingIds : s # drain =>
           BooksAt(Consumed.ring[s], Consumed.mem[s], routing, await[s], s)
      /\ Owed(Consumed.ring[drain], Consumed.mem[drain], routing, await[drain], drain, u)
  BY <1>3, ConsumedBooks
<1>5. await' = await /\ regs' = regs
  BY DEF PostIo, ghostVars
<1>6. CASE /\ free # <<>>
           /\ routing' = [routing EXCEPT ![free[Len(free)]] = Target]
           /\ free' = SubSeq(free, 1, Len(free) - 1)
           /\ Publish(Consumed)
  <2> DEFINE f == free[Len(free)]
             T == [routing EXCEPT ![f] = [ring |-> drain, ud |-> u, reg |-> k]]
  <2>1. routing' = T
    BY ONLY <1>6 DEF Target
  <2>2. /\ Len(free) \in Nat /\ Len(free) >= 1 /\ Len(free') = Len(free) - 1
        /\ \A i \in 1 .. Len(free) - 1 : free'[i] = free[i]
        /\ \A i \in 1 .. Len(free) : free[i] \in Slots
    <3>1. Len(free) \in Nat /\ Len(free) >= 1
      BY ONLY <1>1, <1>6
    <3>2. \A i \in 1 .. Len(free) - 1 : SubSeq(free, 1, Len(free) - 1)[i] = free[i]
      BY ONLY <1>1, <3>1
    <3>3. \A i \in 1 .. Len(free) : free[i] \in Slots
      BY ONLY <1>1
    <3>4. Len(SubSeq(free, 1, Len(free) - 1)) = Len(free) - 1
      <4> DEFINE n == Len(free) - 1
                 g == [i \in 1 .. n |-> free[i]]
      <4>1. SubSeq(free, 1, Len(free) - 1) = g
        BY ONLY <1>1, <3>1
      <4>2. n \in Nat
        BY ONLY <3>1
      <4> HIDE DEF n
      <4>3. Len(g) = n
        BY ONLY <3>3, <4>2
      <4> HIDE DEF g
      <4> QED BY ONLY <4>1, <4>3 DEF n
    <3> QED BY ONLY <1>6, <3>1, <3>2, <3>3, <3>4
  <2>3. f \in Slots /\ routing[f] = None
    <3>1. Len(free) \in 1 .. Len(free)
      BY ONLY <2>2
    <3> QED BY ONLY <1>1, <2>2, <3>1 DEF Pool
  <2> HIDE DEF f
  <2>4. [ring |-> drain, ud |-> u, reg |-> k] \in Routings
    BY ONLY <1>1, <1>3 DEF Routings
  <2>5. ASSUME NEW s \in RingIds PROVE BooksAt(Consumed.ring[s], Consumed.mem[s], T, await[s], s)
    <3>1. CASE s = drain
      <4>1. Owed(ring[s], Consumed.mem[s], routing, await[s], s, u)
        BY ONLY <1>2, <1>4, <3>1
      <4>2. BooksAt(ring[s], Consumed.mem[s],
                    [routing EXCEPT ![f] = [ring |-> s, ud |-> u, reg |-> ring[s].reg]], await[s], s)
        BY ONLY <1>1, <1>3, <2>3, <2>5, <4>1, ClaimedBooks
      <4> QED BY ONLY <1>2, <3>1, <4>2
    <3>2. CASE s # drain
      <4> DEFINE t == [ring |-> drain, ud |-> u, reg |-> k]
      <4>1. t.ring # s /\ t \in Routings
        BY ONLY <2>4, <3>2
      <4> HIDE DEF t
      <4>2. BooksAt(ring[s], Consumed.mem[s], routing, await[s], s) /\ ring[s].reg \in 0 .. MaxRegs
        BY ONLY <1>1, <1>2, <1>4, <2>5, <3>2
      <4>3. BooksAt(ring[s], Consumed.mem[s], [routing EXCEPT ![f] = t], await[s], s)
        BY ONLY <1>1, <2>3, <2>5, <4>1, <4>2, ClaimedElsewhere
      <4> QED BY ONLY <1>2, <4>3 DEF t
    <3> QED BY ONLY <3>1, <3>2
  <2>6. Books'
    <3>1. QBooks(Consumed, routing', await')
      BY ONLY <1>5, <2>1, <2>5 DEF QBooks
    <3> QED BY ONLY <1>6, <3>1, PostedBooks
  <2>7. \A i \in Slots : routing'[i] = IF i = f THEN [ring |-> drain, ud |-> u, reg |-> k]
                                       ELSE routing[i]
    BY ONLY <1>1, <2>1, <2>3 DEF RoutingTables
  <2>8. Pool'
    <3>1. \A i \in 1 .. Len(free) - 1 : i \in 1 .. Len(free) /\ i # Len(free)
      BY ONLY <2>2
    <3>2. \A i \in 1 .. Len(free) - 1 : free[i] \in Slots /\ free[i] # f /\ routing[free[i]] = None
      <4>1. Len(free) \in 1 .. Len(free)
        BY ONLY <2>2
      <4> QED BY ONLY <1>1, <2>2, <3>1, <4>1 DEF Pool, f
    <3>3. \A i \in 1 .. Len(free) - 1 : routing'[free'[i]] = None
      BY ONLY <2>2, <2>7, <3>2
    <3>4. \A i, j \in 1 .. Len(free) - 1 : free'[i] = free'[j] => i = j
      BY ONLY <1>1, <2>2, <3>1 DEF Pool
    <3> QED BY ONLY <2>2, <3>3, <3>4 DEF Pool
  <2>9. Numbered'
    <3>1. \A i \in Slots : routing'[i] # None => routing'[i].reg <= regs
      BY ONLY <1>1, <2>7 DEF Numbered
    <3> QED BY ONLY <1>1, <1>2, <1>5, <1>6, <3>1, PostedNumbers
  <2> QED BY ONLY <2>6, <2>8, <2>9
<1>7. CASE /\ Publish(CqPost(Consumed, drain, Done(Target)))
           /\ UNCHANGED <<routing, free>>
  <2> DEFINE e == Done([ud |-> u, reg |-> k])
             N == CqPost(Consumed, drain, e)
  <2>1. Done(Target) = e /\ e \in Completions
    BY ONLY <1>1, <1>3, Numbers DEF Target, Done, Completions
  <2>2. Publish(N)
    BY ONLY <1>7, <2>1
  <2>3. QBooks(N, routing, await)
    BY ONLY <1>1, <1>2, <1>3, <1>4, PostAnswer
  <2>4. SameTenants(ring, N.ring)
    BY ONLY <1>1, <1>2, <2>1, PostTenants
  <2> HIDE DEF N
  <2>5. Books'
    <3>1. QBooks(N, routing', await')
      BY ONLY <1>5, <1>7, <2>3
    <3> QED BY ONLY <2>2, <3>1, PostedBooks
  <2>6. Numbered'
    <3>1. \A i \in Slots : routing'[i] # None => routing'[i].reg <= regs
      BY ONLY <1>1, <1>7 DEF Numbered
    <3> QED BY ONLY <1>1, <1>5, <2>2, <2>4, <3>1, PostedNumbers
  <2>7. Pool'
    BY ONLY <1>1, <1>7 DEF Pool
  <2> QED BY ONLY <2>5, <2>6, <2>7
<1> QED BY ONLY <1>6, <1>7, PostIo DEF PostIo

\* post_event_sub and post_cancel: no answer is involved.
LEMMA PostOtherBooks ==
  ASSUME AInv, drain # None, mem[drain].sq # <<>>, PostEventSub \/ PostCancel
  PROVE  Books' /\ Pool' /\ Numbered'
<1>1. drain \in RingIds /\ Pool /\ Numbered /\ ring[drain].reg \in 0 .. MaxRegs
  BY DEF AInv, WInv, RInv, Types, RingTables, RingRecords
<1>2. Consumed \in Postings /\ SameTenants(ring, Consumed.ring) /\ Entry \in Submissions
  BY ConsumedGood DEF AInv, WInv
<1>3. Entry.op # "IO"
  BY DEF PostEventSub, PostCancel
<1>4. QBooks(Consumed, routing, await)
  BY <1>3, ConsumedBooks
<1>5. routing' = routing /\ free' = free /\ await' = await /\ regs' = regs
  BY DEF PostEventSub, PostCancel, ghostVars
<1> DEFINE e == SubErr(Target)
           N == CqPost(Consumed, drain, e)
<1>6. e \in Completions /\ e.kind # "done"
  <2>1. Target.ud \in Cookies /\ Target.reg \in 0 .. MaxRegs
    BY ONLY <1>1, <1>2 DEF Target, Submissions
  <2>2. Done(Target) \in Completions
    BY ONLY <2>1, Numbers DEF Done, Completions
  <2> QED BY ONLY <2>2 DEF SubErr, Completions
<1> HIDE DEF e
<1>7. QBooks(N, routing, await)
  BY ONLY <1>1, <1>2, <1>4, <1>6, PostNoAnswer
<1>8. SameTenants(ring, N.ring)
  <2>1. SameTenants(Consumed.ring, N.ring)
    BY ONLY <1>1, <1>2, <1>6, PostTenants
  <2> QED BY ONLY <1>2, <2>1 DEF SameTenants
<1>9. Publish(Consumed) \/ Publish(N)
  BY DEF PostEventSub, PostCancel, e
<1> HIDE DEF N
<1>10. Books'
  <2>1. QBooks(N, routing', await') /\ QBooks(Consumed, routing', await')
    BY ONLY <1>4, <1>5, <1>7
  <2> QED BY ONLY <1>9, <2>1, PostedBooks
<1>11. Numbered'
  <2>1. \A i \in Slots : routing'[i] # None => routing'[i].reg <= regs
    BY ONLY <1>1, <1>5 DEF Numbered
  <2> QED BY ONLY <1>1, <1>2, <1>5, <1>8, <1>9, <2>1, PostedNumbers
<1>12. Pool'
  BY ONLY <1>1, <1>5 DEF Pool
<1> QED BY ONLY <1>10, <1>11, <1>12

\* A request slot is given back: its answer is owed, and nothing else changes.
LEMMA GivenBackBooks ==
  ASSUME NEW x, NEW m, NEW T \in RoutingTables, NEW i \in Slots, T[i] \in Routings, NEW w,
         NEW r \in RingIds, x.reg \in 0 .. MaxRegs, BooksAt(x, m, T, w, r)
  PROVE  LET U == [T EXCEPT ![i] = None] IN
         /\ T[i].ring # r => BooksAt(x, m, U, w, r)
         /\ T[i].ring = r /\ T[i].reg = x.reg => Owed(x, m, U, w, r, T[i].ud)
<1> DEFINE U == [T EXCEPT ![i] = None]
           k == x.reg
           t == T[i]
<1>1. k \in 0 .. MaxRegs /\ t \in Routings
  OBVIOUS
<1>2. \A v : i \in DevOf(T, r, k, v) <=> t = [ring |-> r, ud |-> v, reg |-> k]
  BY ONLY i \in Slots DEF DevOf
<1> HIDE DEF k, t
<1>3. ASSUME NEW v \in Cookies PROVE DevOf(U, r, k, v) = DevOf(T, r, k, v) \ {i}
  BY ONLY <1>1, <1>3, T \in RoutingTables, i \in Slots, r \in RingIds, GivenBack
<1> HIDE DEF U
<1>4. ASSUME NEW v \in Cookies, t # [ring |-> r, ud |-> v, reg |-> k]
      PROVE  DevOf(U, r, k, v) = DevOf(T, r, k, v)
  BY ONLY <1>2, <1>3, <1>4
<1>5. CASE ~(x.in_use /\ x.clean)
  BY ONLY <1>5 DEF BooksAt, Owed, U, t
<1>6. CASE x.in_use /\ x.clean
  <2>1. /\ Trim(x, m)
        /\ \A v \in Cookies : Placed(SqOf(m, v), DevOf(T, r, k, v), CqOf(x, m, v), v \in w)
    BY ONLY <1>6, BooksAt(x, m, T, w, r) DEF BooksAt, k
  <2>2. ASSUME t.ring # r PROVE BooksAt(x, m, U, w, r)
    <3>1. \A v \in Cookies : t # [ring |-> r, ud |-> v, reg |-> k]
      BY ONLY <2>2
    <3>2. \A v \in Cookies : Placed(SqOf(m, v), DevOf(U, r, k, v), CqOf(x, m, v), v \in w)
      BY ONLY <1>4, <2>1, <3>1
    <3> QED BY ONLY <2>1, <3>2 DEF BooksAt, k
  <2>3. ASSUME t.ring = r, t.reg = k PROVE Owed(x, m, U, w, r, t.ud)
    <3>1. /\ t = [ring |-> r, ud |-> t.ud, reg |-> k] /\ t.ud \in Cookies
          /\ \A v \in Cookies : v # t.ud => t # [ring |-> r, ud |-> v, reg |-> k]
      BY ONLY <1>1, <2>3 DEF Routings
    <3>2. \A v \in Cookies : v # t.ud =>
            Placed(SqOf(m, v), DevOf(U, r, k, v), CqOf(x, m, v), v \in w)
      BY ONLY <1>4, <2>1, <3>1
    <3>3. i \in DevOf(T, r, k, t.ud)
      BY ONLY <1>2, <3>1
    <3>4. /\ SqOf(m, t.ud) = {} /\ One(DevOf(T, r, k, t.ud)) /\ CqOf(x, m, t.ud) = {}
          /\ t.ud \in w
      <4>1. Placed(SqOf(m, t.ud), DevOf(T, r, k, t.ud), CqOf(x, m, t.ud), t.ud \in w)
        BY ONLY <2>1, <3>1
      <4> QED BY ONLY <3>3, <4>1 DEF Placed
    <3>5. DevOf(U, r, k, t.ud) = {}
      <4>1. \A j \in DevOf(T, r, k, t.ud) : j = i
        BY ONLY <3>3, <3>4 DEF One
      <4>2. DevOf(U, r, k, t.ud) = DevOf(T, r, k, t.ud) \ {i}
        BY ONLY <1>3, <3>1
      <4> QED BY ONLY <4>1, <4>2
    <3> QED BY ONLY <2>1, <3>2, <3>4, <3>5 DEF Owed, k
  <2> QED BY ONLY <2>2, <2>3 DEF U, t, k
<1> QED BY ONLY <1>5, <1>6

\* complete_irq: the answer goes from the device to the queue, if the ring's tenant is
\* the one who asked.
LEMMA CompleteIrqBooks ==
  ASSUME AInv, CompleteIrq PROVE Books' /\ Pool' /\ Numbered'
<1>1. PICK i \in Slots :
        /\ routing[i] # None
        /\ routing' = [routing EXCEPT ![i] = None]
        /\ free' = Append(free, i)
        /\ Publish(CqPost(Queues, routing[i].ring, Done(routing[i])))
        /\ await' = await /\ regs' = regs
  BY DEF CompleteIrq, ghostVars
<1>2. /\ routing \in RoutingTables /\ \A s \in RingIds : ring[s].reg \in 0 .. MaxRegs
      /\ Pool /\ Numbered /\ free \in Seq(Slots)
      /\ \A s \in RingIds : BooksAt(ring[s], mem[s], routing, await[s], s)
  BY DEF AInv, WInv, RInv, Types, Rest, RoutingTables, RingTables, RingRecords, Books
<1> DEFINE t == routing[i]
           T == [routing EXCEPT ![i] = None]
           e == Done([ud |-> t.ud, reg |-> t.reg])
           N == CqPost(Queues, t.ring, e)
<1>3. /\ t \in Routings /\ t.ring \in RingIds /\ t.ud \in Cookies /\ t.reg \in 0 .. MaxRegs
      /\ Done(t) = e /\ e \in Completions
  <2>1. t \in Routings
    BY ONLY <1>1, <1>2 DEF RoutingTables
  <2> QED BY ONLY <2>1, Numbers DEF Routings, Done, Completions
<1>4. Queues \in Postings /\ Queues.ring = ring /\ Queues.mem = mem
  <2>1. Queues \in Postings
    BY QueuesGood DEF AInv, WInv
  <2> QED BY ONLY <2>1 DEF Queues
<1>5. ASSUME NEW s \in RingIds
      PROVE  /\ t.ring # s => BooksAt(ring[s], mem[s], T, await[s], s)
             /\ t.ring = s /\ t.reg = ring[s].reg => Owed(ring[s], mem[s], T, await[s], s, t.ud)
  BY ONLY <1>2, <1>3, <1>5, GivenBackBooks
<1> HIDE DEF t, T
<1>6. QBooks(N, T, await)
  <2>1. /\ \A s \in RingIds : s # t.ring => BooksAt(Queues.ring[s], Queues.mem[s], T, await[s], s)
        /\ t.reg = Queues.ring[t.ring].reg =>
             Owed(Queues.ring[t.ring], Queues.mem[t.ring], T, await[t.ring], t.ring, t.ud)
    BY ONLY <1>3, <1>4, <1>5
  <2> QED BY ONLY <1>3, <1>4, <2>1, PostAnswer
<1>7. Publish(N)
  BY ONLY <1>1, <1>3 DEF t
<1>8. SameTenants(ring, N.ring)
  BY ONLY <1>3, <1>4, PostTenants
<1> HIDE DEF N
<1>9. Books'
  <2>1. QBooks(N, routing', await')
    BY ONLY <1>1, <1>6 DEF T
  <2> QED BY ONLY <1>7, <2>1, PostedBooks
<1>10. \A j \in Slots : routing'[j] = IF j = i THEN None ELSE routing[j]
  BY ONLY <1>1, <1>2 DEF RoutingTables
<1>11. Numbered'
  <2>1. \A j \in Slots : routing'[j] # None => routing'[j].reg <= regs
    BY ONLY <1>2, <1>10 DEF Numbered
  <2> QED BY ONLY <1>1, <1>2, <1>7, <1>8, <2>1, PostedNumbers
<1>12. Pool'
  <2>1. /\ Len(free) \in Nat /\ Len(free') = Len(free) + 1
        /\ \A j \in 1 .. Len(free) : free'[j] = free[j] /\ free[j] \in Slots
        /\ free'[Len(free) + 1] = i
    BY ONLY <1>1, <1>2
  <2>2. \A j \in 1 .. Len(free) : free[j] # i /\ routing[free[j]] = None
    BY ONLY <1>1, <1>2 DEF Pool
  <2>3. \A j \in 1 .. Len(free) + 1 : j # Len(free) + 1 => j \in 1 .. Len(free)
    BY ONLY <2>1
  <2>4. \A j \in 1 .. Len(free) + 1 : routing'[free'[j]] = None
    BY ONLY <1>1, <1>10, <2>1, <2>2, <2>3
  <2>5. \A j, l \in 1 .. Len(free) + 1 : free'[j] = free'[l] => j = l
    BY ONLY <1>2, <2>1, <2>2, <2>3 DEF Pool
  <2> QED BY ONLY <2>1, <2>4, <2>5 DEF Pool
<1> QED BY ONLY <1>9, <1>11, <1>12

LEMMA DeliveredBooks ==
  ASSUME AInv, clock < MaxEvents
  PROVE  QBooks(Delivered[NumSubs].q, routing, await)
<1> DEFINE Bad == {n \in 0 .. NumSubs : ~QBooks(Delivered[n].q, routing, await)}
<1>1. \A n \in 0 .. NumSubs :
        Delivered[n] = IF n = 0 THEN [q |-> Queues, s |-> subs]
                       ELSE DeliverTo(Delivered[n - 1], n - 1)
  BY DeliveredSteps DEF Course
<1>2. SUFFICES ASSUME Bad # {} PROVE FALSE
  BY Numbers
<1>3. PICK n \in Bad : \A k \in Bad : n <= k
  <2>1. Bad \in SUBSET Nat
    OBVIOUS
  <2> QED BY <1>2, <2>1, LeastExists
<1>4. n \in 0 .. NumSubs /\ ~QBooks(Delivered[n].q, routing, await)
  BY <1>3
<1>5. CASE n = 0
  <2>1. Delivered[n] = [q |-> Queues, s |-> subs]
    BY <1>1, <1>4, <1>5
  <2>2. QBooks(Queues, routing, await)
    BY DEF AInv, Books, QBooks, Queues
  <2> QED BY ONLY <1>4, <2>1, <2>2
<1>6. CASE n # 0
  <2> DEFINE D   == Delivered[n - 1]
             sub == subs[n - 1]
  <2>1. n - 1 \in 0 .. NumSubs /\ n - 1 \in SubSlots /\ n - 1 < n
    BY <1>4, <1>6, Numbers DEF SubSlots
  <2>2. QBooks(D.q, routing, await)
    BY <1>3, <2>1
  <2>3. Delivering(D, n - 1)
    BY <2>1, DeliveredGood DEF AInv, WInv
  <2>4. D.q \in Postings /\ D = [q |-> D.q, s |-> D.s]
    BY <2>3 DEF Delivering
  <2>5. Delivered[n] = DeliverTo(D, n - 1)
    BY <1>1, <1>4, <1>6
  <2> HIDE DEF D
  <2>6. ASSUME sub # None
        PROVE  sub.ring \in RingIds /\ EventFor(sub) \in Completions /\ EventFor(sub).kind # "done"
    <3>1. sub \in SubRecords /\ clock \in 0 .. MaxEvents
      BY <2>1, <2>6 DEF AInv, WInv, RInv, Types, SubTables
    <3> QED BY <3>1, Numbers DEF SubRecords, EventFor, Completions
  <2>7. \/ Delivered[n].q = D.q
        \/ sub # None /\ Delivered[n].q = CqPost(D.q, sub.ring, EventFor(sub))
    BY <2>4, <2>5 DEF DeliverTo
  <2>8. sub # None => QBooks(CqPost(D.q, sub.ring, EventFor(sub)), routing, await)
    BY ONLY <2>2, <2>4, <2>6, PostNoAnswer
  <2> QED BY ONLY <1>4, <2>2, <2>7, <2>8
<1> QED BY <1>5, <1>6

LEMMA RecordBooks ==
  ASSUME AInv, Record PROVE Books' /\ Pool' /\ Numbered'
<1> DEFINE D == Delivered[NumSubs]
<1>1. /\ clock < MaxEvents /\ Publish(D.q)
      /\ routing' = routing /\ free' = free /\ regs' = regs /\ await' = await
  BY DEF Record
<1>2. Delivering(D, NumSubs)
  BY <1>1, Numbers, DeliveredGood DEF AInv, WInv
<1>3. SameTenants(ring, D.q.ring)
  BY ONLY <1>2 DEF Delivering
<1>4. QBooks(D.q, routing, await)
  BY <1>1, DeliveredBooks
<1>5. Pool /\ Numbered
  BY DEF AInv
<1> HIDE DEF D
<1>6. Books'
  <2>1. QBooks(D.q, routing', await')
    BY ONLY <1>1, <1>4
  <2> QED BY ONLY <1>1, <2>1, PostedBooks
<1>7. Numbered'
  <2>1. \A i \in Slots : routing'[i] # None => routing'[i].reg <= regs
    BY ONLY <1>1, <1>5 DEF Numbered
  <2> QED BY ONLY <1>1, <1>3, <1>5, <2>1, PostedNumbers
<1>8. Pool'
  BY ONLY <1>1, <1>5 DEF Pool
<1> QED BY ONLY <1>6, <1>7, <1>8

\* A submission with a cookie nothing is awaited under.
LEMMA ProduceBooks ==
  ASSUME NEW x, NEW m, NEW n, NEW T, NEW w, NEW r, NEW s \in Submissions,
         BooksAt(x, m, T, w, r), m.sq \in Seq(Submissions),
         n.sq = Append(m.sq, s), n.head = m.head, n.buf = m.buf,
         s.op = "IO" => s.ud \notin w
  PROVE  BooksAt(x, n, T, IF s.op = "IO" THEN w \cup {s.ud} ELSE w, r)
<1> DEFINE z(u) == [op |-> "IO", ud |-> u]
           l == Len(m.sq)
           y == IF s.op = "IO" THEN w \cup {s.ud} ELSE w
           p == m.sq
           q == n.sq
<1>1. /\ l \in Nat /\ Len(q) = l + 1 /\ q[l + 1] = s
      /\ \A i \in 1 .. l : q[i] = p[i]
      /\ \A i \in 1 .. l + 1 : i # l + 1 => i \in 1 .. l
      /\ \A i \in 1 .. l : i \in 1 .. l + 1
      /\ l + 1 \in 1 .. l + 1
  <2>1. p \in Seq(Submissions) /\ q = Append(p, s) /\ l = Len(p)
    OBVIOUS
  <2> HIDE DEF p, q, l
  <2> QED BY ONLY <2>1, s \in Submissions
<1>2. \A u : /\ SqOf(m, u) = {i \in 1 .. l : p[i] = z(u)}
             /\ SqOf(n, u) = {i \in 1 .. l + 1 : q[i] = z(u)}
  BY ONLY <1>1 DEF SqOf
<1> HIDE DEF p, q, l, z
<1>3. \A u : SqOf(n, u) = IF s = z(u) THEN SqOf(m, u) \cup {l + 1} ELSE SqOf(m, u)
  <2> TAKE u
  <2>1. {i \in 1 .. l + 1 : q[i] = z(u)} =
          IF s = z(u) THEN {i \in 1 .. l : p[i] = z(u)} \cup {l + 1}
          ELSE {i \in 1 .. l : p[i] = z(u)}
    BY ONLY <1>1
  <2> QED BY ONLY <1>2, <2>1
<1>4. /\ s.op = "IO" => s = z(s.ud)
      /\ \A u : s = z(u) => s.op = "IO" /\ s.ud = u
  BY ONLY s \in Submissions DEF Submissions, z
<1>5. (Trim(x, m) => Trim(x, n)) /\ \A v : CqOf(x, n, v) = CqOf(x, m, v)
  BY ONLY n.head = m.head, n.buf = m.buf DEF Trim, CqOf
<1>6. CASE ~(x.in_use /\ x.clean)
  BY ONLY <1>6 DEF BooksAt
<1>7. CASE x.in_use /\ x.clean
  <2>1. /\ Trim(x, m)
        /\ \A v \in Cookies : Placed(SqOf(m, v), DevOf(T, r, x.reg, v), CqOf(x, m, v), v \in w)
    BY ONLY <1>7, BooksAt(x, m, T, w, r) DEF BooksAt
  <2>2. ASSUME NEW v \in Cookies
        PROVE  Placed(SqOf(n, v), DevOf(T, r, x.reg, v), CqOf(x, n, v), v \in y)
    <3>1. CASE s = z(v)
      <4>1. s.op = "IO" /\ s.ud = v /\ v \notin w
        BY ONLY <1>4, <3>1, s.op = "IO" => s.ud \notin w
      <4>2. SqOf(m, v) = {} /\ DevOf(T, r, x.reg, v) = {} /\ CqOf(x, m, v) = {}
        BY ONLY <2>1, <2>2, <4>1 DEF Placed
      <4>3. SqOf(n, v) = {l + 1} /\ One({l + 1})
        <5>1. SqOf(n, v) = {l + 1}
          BY ONLY <1>3, <3>1, <4>2
        <5> QED BY ONLY <5>1 DEF One
      <4>4. v \in y
        BY ONLY <4>1
      <4> QED BY ONLY <1>5, <4>2, <4>3, <4>4 DEF Placed
    <3>2. CASE s # z(v)
      <4>1. v \in y <=> v \in w
        BY ONLY <1>4, <3>2
      <4>2. SqOf(n, v) = SqOf(m, v)
        BY ONLY <1>3, <3>2
      <4> QED BY ONLY <1>5, <2>1, <2>2, <4>1, <4>2 DEF Placed
    <3> QED BY ONLY <3>1, <3>2
  <2> QED BY ONLY <1>5, <2>1, <2>2 DEF BooksAt
<1> QED BY ONLY <1>6, <1>7

\* Reaping takes the oldest entry; an answer in it was awaited, and was the only one.
LEMMA ReapBooks ==
  ASSUME NEW x, NEW m, NEW n, NEW T, NEW w, NEW r, NEW v, BooksAt(x, m, T, w, r),
         x.cq_tail \in Indices, m.head \in Indices, x.cq_tail # m.head, m.buf \in Buffers,
         n.sq = m.sq, n.head = NextIndex(m.head),
         n.buf = [m.buf EXCEPT ![m.head % Entries] = v],
         m.buf[m.head % Entries] \in Completions
  PROVE  LET e == m.buf[m.head % Entries]
         IN BooksAt(x, n, T, IF e.kind = "done" THEN w \ {e.ud} ELSE w, r)
<1> DEFINE t == x.cq_tail
           h == m.head
           b == m.buf
           c == (t - h) % IndexMod
           g == [b EXCEPT ![h % Entries] = v]
           e == b[h % Entries]
           k == x.reg
           y == IF e.kind = "done" THEN w \ {e.ud} ELSE w
           old(j) == b[(h + j) % Entries]
           new(j) == g[(NextIndex(h) + j) % Entries]
           D(u) == Done([ud |-> u, reg |-> k])
<1>1. CASE ~(x.in_use /\ x.clean)
  BY ONLY <1>1 DEF BooksAt
<1>2. CASE x.in_use /\ x.clean
  <2>1. /\ Trim(x, m)
        /\ \A u \in Cookies : Placed(SqOf(m, u), DevOf(T, r, k, u), CqOf(x, m, u), u \in w)
    BY ONLY <1>2, BooksAt(x, m, T, w, r) DEF BooksAt
  <2>2. /\ c <= Entries
        /\ \A j \in 0 .. c - 1 : old(j).kind = "done" => old(j) = D(old(j).ud)
    BY ONLY <2>1 DEF Trim
  <2>3. /\ c \in Nat /\ c > 0 /\ (t - NextIndex(h)) % IndexMod = c - 1
        /\ \A j \in 0 .. c - 2 : new(j) = old(j + 1)
    <3>1. t \in Indices /\ h \in Indices /\ t # h /\ b \in Buffers /\ (t - h) % IndexMod <= Entries
      BY <2>2
    <3> HIDE DEF t, h, b
    <3>2. Reaped(t, h, b, g)
      BY ONLY <3>1, ReapMoves
    <3> QED BY ONLY <3>2 DEF Reaped
  <2>4. /\ \A u : CqOf(x, m, u) = {j \in 0 .. c - 1 : old(j) = D(u)}
        /\ \A u : CqOf(x, n, u) = {j \in 0 .. (c - 1) - 1 : new(j) = D(u)}
        /\ Trim(x, n) <=> /\ c - 1 <= Entries
                          /\ \A j \in 0 .. (c - 1) - 1 :
                               new(j).kind = "done" => new(j) = D(new(j).ud)
    <3>1. /\ (x.cq_tail - n.head) % IndexMod = c - 1
          /\ \A j : n.buf[(n.head + j) % Entries] = new(j)
      BY ONLY <2>3, n.head = NextIndex(m.head), n.buf = [m.buf EXCEPT ![m.head % Entries] = v]
    <3>2. \A u : CqOf(x, m, u) = {j \in 0 .. c - 1 : old(j) = D(u)}
      BY ONLY TRUE DEF CqOf
    <3> HIDE DEF c, new
    <3> QED BY ONLY <3>1, <3>2 DEF CqOf, Trim
  <2>5. old(0) = e
    <3>1. h + 0 = h
      BY Numbers DEF Indices
    <3> QED BY ONLY <3>1
  <2>6. \A u : SqOf(n, u) = SqOf(m, u)
    BY ONLY n.sq = m.sq DEF SqOf
  <2>7. e \in Completions
    OBVIOUS
  <2> HIDE DEF c, e, old, new
  <2>8. /\ \A i \in 0 .. (c - 1) - 1 : i \in Int /\ i \in 0 .. c - 2 /\ i + 1 \in 0 .. c - 1
        /\ \A i \in Int : i + 1 \in 0 .. c - 1 /\ i # 0 - 1 => i \in 0 .. (c - 1) - 1
        /\ 0 - 1 \notin 0 .. (c - 1) - 1 /\ 0 \in 0 .. c - 1
        /\ c - 1 <= Entries /\ (0 - 1) + 1 = 0 /\ 0 - 1 \in Int
    BY ONLY <2>2, <2>3, Numbers
  <2>9. Trim(x, n)
    <3>1. \A j \in 0 .. (c - 1) - 1 : new(j).kind = "done" => new(j) = D(new(j).ud)
      BY ONLY <2>2, <2>3, <2>8
    <3> QED BY ONLY <2>4, <2>8, <3>1
  <2>10. ASSUME NEW u
         PROVE  /\ CqOf(x, m, u) \in SUBSET Int /\ CqOf(x, n, u) \in SUBSET Int
                /\ 0 \in CqOf(x, m, u) <=> e = D(u)
                /\ 0 - 1 \notin CqOf(x, n, u)
                /\ \A i \in Int : i # 0 - 1 => (i \in CqOf(x, n, u) <=> i + 1 \in CqOf(x, m, u))
    <3>1. /\ \A i : i \in CqOf(x, m, u) <=> i \in 0 .. c - 1 /\ old(i) = D(u)
          /\ \A i : i \in CqOf(x, n, u) <=> i \in 0 .. (c - 1) - 1 /\ new(i) = D(u)
      BY ONLY <2>4
    <3> HIDE DEF D
    <3>2. CqOf(x, m, u) \in SUBSET Int /\ CqOf(x, n, u) \in SUBSET Int
      BY ONLY <2>3, <3>1
    <3>3. \A i \in Int : i # 0 - 1 => (i \in CqOf(x, n, u) <=> i + 1 \in CqOf(x, m, u))
      BY ONLY <2>3, <2>8, <3>1
    <3> QED BY ONLY <2>5, <2>8, <3>1, <3>2, <3>3
  <2>11. ASSUME NEW u \in Cookies
         PROVE  Placed(SqOf(n, u), DevOf(T, r, k, u), CqOf(x, n, u), u \in y)
    <3> DEFINE A == CqOf(x, m, u)
               B == CqOf(x, n, u)
    <3>1. /\ A \in SUBSET Int /\ B \in SUBSET Int
          /\ 0 \in A <=> e = D(u)
          /\ 0 - 1 \notin B
          /\ \A i \in Int : i # 0 - 1 => (i \in B <=> i + 1 \in A)
      BY ONLY <2>10
    <3>2. Placed(SqOf(n, u), DevOf(T, r, k, u), A, u \in w)
      BY ONLY <2>1, <2>6, <2>11
    <3> HIDE DEF A, B
    <3>3. CASE e = D(u)
      <4>1. e.kind = "done" /\ e.ud = u
        BY ONLY <3>3 DEF Done
      <4>2. u \notin y
        BY ONLY <4>1
      <4>3. SqOf(n, u) = {} /\ DevOf(T, r, k, u) = {} /\ One(A)
        BY ONLY <3>1, <3>2, <3>3 DEF Placed
      <4>4. \A i \in A : i = 0
        BY ONLY <3>1, <3>3, <4>3 DEF One
      <4>5. B = {}
        <5>1. ASSUME NEW i \in B PROVE FALSE
          <6>1. i \in Int /\ i # 0 - 1
            BY ONLY <3>1, <5>1
          <6>2. i + 1 \in A
            BY ONLY <3>1, <5>1, <6>1
          <6>3. i + 1 = 0
            BY ONLY <4>4, <6>2
          <6> QED BY ONLY <6>1, <6>3
        <5> QED BY ONLY <5>1
      <4> QED BY ONLY <4>2, <4>3, <4>5 DEF Placed, B
    <3>4. CASE e # D(u)
      <4>1. u \in y <=> u \in w
        <5>1. e.kind = "done" => e = D(e.ud)
          BY ONLY <2>2, <2>5, <2>8
        <5> QED BY ONLY <3>4, <5>1
      <4>2. \A i \in Int : i \in B <=> i + 1 \in A
        <5>1. ASSUME NEW i \in Int PROVE i \in B <=> i + 1 \in A
          <6>1. CASE i = 0 - 1
            BY ONLY <2>8, <3>1, <3>4, <6>1
          <6>2. CASE i # 0 - 1
            BY ONLY <3>1, <5>1, <6>2
          <6> QED BY ONLY <6>1, <6>2
        <5> QED BY ONLY <5>1
      <4>3. (A = {} <=> B = {}) /\ (One(A) <=> One(B))
        BY ONLY <3>1, <4>2, Shifted
      <4> QED BY ONLY <3>2, <4>1, <4>3 DEF Placed, B
    <3> QED BY ONLY <3>3, <3>4
  <2>12. BooksAt(x, n, T, y, r)
    BY ONLY <2>9, <2>11 DEF BooksAt
  <2> QED BY ONLY <2>12 DEF e
<1> QED BY ONLY <1>1, <1>2

LEMMA UserBooks ==
  ASSUME AInv, NEW p \in Procs, NEW r \in RingIds, UserStep(p, r)
  PROVE  Books' /\ Pool' /\ Numbered'
<1>1. /\ mem \in Memories /\ mem[r] \in Memory /\ mem[r].sq \in Seq(Submissions)
      /\ mem[r].head \in Indices /\ mem[r].buf \in Buffers /\ ring[r].cq_tail \in Indices
      /\ await \in [RingIds -> SUBSET Cookies]
      /\ Filled(ring[r].cq_tail, mem[r].head, mem[r].buf)
  BY DEF AInv, WInv, RInv, Types, Rest, Memories, Memory, Buffers, RingTables, RingRecords, Whole
<1>2. \A s \in RingIds : BooksAt(ring[s], mem[s], routing, await[s], s)
  BY DEF AInv, Books
<1>3. ring' = ring /\ routing' = routing /\ free' = free /\ regs' = regs
  BY DEF UserStep, Produce, Reap, kernelVars
<1>4. Pool' /\ Numbered'
  <2>1. Pool /\ Numbered
    BY DEF AInv
  <2> QED BY ONLY <1>3, <2>1 DEF Pool, Numbered
<1>5. CASE Produce(p, r)
  <2>1. PICK s \in Submissions :
          /\ s.op # "CANCEL" => CookieFree(r, s.ud)
          /\ mem' = [mem EXCEPT ![r].sq = Append(@, s)]
          /\ await' = [await EXCEPT ![r] = IF s.op = "IO" THEN @ \cup {s.ud} ELSE @]
    BY <1>5 DEF Produce
  <2>2. s.op = "IO" => s.ud \notin await[r]
    BY ONLY <2>1 DEF CookieFree
  <2>3. /\ \A q \in RingIds : q # r => mem'[q] = mem[q]
        /\ mem'[r].sq = Append(mem[r].sq, s) /\ mem'[r].head = mem[r].head
        /\ mem'[r].buf = mem[r].buf
    BY ONLY <1>1, <2>1, r \in RingIds DEF Memories, Memory
  <2>4. /\ \A q \in RingIds : q # r => await'[q] = await[q]
        /\ await'[r] = IF s.op = "IO" THEN await[r] \cup {s.ud} ELSE await[r]
    BY ONLY <1>1, <2>1, r \in RingIds
  <2>5. BooksAt(ring[r], mem'[r], routing, IF s.op = "IO" THEN await[r] \cup {s.ud} ELSE await[r], r)
    <3> DEFINE n == mem'[r]
    <3>1. BooksAt(ring[r], mem[r], routing, await[r], r)
      BY ONLY <1>2, r \in RingIds
    <3>2. n.sq = Append(mem[r].sq, s) /\ n.head = mem[r].head /\ n.buf = mem[r].buf
      BY ONLY <2>3
    <3> HIDE DEF n
    <3>3. BooksAt(ring[r], n, routing, IF s.op = "IO" THEN await[r] \cup {s.ud} ELSE await[r], r)
      BY ONLY s \in Submissions, <1>1, <2>2, <3>1, <3>2, ProduceBooks
    <3> QED BY ONLY <3>3 DEF n
  <2> QED BY ONLY <1>2, <1>3, <1>4, <2>3, <2>4, <2>5 DEF Books
<1>6. CASE Reap(p, r)
  <2> DEFINE h == mem[r].head
             e == mem[r].buf[h % Entries]
             v == IF UnreapedCount(Queues, r) > Entries THEN e ELSE None
             b == [mem[r].buf EXCEPT ![h % Entries] = v]
             w == IF e.kind = "done" THEN await[r] \ {e.ud} ELSE await[r]
  <2>1. /\ mem[r].head # ring[r].cq_tail
        /\ mem' = [mem EXCEPT ![r] = [sq |-> mem[r].sq, head |-> NextIndex(h), buf |-> b]]
        /\ await' = [await EXCEPT ![r] = IF e.kind = "done" THEN @ \ {e.ud} ELSE @]
    BY <1>6 DEF Reap
  <2>2. e \in Completions
    <3>1. /\ mem[r].buf[mem[r].head % Entries] \in Completions
          /\ Filled(ring[r].cq_tail, NextIndex(mem[r].head),
                    [mem[r].buf EXCEPT ![mem[r].head % Entries] = e])
      BY ONLY <1>1, <2>1, ReapFills
    <3> QED BY ONLY <3>1
  <2> HIDE DEF v
  <2>3. /\ \A q \in RingIds : q # r => mem'[q] = mem[q]
        /\ mem'[r].sq = mem[r].sq /\ mem'[r].head = NextIndex(mem[r].head)
        /\ mem'[r].buf = [mem[r].buf EXCEPT ![mem[r].head % Entries] = v]
    <3> HIDE DEF b, h
    <3>1. /\ \A q \in RingIds : q # r => mem'[q] = mem[q]
          /\ mem'[r] = [sq |-> mem[r].sq, head |-> NextIndex(h), buf |-> b]
      BY ONLY <1>1, <2>1, r \in RingIds DEF Memories
    <3> QED BY ONLY <3>1 DEF b, h
  <2>4. (\A q \in RingIds : q # r => await'[q] = await[q]) /\ await'[r] = w
    <3> HIDE DEF e
    <3> QED BY ONLY <1>1, <2>1, r \in RingIds
  <2>5. BooksAt(ring[r], mem'[r], routing, w, r)
    <3>1. BooksAt(ring[r], mem[r], routing, await[r], r)
      BY ONLY <1>2, r \in RingIds
    <3>2. mem[r].buf[mem[r].head % Entries] \in Completions /\ ring[r].cq_tail # mem[r].head
      BY ONLY <2>1, <2>2
    <3> QED BY ONLY <1>1, <2>3, <3>1, <3>2, ReapBooks
  <2> HIDE DEF w
  <2> QED BY ONLY <1>2, <1>3, <1>4, <2>3, <2>4, <2>5 DEF Books
<1> QED BY ONLY <1>5, <1>6, UserStep(p, r) DEF UserStep

\* A new tenant starts with empty books: no request in flight bears its number.
LEMMA FreshBooks ==
  ASSUME NEW x, NEW T, NEW r, x.cq_tail = 0, \A i \in Slots : T[i] # None => T[i].reg < x.reg,
         x.reg \in Nat, T \in RoutingTables, r \in RingIds, x.reg \in 0 .. MaxRegs
  PROVE  BooksAt(x, FreshMemory, T, {}, r)
<1>1. (0 - 0) % IndexMod = 0
  <2>1. 0 \in 0 .. IndexMod - 1 /\ 0 - 0 = 0
    BY Numbers
  <2> QED BY <2>1, Numbers, ModSmall
<1>2. FreshMemory.sq = <<>> /\ FreshMemory.head = 0
  BY DEF FreshMemory
<1>3. (x.cq_tail - FreshMemory.head) % IndexMod = 0
  BY ONLY <1>1, <1>2, x.cq_tail = 0
<1>4. Trim(x, FreshMemory) /\ \A u : CqOf(x, FreshMemory, u) = {}
  BY ONLY <1>3, Numbers DEF Trim, CqOf
<1>5. \A u : SqOf(FreshMemory, u) = {}
  BY ONLY <1>2 DEF SqOf
<1>6. ASSUME NEW u \in Cookies PROVE DevOf(T, r, x.reg, u) = {}
  <2>1. ASSUME NEW i \in Slots, T[i] = [ring |-> r, ud |-> u, reg |-> x.reg] PROVE FALSE
    <3>1. T[i] \in Routings /\ T[i].reg = x.reg
      BY <1>6, <2>1 DEF Routings
    <3>2. T[i] # None
      BY ONLY <3>1, NoneAssumption
    <3> QED BY <2>1, <3>1, <3>2
  <2> QED BY ONLY <2>1 DEF DevOf
<1> QED BY ONLY <1>4, <1>5, <1>6 DEF BooksAt, Placed

LEMMA SystemCallBooks ==
  ASSUME AInv, NEW p \in Procs, SystemCall(p) PROVE Books' /\ Pool' /\ Numbered'
<1>1. /\ ring \in RingTables /\ mem \in Memories /\ routing \in RoutingTables
      /\ regs \in 0 .. MaxRegs /\ await \in [RingIds -> SUBSET Cookies]
      /\ Pool /\ Numbered
      /\ \A s \in RingIds : ring[s].reg \in Nat
  BY Numbers DEF AInv, WInv, RInv, Types, Rest, RoutingTables, RingTables, RingRecords
<1>2. \A s \in RingIds : BooksAt(ring[s], mem[s], routing, await[s], s)
  BY DEF AInv, Books
<1>3. routing' = routing /\ free' = free
  BY DEF SystemCall, RingRegister, Exit, Spawn, RingSubmit, RingWait, CapRelease, Release,
         kernelVars
<1>4. Pool'
  BY ONLY <1>1, <1>3 DEF Pool
<1>5. CASE RingRegister(p)
  <2>1. PICK r \in RingIds :
          /\ ring' = [ring EXCEPT ![r] = [EmptyRing EXCEPT !.in_use = TRUE, !.owner = p,
                                                           !.reg = regs + 1]]
          /\ mem' = [mem EXCEPT ![r] = FreshMemory]
          /\ await' = [await EXCEPT ![r] = {}]
    BY <1>5 DEF RingRegister, FreeRings
  <2>2. regs' = regs + 1 /\ regs + 1 \in 0 .. MaxRegs /\ regs \in Nat /\ regs + 1 \in Nat
    BY <1>1, <1>5, Numbers DEF RingRegister
  <2> DEFINE x == [EmptyRing EXCEPT !.in_use = TRUE, !.owner = p, !.reg = regs + 1]
  <2>3. x.cq_tail = 0 /\ x.reg = regs + 1
    BY DEF EmptyRing
  <2> HIDE DEF x
  <2>4. /\ ring'[r] = x /\ mem'[r] = FreshMemory /\ await'[r] = {}
        /\ \A s \in RingIds : s # r => ring'[s] = ring[s] /\ mem'[s] = mem[s] /\ await'[s] = await[s]
    BY ONLY <1>1, <2>1 DEF RingTables, Memories, x
  <2>5. BooksAt(x, FreshMemory, routing, {}, r)
    <3>1. ASSUME NEW i \in Slots, routing[i] # None PROVE routing[i].reg < x.reg
      <4>1. routing[i].reg \in Nat /\ routing[i].reg <= regs
        BY <1>1, <3>1 DEF Numbered, RoutingTables, Routings
      <4> QED BY ONLY <2>2, <2>3, <4>1
    <3> QED BY ONLY <1>1, <2>1, <2>2, <2>3, <3>1, FreshBooks
  <2>6. Books'
    BY ONLY <1>2, <1>3, <2>4, <2>5 DEF Books
  <2>7. Numbered'
    <3>1. ASSUME NEW i \in Slots, routing[i] # None PROVE routing[i].reg <= regs + 1
      <4>1. routing[i].reg \in Nat /\ routing[i].reg <= regs
        BY <1>1, <3>1 DEF Numbered, RoutingTables, Routings
      <4> QED BY ONLY <2>2, <4>1
    <3>2. ASSUME NEW s \in RingIds PROVE ring'[s].reg <= regs + 1
      <4>1. s # r => ring'[s].reg = ring[s].reg /\ ring[s].reg <= regs /\ ring[s].reg \in Nat
        BY ONLY <1>1, <2>4, <3>2 DEF Numbered
      <4>2. s = r => ring'[s].reg = regs + 1
        BY ONLY <2>3, <2>4
      <4> QED BY ONLY <2>2, <4>1, <4>2
    <3> QED BY ONLY <1>3, <2>2, <3>1, <3>2 DEF Numbered
  <2> QED BY ONLY <1>4, <2>6, <2>7
<1>6. ASSUME NEW R, Release(R) PROVE Books' /\ Pool' /\ Numbered'
  <2>1. \A r \in RingIds : /\ ring'[r] = IF r \in R THEN EmptyRing ELSE ring[r]
                           /\ mem'[r] = IF r \in R THEN FreshMemory ELSE mem[r]
                           /\ await'[r] = IF r \in R THEN {} ELSE await[r]
    BY ONLY <1>6 DEF Release
  <2>2. regs' = regs
    BY ONLY <1>6 DEF Release
  <2>3. ~EmptyRing.in_use /\ EmptyRing.reg = 0
    BY DEF EmptyRing
  <2>4. \A r \in RingIds : BooksAt(ring'[r], mem'[r], routing, await'[r], r)
    <3>1. \A r \in RingIds : \A m, w : BooksAt(EmptyRing, m, routing, w, r)
      BY ONLY <2>3 DEF BooksAt
    <3> QED BY ONLY <1>2, <2>1, <3>1
  <2>5. \A r \in RingIds : ring'[r].reg <= regs
    <3>1. 0 <= regs
      BY ONLY <1>1, Numbers
    <3> QED BY ONLY <1>1, <2>1, <2>3, <3>1 DEF Numbered
  <2> QED BY ONLY <1>1, <1>3, <1>4, <2>2, <2>4, <2>5 DEF Books, Numbered
<1>7. CASE Spawn(p)
  <2>1. ring' = ring /\ mem' = mem /\ await' = await /\ regs' = regs
    BY ONLY <1>7 DEF Spawn, ghostVars
  <2> QED BY ONLY <1>1, <1>2, <1>3, <1>4, <2>1 DEF Books, Numbered
<1>8. ASSUME NEW r \in RingIds, RingSubmit(p, r) PROVE Books' /\ Pool' /\ Numbered'
  <2>1. ring' = ring /\ mem' = mem /\ await' = await /\ regs' = regs
    BY ONLY <1>8 DEF RingSubmit, ghostVars
  <2> QED BY ONLY <1>1, <1>2, <1>3, <1>4, <2>1 DEF Books, Numbered
<1>9. ASSUME NEW r \in RingIds, RingWait(p, r) PROVE Books' /\ Pool' /\ Numbered'
  <2>1. /\ ring' = [ring EXCEPT ![r].waiting = TRUE] /\ mem' = mem /\ await' = await
        /\ regs' = regs
    BY ONLY <1>9 DEF RingWait, ghostVars
  <2>2. \A s \in RingIds : /\ ring'[s].cq_tail = ring[s].cq_tail /\ ring'[s].reg = ring[s].reg
                           /\ ring'[s].in_use = ring[s].in_use /\ ring'[s].clean = ring[s].clean
    BY ONLY <1>1, <2>1 DEF RingTables, RingRecords
  <2>3. ASSUME NEW s \in RingIds PROVE BooksAt(ring'[s], mem[s], routing, await[s], s)
    <3> DEFINE x == ring[s]
               y == ring'[s]
    <3>1. /\ y.cq_tail = x.cq_tail /\ y.reg = x.reg /\ y.in_use = x.in_use /\ y.clean = x.clean
          /\ BooksAt(x, mem[s], routing, await[s], s)
      BY ONLY <1>2, <2>2, <2>3
    <3> HIDE DEF x, y
    <3>2. /\ Trim(y, mem[s]) <=> Trim(x, mem[s])
          /\ \A u : CqOf(y, mem[s], u) = CqOf(x, mem[s], u)
      BY ONLY <3>1 DEF Trim, CqOf
    <3>3. BooksAt(y, mem[s], routing, await[s], s)
      BY ONLY <3>1, <3>2 DEF BooksAt
    <3> QED BY ONLY <3>3 DEF y
  <2>4. \A s \in RingIds : ring'[s].reg <= regs
    BY ONLY <1>1, <2>2 DEF Numbered
  <2> QED BY ONLY <1>1, <1>3, <1>4, <2>1, <2>3, <2>4 DEF Books, Numbered
<1> QED BY <1>5, <1>6, <1>7, <1>8, <1>9 DEF SystemCall, Exit, CapRelease

LEMMA NextAInv == AInv /\ [Next]_vars => AInv'
<1> SUFFICES ASSUME AInv, [Next]_vars PROVE AInv'
  OBVIOUS
<1>1. WInv'
  BY NextWInv DEF AInv
<1>2. SUFFICES Books' /\ Pool' /\ Numbered'
  BY <1>1 DEF AInv
<1>3. CASE UNCHANGED vars \/ DrainEnds
  <2>1. ring' = ring /\ mem' = mem /\ routing' = routing /\ free' = free /\ await' = await
        /\ regs' = regs
    BY <1>3 DEF vars, kernelVars, ghostVars, DrainEnds
  <2>2. Books /\ Pool /\ Numbered
    BY DEF AInv
  <2> QED BY ONLY <2>1, <2>2 DEF Books, Pool, Numbered
<1>4. CASE DrainEntry
  BY <1>4, PostIoBooks, PostOtherBooks DEF DrainEntry
<1> QED BY <1>3, <1>4, SystemCallBooks, UserBooks, CompleteIrqBooks, RecordBooks DEF Next

LEMMA InitAInv == Init => AInv
<1> SUFFICES ASSUME Init PROVE AInv
  OBVIOUS
<1>1. WInv
  BY InitWInv
<1>2. Books
  BY DEF Init, Books, BooksAt, EmptyRing
<1>3. Pool
  <2>1. free = [i \in 1 .. NumSlots |-> i - 1] /\ NumSlots \in Nat
    BY Numbers DEF Init
  <2>2. Len(free) = NumSlots
    BY ONLY <2>1
  <2>3. \A i \in 1 .. NumSlots : free[i] = i - 1 /\ i - 1 \in Slots
    BY ONLY <2>1 DEF Slots
  <2>4. \A i, j \in 1 .. NumSlots : i - 1 = j - 1 => i = j
    BY ONLY <2>1
  <2>5. \A i \in Slots : routing[i] = None
    BY DEF Init
  <2> QED BY ONLY <2>2, <2>3, <2>4, <2>5 DEF Pool
<1>4. Numbered
  <2>1. EmptyRing.reg = 0 /\ 0 <= 0
    BY DEF EmptyRing
  <2>2. (\A i \in Slots : routing[i] = None) /\ (\A r \in RingIds : ring[r] = EmptyRing) /\ regs = 0
    BY DEF Init
  <2> QED BY ONLY <2>1, <2>2 DEF Numbered
<1> QED BY ONLY <1>1, <1>2, <1>3, <1>4 DEF AInv

\* The places as RequestsAccounted counts them.
LEMMA PlacesCounted ==
  ASSUME AInv, NEW r \in RingIds, NEW u \in Cookies
  PROVE  /\ InSq(r, u) = SqOf(mem[r], u)
         /\ InFlight(r, u) = DevOf(routing, r, ring[r].reg, u)
         /\ InCq(r, u) = {} <=> CqOf(ring[r], mem[r], u) = {}
         /\ One(InCq(r, u)) <=> One(CqOf(ring[r], mem[r], u))
<1> DEFINE c == (ring[r].cq_tail - mem[r].head) % IndexMod
           h == mem[r].head
           at(i) == mem[r].buf[i % Entries]
           y == Done([ud |-> u, reg |-> ring[r].reg])
           A == InCq(r, u)
           B == CqOf(ring[r], mem[r], u)
<1>1. ring[r].cq_tail \in Indices /\ h \in Indices /\ h \in Int
  BY Numbers DEF AInv, WInv, RInv, Types, RingTables, RingRecords, Memories, Memory, Indices
<1>2. c \in 0 .. IndexMod - 1 /\ c \in Nat
  <2>1. c \in 0 .. IndexMod - 1
    BY ONLY <1>1, CountSteps
  <2> HIDE DEF c
  <2> QED BY ONLY <2>1, Numbers
<1>3. Unreaped(r) = [i \in 1 .. c |-> at(h + (i - 1))]
  <2>1. Queues.ring = ring /\ Queues.mem = mem
    BY DEF Queues
  <2>2. UnreapedCount(Queues, r) = c
    BY ONLY <2>1 DEF UnreapedCount
  <2>3. Unreaped(r) = [i \in 1 .. UnreapedCount(Queues, r) |-> at(h + (i - 1))]
    BY DEF Unreaped
  <2> HIDE DEF c, at, h
  <2> QED BY ONLY <2>2, <2>3
<1>4. B = {j \in 0 .. c - 1 : at(h + j) = y}
  BY DEF CqOf
<1> HIDE DEF c, h, at
<1>5. Len(Unreaped(r)) = c
  BY ONLY <1>2, <1>3
<1>6. A = {i \in 1 .. c : at(h + (i - 1)) = y}
  <2>1. A = {i \in 1 .. c : Unreaped(r)[i] = y}
    BY ONLY <1>5 DEF InCq
  <2> HIDE DEF y, A
  <2> QED BY ONLY <1>3, <2>1
<1> HIDE DEF y, A, B
<1>7. A \in SUBSET Int /\ B \in SUBSET Int
  BY ONLY <1>2, <1>4, <1>6
<1>8. ASSUME NEW i \in Int PROVE i \in B <=> i + 1 \in A
  <2>1. h + ((i + 1) - 1) = h + i /\ (i \in 0 .. c - 1 <=> i + 1 \in 1 .. c)
    BY ONLY <1>1, <1>2, <1>8
  <2> QED BY ONLY <1>4, <1>6, <2>1
<1>9. (A = {} <=> B = {}) /\ (One(A) <=> One(B))
  BY ONLY <1>7, <1>8, Shifted
<1>10. InSq(r, u) = SqOf(mem[r], u) /\ InFlight(r, u) = DevOf(routing, r, ring[r].reg, u)
  BY DEF InSq, SqOf, InFlight, DevOf
<1> QED BY ONLY <1>9, <1>10 DEF A, B

\* However submissions, drains, device interrupts, events, overruns and deaths
\* interleave, each request a program awaits on a clean ring is submitted, with the
\* device or answered, in exactly one of the three and once, and no other is: no
\* answer is lost at an exhausted request pool, given twice or given to another's
\* cookie, whatever indices have wrapped.
THEOREM EveryRequestAccounted == Spec => []RequestsAccounted
<1>1. AInv => RequestsAccounted
  <2> SUFFICES ASSUME AInv, NEW r \in RingIds, ring[r].in_use, ring[r].clean, NEW u \in Cookies
               PROVE  Cardinality(InSq(r, u)) + Cardinality(InFlight(r, u))
                        + Cardinality(InCq(r, u)) = IF u \in await[r] THEN 1 ELSE 0
    BY DEF RequestsAccounted
  <2> DEFINE A == InSq(r, u)
             B == InFlight(r, u)
             C == InCq(r, u)
  <2>1. Placed(A, B, C, u \in await[r])
    <3>1. Placed(SqOf(mem[r], u), DevOf(routing, r, ring[r].reg, u),
                 CqOf(ring[r], mem[r], u), u \in await[r])
      BY DEF AInv, Books, BooksAt
    <3>2. /\ A = SqOf(mem[r], u)
          /\ B = DevOf(routing, r, ring[r].reg, u)
          /\ C = {} <=> CqOf(ring[r], mem[r], u) = {}
          /\ One(C) <=> One(CqOf(ring[r], mem[r], u))
      BY PlacesCounted
    <3> HIDE DEF A, B, C
    <3> QED BY ONLY <3>1, <3>2 DEF Placed
  <2> HIDE DEF A, B, C
  <2>2. \A S : S = {} => Cardinality(S) = 0
    BY ONLY FS_EmptySet
  <2>3. ASSUME NEW S, One(S) PROVE Cardinality(S) = 1
    <3>1. PICK i : S = {i}
      BY ONLY <2>3 DEF One
    <3> QED BY ONLY <3>1, FS_Singleton
  <2>4. Cardinality(A) + Cardinality(B) + Cardinality(C) = IF u \in await[r] THEN 1 ELSE 0
    <3>1. CASE u \in await[r]
      <4>1. \/ Cardinality(A) = 1 /\ Cardinality(B) = 0 /\ Cardinality(C) = 0
            \/ Cardinality(A) = 0 /\ Cardinality(B) = 1 /\ Cardinality(C) = 0
            \/ Cardinality(A) = 0 /\ Cardinality(B) = 0 /\ Cardinality(C) = 1
        BY ONLY <2>1, <2>2, <2>3, <3>1 DEF Placed
      <4> QED BY ONLY <3>1, <4>1
    <3>2. CASE u \notin await[r]
      <4>1. Cardinality(A) = 0 /\ Cardinality(B) = 0 /\ Cardinality(C) = 0
        BY ONLY <2>1, <2>2, <3>2 DEF Placed
      <4> QED BY ONLY <3>2, <4>1
    <3> QED BY ONLY <3>1, <3>2
  <2> QED BY ONLY <2>4 DEF A, B, C
<1> QED BY <1>1, InitAInv, NextAInv, PTL DEF Spec

----------------------------------------------------------------------------
(* Streams of events.  A queue is taken as the sequence of what lies       *)
(* between its indices: a posting appends to it, a reaping takes its head. *)

Seen(x, m) ==
  [i \in 1 .. (x.cq_tail - m.head) % IndexMod |-> m.buf[(m.head + i - 1) % Entries]]

\* The places of stream u in queue q.
EventsOf(q, u) == {i \in 1 .. Len(q) : q[i].kind = "event" /\ q[i].ud = u}

\* v is the number of the last event of stream u before place i, with g for what
\* has been reaped.
Prior(q, g, u, i, v) ==
  \/ v = g /\ \A j \in EventsOf(q, u) : ~(j < i)
  \/ \E j \in EventsOf(q, u) :
       j < i /\ v = q[j].n /\ \A k \in EventsOf(q, u) : k < i => k <= j

\* Every event tells whether some were lost before it.
Told(q, g, u) ==
  \A i \in EventsOf(q, u) : \E v \in Nat :
    Prior(q, g, u, i, v) /\ q[i].n > v /\ (q[i].dropped <=> q[i].n > v + 1)

\* Subscription s has counted what was lost since the last event, of k.
Current(q, g, s, k) ==
  \E v \in 0 .. k : Prior(q, g, s.ud, Len(q) + 1, v) /\ s.dropped = k - v

Uses(s, r, u) == s # None /\ s.ring = r /\ s.ud = u

\* Stream u of ring r is not armed, and nothing of it is queued.
Idle(q, S, r, u) == EventsOf(q, u) = {} /\ \A i \in SubSlots : ~Uses(S[i], r, u)

\* A stream waiting to be armed is idle, and waits once.
Waiting(q, sq, S, r) ==
  \A i \in 1 .. Len(sq) : sq[i].op = "EVENT_SUB" =>
    /\ Idle(q, S, r, sq[i].ud)
    /\ \A k \in 1 .. Len(sq) : sq[k].op = "EVENT_SUB" /\ sq[k].ud = sq[i].ud => k = i

\* The streams of ring r, subscription i having heard of K[i] events.
StreamsAt(x, m, g, S, K, r) ==
  x.in_use /\ x.clean =>
    /\ \A u \in Cookies : Told(Seen(x, m), g[u], u)
    /\ \A i \in SubSlots : S[i] # None /\ S[i].ring = r =>
         Current(Seen(x, m), g[S[i].ud], S[i], K[i])
    /\ Waiting(Seen(x, m), m.sq, S, r)

\* A ring has one subscription under a cookie.
Unique(S) ==
  \A i, j \in SubSlots :
    S[i] # None /\ S[j] # None /\ S[i].ring = S[j].ring /\ S[i].ud = S[j].ud => i = j

Heard == [i \in SubSlots |-> clock]

Streams == \A r \in RingIds : StreamsAt(ring[r], mem[r], got[r], subs, Heard, r)

LInv == AInv /\ Streams /\ Unique(subs)

Queued == Seq(Completions)

LEMMA AppendEvents ==
  ASSUME NEW q \in Queued, NEW e \in Completions, NEW u
  PROVE  /\ Len(q) \in Nat /\ Append(q, e) \in Queued /\ Len(Append(q, e)) = Len(q) + 1
         /\ Append(q, e)[Len(q) + 1] = e
         /\ \A i \in EventsOf(q, u) : /\ i \in Nat /\ i <= Len(q) /\ Append(q, e)[i] = q[i]
                                      /\ i \in EventsOf(Append(q, e), u)
         /\ \A i \in EventsOf(Append(q, e), u) :
              i \in EventsOf(q, u) \/ (i = Len(q) + 1 /\ e.kind = "event" /\ e.ud = u)
         /\ e.kind = "event" /\ e.ud = u => Len(q) + 1 \in EventsOf(Append(q, e), u)
<1> DEFINE p == Append(q, e)
           l == Len(q)
<1>1. /\ l \in Nat /\ p \in Queued /\ Len(p) = l + 1 /\ p[l + 1] = e
      /\ \A i \in 1 .. l : p[i] = q[i]
  BY DEF Queued
<1>2. /\ \A i \in 1 .. l + 1 : i # l + 1 => i \in 1 .. l
      /\ \A i \in 1 .. l : i \in 1 .. l + 1 /\ i \in Nat /\ i <= l
      /\ l + 1 \in 1 .. l + 1
  BY <1>1
<1> HIDE DEF p, l
<1>3. /\ \A i : i \in EventsOf(p, u) <=> i \in 1 .. l + 1 /\ p[i].kind = "event" /\ p[i].ud = u
      /\ \A i : i \in EventsOf(q, u) <=> i \in 1 .. l /\ q[i].kind = "event" /\ q[i].ud = u
  BY ONLY <1>1 DEF EventsOf, l
<1>4. /\ l \in Nat /\ p \in Queued /\ Len(p) = l + 1 /\ p[l + 1] = e
      /\ \A i \in EventsOf(q, u) : i \in Nat /\ i <= l /\ p[i] = q[i] /\ i \in EventsOf(p, u)
      /\ \A i \in EventsOf(p, u) :
           i \in EventsOf(q, u) \/ (i = l + 1 /\ e.kind = "event" /\ e.ud = u)
      /\ e.kind = "event" /\ e.ud = u => l + 1 \in EventsOf(p, u)
  BY ONLY <1>1, <1>2, <1>3
<1> QED BY ONLY <1>4 DEF p, l

LEMMA TailEvents ==
  ASSUME NEW q \in Queued, q # <<>>, NEW u
  PROVE  /\ Len(q) \in Nat /\ Len(q) >= 1 /\ Tail(q) \in Queued /\ Len(Tail(q)) = Len(q) - 1
         /\ q[1] \in Completions
         /\ \A i \in EventsOf(Tail(q), u) : /\ i \in Nat /\ i >= 1 /\ i + 1 \in EventsOf(q, u)
                                            /\ Tail(q)[i] = q[i + 1]
         /\ \A i \in EventsOf(q, u) : /\ i \in Nat /\ i >= 1
                                      /\ i > 1 => i - 1 \in EventsOf(Tail(q), u)
         /\ 1 \in EventsOf(q, u) <=> q[1].kind = "event" /\ q[1].ud = u
<1> DEFINE p == Tail(q)
           l == Len(q)
<1>1. /\ l \in Nat /\ l >= 1 /\ p \in Queued /\ Len(p) = l - 1 /\ q[1] \in Completions
      /\ \A i \in 1 .. l - 1 : p[i] = q[i + 1]
  BY DEF Queued
<1>2. /\ \A i \in 1 .. l : i # 1 => i - 1 \in 1 .. l - 1 /\ (i - 1) + 1 = i
      /\ \A i \in 1 .. l - 1 : i + 1 \in 1 .. l /\ i \in Nat /\ i >= 1
      /\ \A i \in 1 .. l : i \in Nat /\ i >= 1 /\ (i > 1 <=> i # 1)
      /\ 1 \in 1 .. l
  BY <1>1
<1> HIDE DEF p, l
<1>3. /\ \A i : i \in EventsOf(p, u) <=> i \in 1 .. l - 1 /\ p[i].kind = "event" /\ p[i].ud = u
      /\ \A i : i \in EventsOf(q, u) <=> i \in 1 .. l /\ q[i].kind = "event" /\ q[i].ud = u
  BY ONLY <1>1 DEF EventsOf, l
<1>4. \A i \in EventsOf(p, u) : i \in Nat /\ i >= 1 /\ i + 1 \in EventsOf(q, u) /\ p[i] = q[i + 1]
  BY ONLY <1>1, <1>2, <1>3
<1>5. ASSUME NEW i \in EventsOf(q, u), i > 1 PROVE i - 1 \in EventsOf(p, u)
  <2>1. i \in 1 .. l /\ i # 1 /\ q[i].kind = "event" /\ q[i].ud = u
    BY ONLY <1>2, <1>3, <1>5
  <2>2. i - 1 \in 1 .. l - 1 /\ p[i - 1] = q[i]
    BY ONLY <1>1, <1>2, <2>1
  <2> QED BY ONLY <1>3, <2>1, <2>2
<1>6. \A i \in EventsOf(q, u) : i \in Nat /\ i >= 1
  BY ONLY <1>2, <1>3
<1>7. 1 \in EventsOf(q, u) <=> q[1].kind = "event" /\ q[1].ud = u
  BY ONLY <1>2, <1>3
<1> QED BY ONLY <1>1, <1>4, <1>5, <1>6, <1>7 DEF p, l

\* The last event before a place is one.
LEMMA PriorOne ==
  ASSUME NEW q \in Queued, NEW g, NEW u, NEW i, NEW v, NEW w, Prior(q, g, u, i, v), Prior(q, g, u, i, w)
  PROVE  v = w
<1>1. \A j \in EventsOf(q, u) : j \in Nat
  BY DEF EventsOf
<1>2. CASE \A j \in EventsOf(q, u) : ~(j < i)
  BY <1>2 DEF Prior
<1>3. CASE \E j \in EventsOf(q, u) : j < i
  <2>1. PICK j \in EventsOf(q, u) : j < i /\ v = q[j].n /\ \A k \in EventsOf(q, u) : k < i => k <= j
    BY <1>3 DEF Prior
  <2>2. PICK k \in EventsOf(q, u) : k < i /\ w = q[k].n /\ \A m \in EventsOf(q, u) : m < i => m <= k
    BY <1>3 DEF Prior
  <2>3. j = k
    BY <1>1, <2>1, <2>2
  <2> QED BY <2>1, <2>2, <2>3
<1> QED BY <1>2, <1>3

\* A posting at the end leaves what was before every place.
LEMMA PriorAppend ==
  ASSUME NEW q \in Queued, NEW e \in Completions, NEW g, NEW u, NEW i \in Nat, i <= Len(q) + 1, NEW v,
         Prior(q, g, u, i, v)
  PROVE  Prior(Append(q, e), g, u, i, v)
<1> DEFINE p == Append(q, e)
<1>1. /\ Len(q) \in Nat
      /\ \A j \in EventsOf(q, u) : j \in Nat /\ j <= Len(q) /\ p[j] = q[j] /\ j \in EventsOf(p, u)
      /\ \A j \in EventsOf(p, u) :
           j \in EventsOf(q, u) \/ (j = Len(q) + 1 /\ e.kind = "event" /\ e.ud = u)
  BY AppendEvents
<1> HIDE DEF p
<1>2. \A j \in EventsOf(p, u) : j < i => j \in EventsOf(q, u)
  BY <1>1
<1>3. Prior(p, g, u, i, v)
  <2>1. CASE v = g /\ \A j \in EventsOf(q, u) : ~(j < i)
    BY <1>2, <2>1 DEF Prior
  <2>2. CASE \E j \in EventsOf(q, u) :
               j < i /\ v = q[j].n /\ \A k \in EventsOf(q, u) : k < i => k <= j
    <3>1. PICK j \in EventsOf(q, u) :
               j < i /\ v = q[j].n /\ \A k \in EventsOf(q, u) : k < i => k <= j
      BY <2>2
    <3>2. j \in EventsOf(p, u) /\ v = p[j].n /\ \A k \in EventsOf(p, u) : k < i => k <= j
      BY <1>1, <1>2, <3>1
    <3> QED BY <3>1, <3>2 DEF Prior
  <2> QED BY <2>1, <2>2 DEF Prior
<1> QED BY <1>3 DEF p

\* The last event of all, after a posting.
LEMMA PriorEnd ==
  ASSUME NEW q \in Queued, NEW e \in Completions, NEW g, NEW u
  PROVE  /\ e.kind = "event" /\ e.ud = u => Prior(Append(q, e), g, u, Len(Append(q, e)) + 1, e.n)
         /\ \A v : ~(e.kind = "event" /\ e.ud = u) /\ Prior(q, g, u, Len(q) + 1, v)
                     => Prior(Append(q, e), g, u, Len(Append(q, e)) + 1, v)
<1> DEFINE p == Append(q, e)
           l == Len(q)
<1>1. /\ l \in Nat /\ Len(p) = l + 1 /\ p[l + 1] = e
      /\ \A j \in EventsOf(q, u) : j \in Nat /\ j <= l /\ p[j] = q[j] /\ j \in EventsOf(p, u)
      /\ \A j \in EventsOf(p, u) :
           j \in EventsOf(q, u) \/ (j = l + 1 /\ e.kind = "event" /\ e.ud = u)
      /\ e.kind = "event" /\ e.ud = u => l + 1 \in EventsOf(p, u)
  BY AppendEvents
<1> HIDE DEF p, l
<1>2. ASSUME e.kind = "event", e.ud = u PROVE Prior(p, g, u, (l + 1) + 1, e.n)
  <2>1. /\ l + 1 \in EventsOf(p, u) /\ l + 1 < (l + 1) + 1 /\ e.n = p[l + 1].n
        /\ \A k \in EventsOf(p, u) : k <= l + 1
    BY <1>1, <1>2
  <2> QED BY <2>1 DEF Prior
<1>3. ASSUME NEW v, ~(e.kind = "event" /\ e.ud = u), Prior(q, g, u, l + 1, v)
      PROVE  Prior(p, g, u, (l + 1) + 1, v)
  <2>0. EventsOf(p, u) = EventsOf(q, u) /\ \A j \in EventsOf(q, u) : j < l + 1 /\ j < (l + 1) + 1
    <3>1. EventsOf(p, u) \subseteq EventsOf(q, u) /\ EventsOf(q, u) \subseteq EventsOf(p, u)
      BY ONLY <1>1, <1>3
    <3>2. \A j \in EventsOf(q, u) : j < l + 1 /\ j < (l + 1) + 1
      BY ONLY <1>1
    <3> QED BY ONLY <3>1, <3>2
  <2>1. CASE v = g /\ \A j \in EventsOf(q, u) : ~(j < l + 1)
    BY <2>0, <2>1 DEF Prior
  <2>2. CASE \E j \in EventsOf(q, u) :
               j < l + 1 /\ v = q[j].n /\ \A k \in EventsOf(q, u) : k < l + 1 => k <= j
    <3>1. PICK j \in EventsOf(q, u) :
               j < l + 1 /\ v = q[j].n /\ \A k \in EventsOf(q, u) : k < l + 1 => k <= j
      BY <2>2
    <3>2. j \in EventsOf(p, u) /\ j < (l + 1) + 1 /\ v = p[j].n /\ \A k \in EventsOf(p, u) : k <= j
      BY <1>1, <2>0, <3>1
    <3> QED BY <3>2 DEF Prior
  <2> QED BY <1>3, <2>1, <2>2 DEF Prior
<1> QED BY <1>1, <1>2, <1>3 DEF p, l

\* What the program has reaped of stream u, once it has taken e.
Took(e, g, u) == IF e.kind = "event" /\ e.ud = u THEN e.n ELSE g

\* Reaping moves the first event from the queue to what has been reaped.
LEMMA PriorTail ==
  ASSUME NEW q \in Queued, q # <<>>, NEW g, NEW u, NEW i \in Nat, i >= 1, NEW v,
         Prior(q, g, u, i + 1, v)
  PROVE  Prior(Tail(q), Took(q[1], g, u), u, i, v)
<1> DEFINE p == Tail(q)
<1>1. /\ \A j \in EventsOf(p, u) : j \in Nat /\ j >= 1 /\ j + 1 \in EventsOf(q, u) /\ p[j] = q[j + 1]
      /\ \A j \in EventsOf(q, u) : j \in Nat /\ j >= 1 /\ (j > 1 => j - 1 \in EventsOf(p, u))
      /\ 1 \in EventsOf(q, u) <=> q[1].kind = "event" /\ q[1].ud = u
  BY TailEvents
<1> HIDE DEF p
<1>2. CASE v = g /\ \A j \in EventsOf(q, u) : ~(j < i + 1)
  <2>1. 1 \notin EventsOf(q, u)
    BY <1>2
  <2>2. Took(q[1], g, u) = v
    BY <1>1, <1>2, <2>1 DEF Took
  <2>3. ASSUME NEW j \in EventsOf(p, u) PROVE ~(j < i)
    <3>1. j \in Nat /\ j + 1 \in EventsOf(q, u) /\ ~(j + 1 < i + 1)
      BY <1>1, <1>2, <2>3
    <3> QED BY <3>1
  <2> QED BY <2>2, <2>3 DEF Prior, p
<1>3. CASE \E j \in EventsOf(q, u) :
             j < i + 1 /\ v = q[j].n /\ \A k \in EventsOf(q, u) : k < i + 1 => k <= j
  <2>1. PICK j \in EventsOf(q, u) :
             j < i + 1 /\ v = q[j].n /\ \A k \in EventsOf(q, u) : k < i + 1 => k <= j
    BY <1>3
  <2>2. ASSUME NEW k \in EventsOf(p, u), k < i PROVE k + 1 <= j /\ k \in Nat /\ k >= 1
    <3>1. k \in Nat /\ k >= 1 /\ k + 1 \in EventsOf(q, u)
      BY <1>1, <2>2
    <3>2. k + 1 < i + 1
      BY <2>2, <3>1
    <3> QED BY <2>1, <3>1, <3>2
  <2>3. CASE j = 1
    <3>1. Took(q[1], g, u) = v
      BY <1>1, <2>1, <2>3 DEF Took
    <3>2. ASSUME NEW k \in EventsOf(p, u) PROVE ~(k < i)
      BY <2>2, <2>3
    <3> QED BY <3>1, <3>2 DEF Prior, p
  <2>4. CASE j # 1
    <3>1. j \in Nat /\ j > 1 /\ j - 1 \in EventsOf(p, u) /\ (j - 1) + 1 = j
      BY <1>1, <2>1, <2>4
    <3>2. p[j - 1] = q[j]
      BY <1>1, <3>1
    <3>3. j - 1 < i /\ v = p[j - 1].n
      BY <2>1, <3>1, <3>2
    <3>4. \A k \in EventsOf(p, u) : k < i => k <= j - 1
      BY <2>2, <3>1
    <3> QED BY <3>1, <3>3, <3>4 DEF Prior, p
  <2> QED BY <2>3, <2>4
<1> QED BY <1>2, <1>3 DEF Prior

IsEvent(e, u) == e.kind = "event" /\ e.ud = u

\* What a posting leaves of the streams.
LEMMA AppendTold ==
  ASSUME NEW q \in Queued, NEW e \in Completions, NEW g, NEW u, Told(q, g, u),
         IsEvent(e, u) => \E v \in Nat : /\ Prior(q, g, u, Len(q) + 1, v) /\ e.n > v
                                         /\ e.dropped <=> e.n > v + 1
  PROVE  Told(Append(q, e), g, u)
<1> DEFINE p == Append(q, e)
           l == Len(q)
<1>1. /\ l \in Nat /\ p[l + 1] = e
      /\ \A j \in EventsOf(q, u) : j \in Nat /\ j <= l /\ p[j] = q[j] /\ j \in EventsOf(p, u)
      /\ \A j \in EventsOf(p, u) :
           j \in EventsOf(q, u) \/ (j = l + 1 /\ e.kind = "event" /\ e.ud = u)
  BY AppendEvents
<1>2. \A i \in Nat : \A v : i <= l + 1 /\ Prior(q, g, u, i, v) => Prior(p, g, u, i, v)
  BY PriorAppend
<1> HIDE DEF p, l
<1>3. ASSUME NEW i \in EventsOf(p, u)
      PROVE  \E v \in Nat : Prior(p, g, u, i, v) /\ p[i].n > v /\ (p[i].dropped <=> p[i].n > v + 1)
  <2>1. CASE i \in EventsOf(q, u)
    <3>1. PICK v \in Nat : Prior(q, g, u, i, v) /\ q[i].n > v /\ (q[i].dropped <=> q[i].n > v + 1)
      BY <2>1 DEF Told
    <3>2. i \in Nat /\ i <= l + 1 /\ p[i] = q[i]
      BY <1>1, <2>1
    <3>3. Prior(p, g, u, i, v)
      BY ONLY <1>2, <3>1, <3>2
    <3> QED BY ONLY <3>1, <3>2, <3>3
  <2>2. CASE i = l + 1 /\ IsEvent(e, u)
    <3>1. PICK v \in Nat : Prior(q, g, u, l + 1, v) /\ e.n > v /\ (e.dropped <=> e.n > v + 1)
      BY <2>2 DEF l
    <3>2. i \in Nat /\ i <= l + 1 /\ p[i] = e
      BY ONLY <1>1, <2>2
    <3>3. Prior(p, g, u, i, v)
      BY ONLY <1>2, <2>2, <3>1, <3>2
    <3> QED BY ONLY <3>1, <3>2, <3>3
  <2> QED BY <1>1, <1>3, <2>1, <2>2 DEF IsEvent
<1> QED BY <1>3 DEF Told, p

LEMMA AppendCurrent ==
  ASSUME NEW q \in Queued, NEW e \in Completions, NEW g, NEW s, NEW k \in Nat
  PROVE  /\ Current(q, g, s, k) /\ ~IsEvent(e, s.ud) => Current(Append(q, e), g, s, k)
         /\ IsEvent(e, s.ud) /\ e.n = k /\ s.dropped = 0 => Current(Append(q, e), g, s, k)
<1> DEFINE p == Append(q, e)
<1>1. ASSUME Current(q, g, s, k), ~IsEvent(e, s.ud) PROVE Current(p, g, s, k)
  <2>1. PICK v \in 0 .. k : Prior(q, g, s.ud, Len(q) + 1, v) /\ s.dropped = k - v
    BY <1>1 DEF Current
  <2>2. Prior(p, g, s.ud, Len(p) + 1, v)
    BY <1>1, <2>1, PriorEnd DEF IsEvent
  <2> HIDE DEF p
  <2> QED BY ONLY <2>1, <2>2 DEF Current
<1>2. ASSUME IsEvent(e, s.ud), e.n = k, s.dropped = 0 PROVE Current(p, g, s, k)
  <2>1. Prior(p, g, s.ud, Len(p) + 1, k)
    BY <1>2, PriorEnd DEF IsEvent
  <2>2. k \in 0 .. k /\ k - k = 0
    OBVIOUS
  <2> HIDE DEF p
  <2> QED BY ONLY <1>2, <2>1, <2>2 DEF Current
<1> QED BY <1>1, <1>2

LEMMA AppendWaiting ==
  ASSUME NEW q \in Queued, NEW e \in Completions, NEW sq, NEW S, NEW r, Waiting(q, sq, S, r),
         e.kind = "event" => \E i \in SubSlots : Uses(S[i], r, e.ud)
  PROVE  Waiting(Append(q, e), sq, S, r)
<1> DEFINE p == Append(q, e)
<1>1. ASSUME NEW u, Idle(q, S, r, u) PROVE Idle(p, S, r, u)
  <2>1. \A j \in EventsOf(p, u) :
           j \in EventsOf(q, u) \/ (j = Len(q) + 1 /\ e.kind = "event" /\ e.ud = u)
    BY AppendEvents
  <2> HIDE DEF p
  <2> QED BY <1>1, <2>1 DEF Idle
<1> HIDE DEF p
<1>2. Waiting(p, sq, S, r)
  BY <1>1 DEF Waiting
<1> QED BY <1>2 DEF p

\* What reaping leaves of the streams.
LEMMA TailTold ==
  ASSUME NEW q \in Queued, q # <<>>, NEW g, NEW u, Told(q, g, u)
  PROVE  Told(Tail(q), Took(q[1], g, u), u)
<1> DEFINE p == Tail(q)
           h == Took(q[1], g, u)
<1>1. \A j \in EventsOf(p, u) : j \in Nat /\ j >= 1 /\ j + 1 \in EventsOf(q, u) /\ p[j] = q[j + 1]
  BY TailEvents
<1>2. \A i \in Nat : \A v : i >= 1 /\ Prior(q, g, u, i + 1, v) => Prior(p, h, u, i, v)
  BY PriorTail
<1> HIDE DEF p, h
<1>3. ASSUME NEW i \in EventsOf(p, u)
      PROVE  \E v \in Nat : Prior(p, h, u, i, v) /\ p[i].n > v /\ (p[i].dropped <=> p[i].n > v + 1)
  <2>1. i \in Nat /\ i >= 1 /\ i + 1 \in EventsOf(q, u) /\ p[i] = q[i + 1]
    BY <1>1
  <2>2. PICK v \in Nat : /\ Prior(q, g, u, i + 1, v) /\ q[i + 1].n > v
                         /\ q[i + 1].dropped <=> q[i + 1].n > v + 1
    BY <2>1 DEF Told
  <2>3. Prior(p, h, u, i, v)
    BY ONLY <1>2, <2>1, <2>2
  <2> QED BY ONLY <2>1, <2>2, <2>3
<1> QED BY <1>3 DEF Told, p, h

LEMMA TailCurrent ==
  ASSUME NEW q \in Queued, q # <<>>, NEW g, NEW s, NEW k, Current(q, g, s, k)
  PROVE  Current(Tail(q), Took(q[1], g, s.ud), s, k)
<1>1. PICK v \in 0 .. k : Prior(q, g, s.ud, Len(q) + 1, v) /\ s.dropped = k - v
  BY DEF Current
<1>2. Len(q) \in Nat /\ Len(q) >= 1 /\ Len(Tail(q)) = Len(q) - 1 /\ Len(Tail(q)) + 1 = Len(q)
  BY TailEvents
<1>3. Prior(Tail(q), Took(q[1], g, s.ud), s.ud, Len(q), v)
  BY <1>1, <1>2, PriorTail
<1> QED BY ONLY <1>1, <1>2, <1>3 DEF Current

LEMMA TailWaiting ==
  ASSUME NEW q \in Queued, q # <<>>, NEW sq, NEW S, NEW r, Waiting(q, sq, S, r)
  PROVE  Waiting(Tail(q), sq, S, r)
<1>1. ASSUME NEW u, Idle(q, S, r, u) PROVE Idle(Tail(q), S, r, u)
  BY <1>1, TailEvents DEF Idle
<1> QED BY <1>1 DEF Waiting

----------------------------------------------------------------------------
(* The queue as a sequence.                                                *)

LEMMA SeenQueued ==
  ASSUME NEW x, NEW m, x.cq_tail \in Indices, m.head \in Indices, Filled(x.cq_tail, m.head, m.buf)
  PROVE  /\ Seen(x, m) \in Queued /\ Len(Seen(x, m)) = (x.cq_tail - m.head) % IndexMod
         /\ \A i \in 1 .. Len(Seen(x, m)) : Seen(x, m)[i] = m.buf[(m.head + (i - 1)) % Entries]
<1> DEFINE c == (x.cq_tail - m.head) % IndexMod
           A(i) == m.buf[(m.head + i - 1) % Entries]
<1>1. c \in Nat /\ m.head \in Nat
  <2>1. c \in 0 .. IndexMod - 1
    BY CountSteps
  <2> HIDE DEF c
  <2> QED BY <2>1, Numbers DEF Indices
<1>2. \A j \in 0 .. c - 1 : m.buf[(m.head + j) % Entries] \in Completions
  BY DEF Filled
<1>3. Seen(x, m) = [i \in 1 .. c |-> A(i)]
  BY DEF Seen
<1> HIDE DEF c
<1>4. ASSUME NEW i \in 1 .. c
      PROVE  A(i) \in Completions /\ A(i) = m.buf[(m.head + (i - 1)) % Entries]
  <2>1. i - 1 \in 0 .. c - 1 /\ m.head + i - 1 = m.head + (i - 1)
    BY <1>1, <1>4
  <2> QED BY <1>2, <2>1
<1> HIDE DEF A
<1>5. Seen(x, m) \in Queued /\ Len(Seen(x, m)) = c
  BY <1>1, <1>3, <1>4 DEF Queued
<1>6. \A i \in 1 .. c : Seen(x, m)[i] = m.buf[(m.head + (i - 1)) % Entries]
  BY <1>3, <1>4
<1> QED BY <1>5, <1>6 DEF c

\* A posting appends.
LEMMA SeenPost ==
  ASSUME NEW Q \in Postings, Whole(Q.ring, Q.mem), NEW r \in RingIds, NEW e \in Completions, Q.ring[r].in_use,
         CqPost(Q, r, e).ring[r].clean
  PROVE  /\ Q.ring[r].clean /\ Seen(Q.ring[r], Q.mem[r]) \in Queued
         /\ Seen(CqPost(Q, r, e).ring[r], CqPost(Q, r, e).mem[r]) = Append(Seen(Q.ring[r], Q.mem[r]), e)
<1> DEFINE N == CqPost(Q, r, e)
           t == Q.ring[r].cq_tail
           h == Q.mem[r].head
           b == Q.mem[r].buf
           c == (t - h) % IndexMod
           w == [b EXCEPT ![t % Entries] = e]
           q == Seen(Q.ring[r], Q.mem[r])
           p == Seen(N.ring[r], N.mem[r])
<1>1. /\ t \in Indices /\ h \in Indices /\ b \in Buffers
  BY DEF Postings, RingTables, RingRecords, Memories, Memory, Buffers
<1>2. /\ N.ring[r].cq_tail = NextIndex(t) /\ N.mem[r].head = h /\ N.mem[r].buf = w
  <2>1. /\ N \in Postings
        /\ N.wakes = IF Q.ring[r].waiting THEN Q.wakes \cup {Q.ring[r].owner} ELSE Q.wakes
        /\ \A s \in RingIds : s # r => N.ring[s] = Q.ring[s] /\ N.mem[s] = Q.mem[s]
        /\ ~N.ring[r].waiting
        /\ SameTenants(Q.ring, N.ring)
        /\ N.ring[r].cq_tail = NextIndex(Q.ring[r].cq_tail)
        /\ N.mem[r].sq = Q.mem[r].sq /\ N.mem[r].head = Q.mem[r].head
        /\ N.mem[r].buf = [Q.mem[r].buf EXCEPT ![Q.ring[r].cq_tail % Entries] = e]
    BY PostCells
  <2> QED BY ONLY <2>1
<1>3. Q.ring[r].clean /\ ~IsFull(Q, r)
  BY PostClean
<1>4. c < Entries
  <2>1. c \in 0 .. IndexMod - 1
    BY ONLY <1>1, CountSteps
  <2>2. ~(c >= Entries)
    BY ONLY <1>3 DEF IsFull, UnreapedCount
  <2> HIDE DEF c
  <2> QED BY ONLY <2>1, <2>2, Numbers
<1>5. /\ c \in Nat /\ (NextIndex(t) - h) % IndexMod = c + 1
      /\ w[(h + c) % Entries] = e
      /\ \A j \in 0 .. c - 1 : w[(h + j) % Entries] = b[(h + j) % Entries]
  <2> HIDE DEF t, h, b
  <2>1. (t - h) % IndexMod < Entries
    BY ONLY <1>4
  <2>2. Posted(t, h, b, w, e)
    BY ONLY <1>1, <2>1, PostMoves
  <2> QED BY ONLY <2>2 DEF Posted
<1>6. Whole(N.ring, N.mem)
  BY PostWhole
<1>7. Filled(Q.ring[r].cq_tail, Q.mem[r].head, Q.mem[r].buf)
      /\ Filled(N.ring[r].cq_tail, N.mem[r].head, N.mem[r].buf)
  BY <1>6 DEF Whole
<1>8. /\ q \in Queued /\ Len(q) = c
      /\ \A i \in 1 .. c : q[i] = b[(h + (i - 1)) % Entries]
  <2>1. /\ q \in Queued /\ Len(q) = c
        /\ \A i \in 1 .. Len(q) : q[i] = b[(h + (i - 1)) % Entries]
    BY ONLY <1>1, <1>7, SeenQueued
  <2> HIDE DEF q, c, b, h
  <2> QED BY ONLY <2>1
<1>9. N.ring[r].cq_tail \in Indices /\ N.mem[r].head \in Indices
  BY <1>1, <1>2, IndexType
<1> HIDE DEF N
<1>10. /\ p \in Queued /\ Len(p) = c + 1
       /\ \A i \in 1 .. c + 1 : p[i] = w[(h + (i - 1)) % Entries]
  <2>1. /\ p \in Queued /\ Len(p) = (N.ring[r].cq_tail - N.mem[r].head) % IndexMod
        /\ \A i \in 1 .. Len(p) : p[i] = N.mem[r].buf[(N.mem[r].head + (i - 1)) % Entries]
    BY ONLY <1>7, <1>9, SeenQueued
  <2>2. (N.ring[r].cq_tail - N.mem[r].head) % IndexMod = c + 1
    BY ONLY <1>2, <1>5
  <2> HIDE DEF p, w, h, c
  <2> QED BY ONLY <1>2, <2>1, <2>2
<1> HIDE DEF p, q, w, h, b, c
<1>11. \A i \in 1 .. c : p[i] = q[i]
  <2>1. \A i \in 1 .. c : i - 1 \in 0 .. c - 1 /\ i \in 1 .. c + 1
    BY ONLY <1>5
  <2> QED BY ONLY <1>5, <1>8, <1>10, <2>1
<1>12. p[c + 1] = e
  <2>1. c + 1 \in 1 .. c + 1 /\ (c + 1) - 1 = c
    BY ONLY <1>5
  <2> QED BY ONLY <1>5, <1>10, <2>1
<1>13. p = Append(q, e)
  <2>1. \A i \in 1 .. c + 1 : i # c + 1 => i \in 1 .. c
    BY ONLY <1>5
  <2>2. /\ Append(q, e) \in Queued /\ Len(Append(q, e)) = c + 1 /\ Append(q, e)[c + 1] = e
        /\ \A i \in 1 .. c : Append(q, e)[i] = q[i]
    BY ONLY <1>5, <1>8, e \in Completions DEF Queued
  <2>3. \A i \in 1 .. c + 1 : p[i] = Append(q, e)[i]
    BY ONLY <1>11, <1>12, <2>1, <2>2
  <2> QED BY ONLY <1>10, <2>2, <2>3 DEF Queued
<1> QED BY ONLY <1>3, <1>8, <1>13 DEF p, q, N

\* Reaping takes the head.
\* The completion at the head of m is reaped, n is what follows.
Reaps(x, m, n, v) ==
  /\ x.cq_tail \in Indices /\ m.head \in Indices /\ x.cq_tail # m.head
  /\ m.buf \in Buffers /\ (x.cq_tail - m.head) % IndexMod <= Entries
  /\ Filled(x.cq_tail, m.head, m.buf) /\ Filled(x.cq_tail, n.head, n.buf)
  /\ n.head = NextIndex(m.head) /\ n.buf = [m.buf EXCEPT ![m.head % Entries] = v]

LEMMA SeenReap ==
  ASSUME NEW x, NEW m, NEW n, NEW v, Reaps(x, m, n, v)
  PROVE  /\ Seen(x, m) \in Queued /\ Seen(x, m) # <<>> /\ Seen(x, n) = Tail(Seen(x, m))
         /\ Seen(x, m)[1] = m.buf[m.head % Entries]
<1> DEFINE t == x.cq_tail
           h == m.head
           b == m.buf
           c == (t - h) % IndexMod
           w == [b EXCEPT ![h % Entries] = v]
           q == Seen(x, m)
           p == Seen(x, n)
<1>0. /\ x.cq_tail \in Indices /\ m.head \in Indices /\ x.cq_tail # m.head
      /\ m.buf \in Buffers /\ (x.cq_tail - m.head) % IndexMod <= Entries
      /\ Filled(x.cq_tail, m.head, m.buf) /\ Filled(x.cq_tail, n.head, n.buf)
      /\ n.head = NextIndex(m.head) /\ n.buf = [m.buf EXCEPT ![m.head % Entries] = v]
  BY DEF Reaps
<1>1. /\ c \in Nat /\ c > 0 /\ (t - NextIndex(h)) % IndexMod = c - 1
      /\ \A j \in 0 .. c - 2 : w[(NextIndex(h) + j) % Entries] = b[(h + (j + 1)) % Entries]
  <2>1. t \in Indices /\ h \in Indices /\ t # h /\ b \in Buffers /\ (t - h) % IndexMod <= Entries
    BY <1>0
  <2> HIDE DEF t, h, b
  <2>2. Reaped(t, h, b, w)
    BY ONLY <2>1, ReapMoves
  <2> QED BY ONLY <2>2 DEF Reaped
<1>2. NextIndex(h) \in Indices /\ h \in Int
  BY <1>0, IndexType, Numbers DEF Indices
<1>3. /\ q \in Queued /\ Len(q) = c
      /\ \A i \in 1 .. c : q[i] = b[(h + (i - 1)) % Entries]
  <2>1. x.cq_tail \in Indices /\ m.head \in Indices /\ Filled(x.cq_tail, m.head, m.buf)
    BY ONLY <1>0
  <2>2. /\ Seen(x, m) \in Queued /\ Len(Seen(x, m)) = (x.cq_tail - m.head) % IndexMod
        /\ \A i \in 1 .. Len(Seen(x, m)) : Seen(x, m)[i] = m.buf[(m.head + (i - 1)) % Entries]
    BY ONLY <2>1, SeenQueued
  <2> HIDE DEF q
  <2> QED BY ONLY <2>2 DEF q
<1>4. /\ p \in Queued /\ Len(p) = c - 1
      /\ \A i \in 1 .. c - 1 : p[i] = w[(NextIndex(h) + (i - 1)) % Entries]
  <2>0. n.head = NextIndex(h) /\ n.buf = w
    BY <1>0
  <2>1. /\ p \in Queued /\ Len(p) = (x.cq_tail - n.head) % IndexMod
        /\ \A i \in 1 .. Len(p) : p[i] = n.buf[(n.head + (i - 1)) % Entries]
    <3>1. n.head \in Indices
      BY ONLY <1>2, <2>0
    <3>2. x.cq_tail \in Indices /\ n.head \in Indices /\ Filled(x.cq_tail, n.head, n.buf)
      BY ONLY <1>0, <3>1
    <3>3. /\ Seen(x, n) \in Queued /\ Len(Seen(x, n)) = (x.cq_tail - n.head) % IndexMod
          /\ \A i \in 1 .. Len(Seen(x, n)) : Seen(x, n)[i] = n.buf[(n.head + (i - 1)) % Entries]
      BY ONLY <3>2, SeenQueued
    <3> QED BY ONLY <3>3
  <2>2. (x.cq_tail - n.head) % IndexMod = c - 1
    BY ONLY <1>1, <2>0
  <2> HIDE DEF p, w, h, c
  <2> QED BY ONLY <2>0, <2>1, <2>2
<1> HIDE DEF p, q, w, c, b
<1>5. ASSUME NEW i \in 1 .. c - 1 PROVE p[i] = q[i + 1]
  <2>1. i - 1 \in 0 .. c - 2 /\ i + 1 \in 1 .. c /\ (i - 1) + 1 = i /\ (i + 1) - 1 = i
    BY ONLY <1>1, <1>5
  <2>2. p[i] = w[(NextIndex(h) + (i - 1)) % Entries]
    BY ONLY <1>4, <1>5
  <2>3. w[(NextIndex(h) + (i - 1)) % Entries] = b[(h + ((i - 1) + 1)) % Entries]
    BY ONLY <1>1, <2>1
  <2>4. q[i + 1] = b[(h + ((i + 1) - 1)) % Entries]
    BY ONLY <1>3, <2>1
  <2> QED BY ONLY <2>1, <2>2, <2>3, <2>4
<1>6. q # <<>> /\ Tail(q) \in Queued /\ Len(Tail(q)) = c - 1 /\ \A i \in 1 .. c - 1 : Tail(q)[i] = q[i + 1]
  BY ONLY <1>1, <1>3 DEF Queued
<1>7. p = Tail(q)
  BY ONLY <1>4, <1>5, <1>6 DEF Queued
<1>8. q[1] = b[h % Entries]
  <2>1. 1 \in 1 .. c /\ h + (1 - 1) = h
    BY ONLY <1>1, <1>2
  <2> QED BY ONLY <1>3, <2>1
<1> QED BY ONLY <1>3, <1>6, <1>7, <1>8 DEF p, q, b, h

----------------------------------------------------------------------------
(* Streams through the postings of an action.                              *)

\* The streams of a posting, with G for what has been reaped.
QStreams(Q, G, S, K) == \A r \in RingIds : StreamsAt(Q.ring[r], Q.mem[r], G[r], S, K, r)

Counts == [SubSlots -> Nat]

\* Fewer subscriptions, the same ones.
LEMMA FewerSubs ==
  ASSUME NEW x, NEW m, NEW g, NEW S, NEW K, NEW r, StreamsAt(x, m, g, S, K, r), NEW T, NEW L,
         \A j \in SubSlots : T[j] # None /\ T[j].ring = r => T[j] = S[j] /\ L[j] = K[j]
  PROVE  StreamsAt(x, m, g, T, L, r)
<1>1. SUFFICES ASSUME x.in_use, x.clean
      PROVE  /\ \A u \in Cookies : Told(Seen(x, m), g[u], u)
             /\ \A i \in SubSlots : T[i] # None /\ T[i].ring = r =>
                  Current(Seen(x, m), g[T[i].ud], T[i], L[i])
             /\ Waiting(Seen(x, m), m.sq, T, r)
  BY DEF StreamsAt
<1>2. /\ \A u \in Cookies : Told(Seen(x, m), g[u], u)
      /\ \A i \in SubSlots : S[i] # None /\ S[i].ring = r => Current(Seen(x, m), g[S[i].ud], S[i], K[i])
      /\ Waiting(Seen(x, m), m.sq, S, r)
  BY <1>1 DEF StreamsAt
<1>3. ASSUME NEW i \in SubSlots, T[i] # None, T[i].ring = r PROVE Current(Seen(x, m), g[T[i].ud], T[i], L[i])
  <2>1. T[i] = S[i] /\ L[i] = K[i]
    BY <1>3
  <2> QED BY <1>2, <1>3, <2>1
<1>4. \A j \in SubSlots : \A u : Uses(T[j], r, u) => Uses(S[j], r, u)
  BY DEF Uses
<1>5. Waiting(Seen(x, m), m.sq, T, r)
  BY <1>2, <1>4 DEF Waiting, Idle
<1> QED BY <1>2, <1>3, <1>5

\* The same queues.
LEMMA SameStreams ==
  ASSUME NEW x, NEW m, NEW g, NEW S, NEW K, NEW r, StreamsAt(x, m, g, S, K, r), NEW y, NEW n,
         y.in_use = x.in_use, y.clean = x.clean, y.cq_tail = x.cq_tail,
         n.head = m.head, n.buf = m.buf, n.sq = m.sq
  PROVE  StreamsAt(y, n, g, S, K, r)
<1>1. Seen(y, n) = Seen(x, m)
  BY DEF Seen
<1> QED BY ONLY <1>1, StreamsAt(x, m, g, S, K, r), y.in_use = x.in_use, y.clean = x.clean, n.sq = m.sq DEF StreamsAt

\* An answer or a refusal is no event.
LEMMA PostNoEvent ==
  ASSUME NEW Q \in Postings, Whole(Q.ring, Q.mem), NEW r \in RingIds, NEW e \in Completions,
         e.kind # "event", NEW G, NEW S, NEW K \in Counts, QStreams(Q, G, S, K)
  PROVE  QStreams(CqPost(Q, r, e), G, S, K)
<1> DEFINE N == CqPost(Q, r, e)
<1>1. CASE ~Q.ring[r].in_use
  BY <1>1 DEF CqPost
<1>2. CASE Q.ring[r].in_use
  <2>1. /\ \A s \in RingIds : s # r => N.ring[s] = Q.ring[s] /\ N.mem[s] = Q.mem[s]
        /\ N.mem[r].sq = Q.mem[r].sq
    BY <1>2, PostFrame
  <2>2. N.ring[r].clean =>
          /\ Q.ring[r].clean /\ Seen(Q.ring[r], Q.mem[r]) \in Queued
          /\ Seen(N.ring[r], N.mem[r]) = Append(Seen(Q.ring[r], Q.mem[r]), e)
    BY <1>2, SeenPost
  <2> HIDE DEF N
  <2>3. \A s \in RingIds : StreamsAt(Q.ring[s], Q.mem[s], G[s], S, K, s)
    BY DEF QStreams
  <2>4. ASSUME N.ring[r].clean
        PROVE  /\ \A u \in Cookies : Told(Seen(N.ring[r], N.mem[r]), G[r][u], u)
               /\ \A i \in SubSlots : S[i] # None /\ S[i].ring = r =>
                    Current(Seen(N.ring[r], N.mem[r]), G[r][S[i].ud], S[i], K[i])
               /\ Waiting(Seen(N.ring[r], N.mem[r]), N.mem[r].sq, S, r)
    <3> DEFINE q == Seen(Q.ring[r], Q.mem[r])
               g == G[r]
    <3>1. q \in Queued /\ Seen(N.ring[r], N.mem[r]) = Append(q, e)
      BY <2>2, <2>4
    <3>2. /\ \A u \in Cookies : Told(q, g[u], u)
          /\ \A i \in SubSlots : S[i] # None /\ S[i].ring = r => Current(q, g[S[i].ud], S[i], K[i])
          /\ Waiting(q, Q.mem[r].sq, S, r)
      BY <1>2, <2>2, <2>3, <2>4 DEF StreamsAt
    <3> HIDE DEF q, g
    <3>3. \A u : ~IsEvent(e, u)
      BY DEF IsEvent
    <3>4. \A u \in Cookies : Told(Append(q, e), g[u], u)
      BY ONLY <3>1, <3>2, <3>3, e \in Completions, AppendTold
    <3>5. ASSUME NEW i \in SubSlots, S[i] # None, S[i].ring = r
          PROVE  Current(Append(q, e), g[S[i].ud], S[i], K[i])
      <4>1. Current(q, g[S[i].ud], S[i], K[i]) /\ K[i] \in Nat
        BY <3>2, <3>5 DEF Counts
      <4> QED BY ONLY <3>1, <3>3, <4>1, e \in Completions, AppendCurrent
    <3>6. Waiting(Append(q, e), Q.mem[r].sq, S, r)
      BY ONLY <3>1, <3>2, e \in Completions, e.kind # "event", AppendWaiting
    <3> QED BY ONLY <2>1, <3>1, <3>4, <3>5, <3>6 DEF g
  <2>5. StreamsAt(N.ring[r], N.mem[r], G[r], S, K, r)
    BY ONLY <2>4 DEF StreamsAt
  <2>6. QStreams(N, G, S, K)
    BY ONLY <2>1, <2>3, <2>5 DEF QStreams
  <2> QED BY ONLY <2>6 DEF N
<1> QED BY <1>1, <1>2

\* Subscription i of ring r, under cookie u, has heard of one event more; its count
\* of losses is now d.
Hears(S, T, K, L, i, r, u, d) ==
  /\ i \in SubSlots /\ Uses(S[i], r, u) /\ Uses(T[i], r, u) /\ T[i].dropped = d /\ L[i] = K[i] + 1
  /\ \A j \in SubSlots : j # i => T[j] = S[j] /\ L[j] = K[j]
  /\ K \in Counts /\ L \in Counts /\ Unique(S)

LEMMA HearsKeeps ==
  ASSUME NEW S, NEW T, NEW K, NEW L, NEW i, NEW r, NEW u, NEW d, Hears(S, T, K, L, i, r, u, d)
  PROVE  /\ Unique(T)
         /\ \A j \in SubSlots : \A s, v : Uses(T[j], s, v) <=> Uses(S[j], s, v)
<1>1. \A j \in SubSlots : \A s, v : Uses(T[j], s, v) <=> Uses(S[j], s, v)
  <2>1. ASSUME NEW j \in SubSlots, NEW s, NEW v PROVE Uses(T[j], s, v) <=> Uses(S[j], s, v)
    <3>1. CASE j = i
      BY <3>1 DEF Hears, Uses
    <3>2. CASE j # i
      BY <3>2 DEF Hears
    <3> QED BY <3>1, <3>2
  <2> QED BY <2>1
<1>2. ASSUME NEW j \in SubSlots, NEW k \in SubSlots,
             T[j] # None, T[k] # None, T[j].ring = T[k].ring, T[j].ud = T[k].ud
      PROVE  j = k
  <2>1. Uses(T[j], T[j].ring, T[j].ud) /\ Uses(T[k], T[j].ring, T[j].ud)
    BY <1>2 DEF Uses
  <2>2. Uses(S[j], T[j].ring, T[j].ud) /\ Uses(S[k], T[j].ring, T[j].ud)
    BY <1>1, <2>1
  <2> QED BY <2>2 DEF Hears, Unique, Uses
<1> QED BY <1>1, <1>2 DEF Unique

\* The event is queued.
LEMMA PostEvent ==
  ASSUME NEW Q \in Postings, Whole(Q.ring, Q.mem), NEW r \in RingIds, NEW e \in Completions, Q.ring[r].in_use,
         NEW G, NEW S \in SubTables, NEW T, NEW K, NEW L, NEW i, Hears(S, T, K, L, i, r, e.ud, 0),
         e.kind = "event", e.n = K[i] + 1, e.dropped <=> S[i].dropped > 0,
         QStreams(Q, G, S, K)
  PROVE  QStreams(CqPost(Q, r, e), G, T, L)
<1> DEFINE N == CqPost(Q, r, e)
<1>1. /\ \A s \in RingIds : s # r => N.ring[s] = Q.ring[s] /\ N.mem[s] = Q.mem[s]
      /\ N.mem[r].sq = Q.mem[r].sq
  BY PostFrame
<1>2. N.ring[r].clean =>
        /\ Q.ring[r].clean /\ Seen(Q.ring[r], Q.mem[r]) \in Queued
        /\ Seen(N.ring[r], N.mem[r]) = Append(Seen(Q.ring[r], Q.mem[r]), e)
  BY SeenPost
<1> HIDE DEF N
<1>3. \A s \in RingIds : StreamsAt(Q.ring[s], Q.mem[s], G[s], S, K, s)
  BY DEF QStreams
<1>4. /\ i \in SubSlots /\ Uses(S[i], r, e.ud) /\ Uses(T[i], r, e.ud) /\ T[i].dropped = 0 /\ L[i] = K[i] + 1
      /\ \A j \in SubSlots : j # i => T[j] = S[j] /\ L[j] = K[j]
      /\ K \in Counts /\ L \in Counts /\ Unique(S)
  BY DEF Hears
<1>5. /\ Unique(T) /\ \A j \in SubSlots : \A s, v : Uses(T[j], s, v) <=> Uses(S[j], s, v)
  BY HearsKeeps
<1>6. ASSUME NEW s \in RingIds, s # r PROVE StreamsAt(N.ring[s], N.mem[s], G[s], T, L, s)
  <2>1. \A j \in SubSlots : T[j] # None /\ T[j].ring = s => T[j] = S[j] /\ L[j] = K[j]
    BY <1>4, <1>6 DEF Uses
  <2>2. StreamsAt(Q.ring[s], Q.mem[s], G[s], T, L, s)
    BY ONLY <1>3, <1>6, <2>1, FewerSubs
  <2> QED BY ONLY <1>1, <1>6, <2>2
<1>7. ASSUME N.ring[r].clean
      PROVE  /\ \A u \in Cookies : Told(Seen(N.ring[r], N.mem[r]), G[r][u], u)
             /\ \A j \in SubSlots : T[j] # None /\ T[j].ring = r =>
                  Current(Seen(N.ring[r], N.mem[r]), G[r][T[j].ud], T[j], L[j])
             /\ Waiting(Seen(N.ring[r], N.mem[r]), N.mem[r].sq, T, r)
  <2> DEFINE q == Seen(Q.ring[r], Q.mem[r])
             g == G[r]
  <2>1. q \in Queued /\ Seen(N.ring[r], N.mem[r]) = Append(q, e)
    BY <1>2, <1>7
  <2>2. /\ \A u \in Cookies : Told(q, g[u], u)
        /\ \A j \in SubSlots : S[j] # None /\ S[j].ring = r => Current(q, g[S[j].ud], S[j], K[j])
        /\ Waiting(q, Q.mem[r].sq, S, r)
    BY <1>2, <1>3, <1>7 DEF StreamsAt
  <2> HIDE DEF q, g
  <2>3. PICK v \in 0 .. K[i] : Prior(q, g[e.ud], e.ud, Len(q) + 1, v) /\ S[i].dropped = K[i] - v
    <3>1. S[i] # None /\ S[i].ring = r /\ S[i].ud = e.ud
      BY <1>4 DEF Uses
    <3>2. Current(q, g[e.ud], S[i], K[i])
      BY <1>4, <2>2, <3>1
    <3> QED BY ONLY <3>1, <3>2 DEF Current
  <2>4. v \in Nat /\ e.n > v /\ (e.dropped <=> e.n > v + 1)
    <3>1. K[i] \in Nat
      BY <1>4 DEF Counts
    <3>2. v \in Nat /\ K[i] + 1 > v /\ (S[i].dropped > 0 <=> K[i] + 1 > v + 1)
      BY ONLY <2>3, <3>1
    <3> QED BY <3>2
  <2>5. ASSUME NEW u \in Cookies PROVE Told(Append(q, e), g[u], u)
    <3>1. IsEvent(e, u) => \E w \in Nat : /\ Prior(q, g[u], u, Len(q) + 1, w) /\ e.n > w
                                          /\ e.dropped <=> e.n > w + 1
      BY ONLY <2>3, <2>4 DEF IsEvent
    <3> QED BY ONLY <2>1, <2>2, <2>5, <3>1, e \in Completions, AppendTold
  <2>6. ASSUME NEW j \in SubSlots, T[j] # None, T[j].ring = r
        PROVE  Current(Append(q, e), g[T[j].ud], T[j], L[j])
    <3>0. L[j] \in Nat
      BY <1>4 DEF Counts
    <3>1. CASE j = i
      <4>1. IsEvent(e, T[j].ud) /\ e.n = L[j] /\ T[j].dropped = 0
        BY <1>4, <3>1 DEF IsEvent, Uses
      <4> QED BY ONLY <2>1, <3>0, <4>1, e \in Completions, AppendCurrent
    <3>2. CASE j # i
      <4>1. T[j] = S[j] /\ L[j] = K[j]
        BY ONLY <1>4, <2>6, <3>2
      <4>2. T[j].ud # e.ud
        BY ONLY <1>4, <1>5, <2>6, <3>2 DEF Unique, Uses
      <4>3. Current(q, g[T[j].ud], T[j], L[j])
        BY ONLY <2>2, <2>6, <4>1
      <4>4. ~IsEvent(e, T[j].ud)
        BY ONLY <4>2 DEF IsEvent
      <4> QED BY ONLY <2>1, <3>0, <4>3, <4>4, e \in Completions, AppendCurrent
    <3> QED BY ONLY <3>1, <3>2
  <2>7. Waiting(Append(q, e), Q.mem[r].sq, T, r)
    <3>1. Waiting(Append(q, e), Q.mem[r].sq, S, r)
      BY ONLY <1>4, <2>1, <2>2, e \in Completions, AppendWaiting
    <3> QED BY ONLY <1>5, <3>1 DEF Waiting, Idle
  <2> QED BY ONLY <1>1, <2>1, <2>5, <2>6, <2>7 DEF g
<1>8. StreamsAt(N.ring[r], N.mem[r], G[r], T, L, r)
  BY ONLY <1>7 DEF StreamsAt
<1>9. QStreams(N, G, T, L)
  BY ONLY <1>6, <1>8 DEF QStreams
<1> QED BY ONLY <1>9 DEF N

\* The event is dropped and counted.
LEMMA DropEvent ==
  ASSUME NEW Q, NEW r \in RingIds, NEW u,
         NEW G, NEW S \in SubTables, NEW T, NEW K, NEW L, NEW i, Hears(S, T, K, L, i, r, u, S[i].dropped + 1),
         QStreams(Q, G, S, K)
  PROVE  QStreams(Q, G, T, L)
<1>3. \A s \in RingIds : StreamsAt(Q.ring[s], Q.mem[s], G[s], S, K, s)
  BY DEF QStreams
<1>4. /\ i \in SubSlots /\ Uses(S[i], r, u) /\ Uses(T[i], r, u) /\ T[i].dropped = S[i].dropped + 1
      /\ L[i] = K[i] + 1
      /\ \A j \in SubSlots : j # i => T[j] = S[j] /\ L[j] = K[j]
      /\ K \in Counts /\ L \in Counts /\ Unique(S)
  BY DEF Hears
<1>5. /\ Unique(T) /\ \A j \in SubSlots : \A s, v : Uses(T[j], s, v) <=> Uses(S[j], s, v)
  BY HearsKeeps
<1>6. ASSUME NEW s \in RingIds, s # r PROVE StreamsAt(Q.ring[s], Q.mem[s], G[s], T, L, s)
  <2>1. \A j \in SubSlots : T[j] # None /\ T[j].ring = s => T[j] = S[j] /\ L[j] = K[j]
    BY <1>4, <1>6 DEF Uses
  <2> QED BY ONLY <1>3, <1>6, <2>1, FewerSubs
<1>7. ASSUME Q.ring[r].in_use, Q.ring[r].clean
      PROVE  /\ \A w \in Cookies : Told(Seen(Q.ring[r], Q.mem[r]), G[r][w], w)
             /\ \A j \in SubSlots : T[j] # None /\ T[j].ring = r =>
                  Current(Seen(Q.ring[r], Q.mem[r]), G[r][T[j].ud], T[j], L[j])
             /\ Waiting(Seen(Q.ring[r], Q.mem[r]), Q.mem[r].sq, T, r)
  <2> DEFINE q == Seen(Q.ring[r], Q.mem[r])
             g == G[r]
  <2>2. /\ \A w \in Cookies : Told(q, g[w], w)
        /\ \A j \in SubSlots : S[j] # None /\ S[j].ring = r => Current(q, g[S[j].ud], S[j], K[j])
        /\ Waiting(q, Q.mem[r].sq, S, r)
    BY <1>3, <1>7 DEF StreamsAt
  <2> HIDE DEF q, g
  <2>3. ASSUME NEW j \in SubSlots, T[j] # None, T[j].ring = r PROVE Current(q, g[T[j].ud], T[j], L[j])
    <3>1. CASE j # i
      BY ONLY <1>4, <2>2, <2>3, <3>1
    <3>2. CASE j = i
      <4>1. S[i] # None /\ S[i].ring = r /\ S[i].ud = u /\ T[j].ud = u
        BY ONLY <1>4, <3>2 DEF Uses
      <4>2. PICK v \in 0 .. K[i] : Prior(q, g[u], u, Len(q) + 1, v) /\ S[i].dropped = K[i] - v
        BY ONLY <1>4, <2>2, <4>1 DEF Current
      <4>3. K[i] \in Nat
        BY ONLY <1>4 DEF Counts
      <4>4. v \in 0 .. L[j] /\ T[j].dropped = L[j] - v
        BY ONLY <1>4, <3>2, <4>2, <4>3
      <4> QED BY ONLY <4>1, <4>2, <4>4 DEF Current
    <3> QED BY ONLY <3>1, <3>2
  <2>4. Waiting(q, Q.mem[r].sq, T, r)
    BY ONLY <1>5, <2>2 DEF Waiting, Idle
  <2> QED BY ONLY <2>2, <2>3, <2>4 DEF q, g
<1>8. StreamsAt(Q.ring[r], Q.mem[r], G[r], T, L, r)
  BY ONLY <1>7 DEF StreamsAt
<1> QED BY ONLY <1>6, <1>8 DEF QStreams

----------------------------------------------------------------------------
(* Streams through the delivery of an event.                               *)

\* The first n subscriptions have had the event.
HeardTo(n) == [j \in SubSlots |-> IF j < n THEN clock + 1 ELSE clock]

LEMMA HeardStep ==
  ASSUME clock \in Nat, NEW i \in SubSlots
  PROVE  /\ HeardTo(i) \in Counts /\ HeardTo(i + 1) \in Counts
         /\ HeardTo(i)[i] = clock /\ HeardTo(i + 1)[i] = HeardTo(i)[i] + 1
         /\ \A j \in SubSlots : j # i => HeardTo(i + 1)[j] = HeardTo(i)[j]
<1>1. i \in Nat /\ \A j \in SubSlots : j \in Nat
  BY Numbers DEF SubSlots
<1>2. \A n \in Nat : /\ HeardTo(n) \in Counts
                     /\ \A j \in SubSlots : HeardTo(n)[j] = IF j < n THEN clock + 1 ELSE clock
  BY DEF HeardTo, Counts
<1> QED BY <1>1, <1>2

Streaming(D, n) ==
  Whole(D.q.ring, D.q.mem) /\ QStreams(D.q, got, D.s, HeardTo(n)) /\ Unique(D.s)

LEMMA DeliverToStreams ==
  ASSUME AInv, clock < MaxEvents, NEW i \in SubSlots, NEW D, Delivering(D, i), Streaming(D, i)
  PROVE  Streaming(DeliverTo(D, i), i + 1)
<1> DEFINE sub == subs[i]
           K   == HeardTo(i)
           L   == HeardTo(i + 1)
<1>1. /\ clock \in Nat /\ i \in Nat /\ subs \in SubTables /\ clock \in 0 .. MaxEvents
      /\ OfTenant(ring, sub) /\ DropsWithin(sub, clock)
  BY Numbers DEF AInv, WInv, RInv, Types, SubSlots
<1>2. /\ D.q \in Postings /\ D.s \in SubTables /\ D = [q |-> D.q, s |-> D.s]
      /\ SameTenants(ring, D.q.ring)
      /\ \A j \in SubSlots : j >= i => D.s[j] = subs[j]
  BY DEF Delivering
<1>3. /\ K \in Counts /\ L \in Counts /\ K[i] = clock /\ L[i] = K[i] + 1
      /\ \A j \in SubSlots : j # i => L[j] = K[j]
  BY ONLY <1>1, i \in SubSlots, HeardStep
<1>4. D.s[i] = sub
  <2>1. i >= i
    BY ONLY <1>1
  <2> QED BY ONLY <1>2, <2>1, i \in SubSlots
<1>5. Whole(D.q.ring, D.q.mem) /\ QStreams(D.q, got, D.s, K) /\ Unique(D.s)
  BY DEF Streaming
<1>6. SUFFICES /\ Whole(DeliverTo(D, i).q.ring, DeliverTo(D, i).q.mem)
               /\ QStreams(DeliverTo(D, i).q, got, DeliverTo(D, i).s, L) /\ Unique(DeliverTo(D, i).s)
  BY DEF Streaming
<1> HIDE DEF K, L
<1>7. CASE sub = None
  <2>1. DeliverTo(D, i) = D
    BY <1>7 DEF DeliverTo
  <2>2. \A j \in SubSlots : D.s[j] # None => L[j] = K[j]
    BY ONLY <1>3, <1>4, <1>7
  <2>3. ASSUME NEW r \in RingIds PROVE StreamsAt(D.q.ring[r], D.q.mem[r], got[r], D.s, L, r)
    <3>1. StreamsAt(D.q.ring[r], D.q.mem[r], got[r], D.s, K, r)
      BY ONLY <1>5, <2>3 DEF QStreams
    <3>2. \A j \in SubSlots : D.s[j] # None /\ D.s[j].ring = r => D.s[j] = D.s[j] /\ L[j] = K[j]
      BY ONLY <2>2
    <3> QED BY ONLY <3>1, <3>2, FewerSubs
  <2> QED BY ONLY <1>5, <2>1, <2>3 DEF QStreams
<1>8. ASSUME sub # None
      PROVE  sub \in SubRecords /\ sub.ring \in RingIds /\ Uses(D.s[i], sub.ring, sub.ud) /\ D.q.ring[sub.ring].in_use
  <2>1. sub \in SubRecords
    BY <1>1, <1>8 DEF SubTables
  <2>2. sub.ring \in RingIds
    BY ONLY <2>1 DEF SubRecords
  <2>3. D.q.ring[sub.ring].in_use
    BY ONLY <1>1, <1>2, <1>8, <2>2 DEF OfTenant, SameTenants
  <2> QED BY ONLY <1>4, <1>8, <2>1, <2>2, <2>3 DEF Uses
<1>9. ASSUME NEW x \in SubRecords, x.ring = sub.ring, x.ud = sub.ud, NEW d, x.dropped = d, sub # None
      PROVE  Hears(D.s, [D.s EXCEPT ![i] = x], K, L, i, sub.ring, sub.ud, d)
  <2> DEFINE U == [D.s EXCEPT ![i] = x]
  <2>1. U[i] = x /\ \A j \in SubSlots : j # i => U[j] = D.s[j]
    BY ONLY <1>2, i \in SubSlots DEF SubTables
  <2>2. x # None
    BY ONLY <1>9, NoneAssumption
  <2> HIDE DEF U
  <2>3. Hears(D.s, U, K, L, i, sub.ring, sub.ud, d)
    BY ONLY <1>3, <1>5, <1>8, <1>9, <2>1, <2>2, i \in SubSlots DEF Hears, Uses
  <2> QED BY ONLY <2>3 DEF U
<1>10. CASE sub # None /\ IsFull(D.q, sub.ring)
  <2> DEFINE x == CountDrop(sub)
             U == [D.s EXCEPT ![i] = x]
  <2>1. /\ x \in SubRecords /\ x.ring = sub.ring /\ x.ud = sub.ud
        /\ x.dropped = sub.dropped + 1
    BY <1>1, <1>8, <1>10, Numbers DEF CountDrop, SubRecords, DropsWithin
  <2>2. DeliverTo(D, i) = [q |-> D.q, s |-> U]
    BY <1>2, <1>8, <1>10 DEF DeliverTo
  <2> HIDE DEF x
  <2>3. Hears(D.s, U, K, L, i, sub.ring, sub.ud, D.s[i].dropped + 1)
    BY ONLY <1>4, <1>9, <1>10, <2>1
  <2> HIDE DEF U, sub
  <2>4. QStreams(D.q, got, U, L)
    BY ONLY <1>2, <1>5, <1>8, <1>10, <2>3, DropEvent
  <2>5. Unique(U)
    BY ONLY <2>3, HearsKeeps
  <2> QED BY ONLY <1>5, <2>2, <2>4, <2>5
<1>11. CASE sub # None /\ ~IsFull(D.q, sub.ring)
  <2> DEFINE e == EventFor(sub)
             N == CqPost(D.q, sub.ring, e)
             x == [sub EXCEPT !.dropped = 0]
             U == [D.s EXCEPT ![i] = x]
  <2>1. /\ sub.ring \in RingIds /\ e \in Completions /\ e.ud = sub.ud /\ e.kind = "event" /\ e.n = clock + 1
        /\ e.dropped = (sub.dropped > 0)
    <3>1. sub.ring \in RingIds /\ e \in Completions
      BY <1>1, <1>8, <1>11, Numbers DEF SubRecords, EventFor, Completions
    <3> QED BY ONLY <3>1, Zenon DEF EventFor
  <2>2. x \in SubRecords /\ x.ring = sub.ring /\ x.ud = sub.ud /\ x.dropped = 0
    BY <1>8, <1>11, Numbers DEF SubRecords
  <2>3. DeliverTo(D, i) = [q |-> N, s |-> U]
    <3>1. [D.s EXCEPT ![i].dropped = 0] = U
      BY ONLY <1>2, <1>4
    <3> QED BY <1>8, <1>11, <3>1 DEF DeliverTo
  <2> HIDE DEF e, x
  <2>4. Hears(D.s, U, K, L, i, sub.ring, sub.ud, 0)
    BY ONLY <1>9, <1>11, <2>2
  <2> HIDE DEF U, sub
  <2>5. Hears(D.s, U, K, L, i, sub.ring, e.ud, 0) /\ e.n = K[i] + 1 /\ (e.dropped <=> D.s[i].dropped > 0)
    BY ONLY <1>3, <1>4, <2>1, <2>4
  <2>6. QStreams(N, got, U, L)
    BY ONLY <1>2, <1>5, <1>8, <1>11, <2>1, <2>5, PostEvent
  <2>7. Unique(U)
    BY ONLY <2>4, HearsKeeps
  <2>8. Whole(N.ring, N.mem)
    BY ONLY <1>2, <1>5, <2>1, PostWhole
  <2> HIDE DEF N
  <2> QED BY ONLY <2>3, <2>6, <2>7, <2>8
<1> QED BY ONLY <1>7, <1>10, <1>11

LEMMA DeliveredStreams ==
  ASSUME LInv, clock < MaxEvents
  PROVE  Streaming(Delivered[NumSubs], NumSubs)
<1> DEFINE Bad == {n \in 0 .. NumSubs : ~Streaming(Delivered[n], n)}
<1>0. AInv /\ WInv /\ RInv /\ clock \in Nat
  BY Numbers DEF LInv, AInv, WInv, RInv, Types
<1>1. \A n \in 0 .. NumSubs :
        Delivered[n] = IF n = 0 THEN [q |-> Queues, s |-> subs]
                       ELSE DeliverTo(Delivered[n - 1], n - 1)
  BY DeliveredSteps DEF Course
<1>2. SUFFICES ASSUME Bad # {} PROVE FALSE
  BY Numbers
<1>3. PICK n \in Bad : \A k \in Bad : n <= k
  <2>1. Bad \in SUBSET Nat
    OBVIOUS
  <2> QED BY <1>2, <2>1, LeastExists
<1>4. n \in 0 .. NumSubs /\ ~Streaming(Delivered[n], n)
  BY <1>3
<1>5. CASE n = 0
  <2>1. Delivered[n] = [q |-> Queues, s |-> subs]
    BY <1>1, <1>4, <1>5
  <2>2. HeardTo(n) = Heard
    <3>1. \A j \in SubSlots : ~(j < 0)
      BY Numbers DEF SubSlots
    <3> QED BY <1>5, <3>1 DEF Heard, HeardTo
  <2>3. Queues.ring = ring /\ Queues.mem = mem
    BY DEF Queues
  <2>4. Whole(ring, mem) /\ Streams /\ Unique(subs)
    BY DEF LInv, AInv, WInv
  <2>5. Streaming([q |-> Queues, s |-> subs], n)
    BY ONLY <2>2, <2>3, <2>4 DEF Streaming, Streams, QStreams
  <2> QED BY ONLY <1>4, <2>1, <2>5
<1>6. CASE n # 0
  <2>1. n - 1 \in 0 .. NumSubs /\ n - 1 \in SubSlots /\ n - 1 < n /\ (n - 1) + 1 = n
    BY <1>4, <1>6, Numbers DEF SubSlots
  <2>2. Streaming(Delivered[n - 1], n - 1)
    BY <1>3, <2>1
  <2>3. Delivering(Delivered[n - 1], n - 1)
    BY <1>0, <2>1, DeliveredGood
  <2>4. Streaming(DeliverTo(Delivered[n - 1], n - 1), (n - 1) + 1)
    BY ONLY <1>0, clock < MaxEvents, <2>1, <2>2, <2>3, DeliverToStreams
  <2>5. Delivered[n] = DeliverTo(Delivered[n - 1], n - 1)
    BY <1>1, <1>4, <1>6
  <2> QED BY ONLY <1>4, <2>1, <2>4, <2>5
<1> QED BY <1>5, <1>6

\* An action that ends with a posting.
LEMMA PostedStreams ==
  ASSUME NEW Q, Publish(Q), QStreams(Q, got', subs', Heard') PROVE Streams'
<1>1. ring' = Q.ring /\ mem' = Q.mem
  BY DEF Publish
<1> QED BY ONLY <1>1, QStreams(Q, got', subs', Heard') DEF QStreams, Streams

LEMMA RecordStreams ==
  ASSUME LInv, Record PROVE Streams' /\ Unique(subs')
<1> DEFINE D == Delivered[NumSubs]
<1>1. clock < MaxEvents /\ Publish(D.q) /\ subs' = D.s /\ got' = got /\ clock' = clock + 1
  BY DEF Record
<1>2. Streaming(D, NumSubs)
  BY <1>1, DeliveredStreams
<1> HIDE DEF D
<1>3. Heard' = HeardTo(NumSubs)
  <2>1. \A j \in SubSlots : j < NumSubs
    BY Numbers DEF SubSlots
  <2> QED BY ONLY <1>1, <2>1 DEF Heard, HeardTo
<1>4. QStreams(D.q, got', subs', Heard') /\ Unique(subs')
  BY ONLY <1>1, <1>2, <1>3 DEF Streaming
<1> QED BY ONLY <1>1, <1>4, PostedStreams

----------------------------------------------------------------------------
(* Streams through a drain.                                                *)

LEMMA HeardCounts == ASSUME AInv PROVE Heard \in Counts /\ clock \in Nat /\ \A i \in SubSlots : Heard[i] = clock
<1>1. clock \in Nat
  BY Numbers DEF AInv, WInv, RInv, Types
<1> QED BY <1>1 DEF Heard, Counts

\* The head of the submissions is taken: no other asks for the stream it asks for.
LEMMA TakenWaiting ==
  ASSUME NEW q, NEW sq \in Seq(Submissions), sq # <<>>, NEW S, NEW r, Waiting(q, sq, S, r)
  PROVE  /\ Waiting(q, Tail(sq), S, r)
         /\ Head(sq).op = "EVENT_SUB" =>
              /\ Idle(q, S, r, Head(sq).ud)
              /\ \A k \in 1 .. Len(Tail(sq)) : Tail(sq)[k].op = "EVENT_SUB" => Tail(sq)[k].ud # Head(sq).ud
<1> DEFINE t == Tail(sq)
           l == Len(sq)
<1>1. /\ l \in Nat /\ l >= 1 /\ Len(t) = l - 1 /\ Head(sq) = sq[1]
      /\ \A k \in 1 .. Len(t) : t[k] = sq[k + 1]
  OBVIOUS
<1>2. \A k \in 1 .. Len(t) : k \in Nat /\ k + 1 \in 1 .. l /\ k + 1 # 1
  BY <1>1
<1>3. 1 \in 1 .. l
  BY <1>1
<1>4. \A i \in 1 .. l : sq[i].op = "EVENT_SUB" =>
        /\ Idle(q, S, r, sq[i].ud)
        /\ \A k \in 1 .. l : sq[k].op = "EVENT_SUB" /\ sq[k].ud = sq[i].ud => k = i
  BY DEF Waiting
<1> HIDE DEF t, l
<1>5. ASSUME NEW i \in 1 .. Len(t), t[i].op = "EVENT_SUB"
      PROVE  /\ Idle(q, S, r, t[i].ud)
             /\ \A k \in 1 .. Len(t) : t[k].op = "EVENT_SUB" /\ t[k].ud = t[i].ud => k = i
  <2>1. t[i] = sq[i + 1] /\ i + 1 \in 1 .. l
    BY ONLY <1>1, <1>2, <1>5
  <2>2. ASSUME NEW k \in 1 .. Len(t), t[k].op = "EVENT_SUB", t[k].ud = t[i].ud PROVE k = i
    <3>1. t[k] = sq[k + 1] /\ k + 1 \in 1 .. l
      BY ONLY <1>1, <1>2, <2>2
    <3>2. k + 1 = i + 1
      BY ONLY <1>4, <1>5, <2>1, <2>2, <3>1
    <3> QED BY ONLY <1>2, <1>5, <2>2, <3>2
  <2> QED BY ONLY <1>4, <1>5, <2>1, <2>2
<1>6. ASSUME Head(sq).op = "EVENT_SUB"
      PROVE  /\ Idle(q, S, r, Head(sq).ud)
             /\ \A k \in 1 .. Len(t) : t[k].op = "EVENT_SUB" => t[k].ud # Head(sq).ud
  BY ONLY <1>1, <1>2, <1>3, <1>4, <1>6
<1>7. Waiting(q, t, S, r)
  BY ONLY <1>5 DEF Waiting
<1> QED BY ONLY <1>6, <1>7 DEF t

LEMMA ConsumedStreams ==
  ASSUME LInv, drain # None, mem[drain].sq # <<>>
  PROVE  /\ QStreams(Consumed, got, subs, Heard)
         /\ Entry.op = "EVENT_SUB" /\ Consumed.ring[drain].in_use /\ Consumed.ring[drain].clean =>
              /\ Idle(Seen(Consumed.ring[drain], Consumed.mem[drain]), subs, drain, Entry.ud)
              /\ \A k \in 1 .. Len(Consumed.mem[drain].sq) :
                   Consumed.mem[drain].sq[k].op = "EVENT_SUB" => Consumed.mem[drain].sq[k].ud # Entry.ud
<1> DEFINE n == Consumed.mem[drain]
           x == ring[drain]
           m == mem[drain]
<1>1. /\ drain \in RingIds /\ Consumed.ring = ring
      /\ \A s \in RingIds : s # drain => Consumed.mem[s] = mem[s]
      /\ m.sq \in Seq(Submissions)
      /\ n.sq = Tail(m.sq) /\ n.head = m.head /\ n.buf = m.buf
  BY ConsumedCells DEF LInv
<1>2. \A s \in RingIds : StreamsAt(ring[s], mem[s], got[s], subs, Heard, s)
  BY DEF LInv, Streams
<1>3. m.sq # <<>> /\ Entry = Head(m.sq)
  BY DEF Entry
<1> HIDE DEF n, x, m
<1>4. Seen(x, n) = Seen(x, m)
  BY ONLY <1>1 DEF Seen
<1>5. StreamsAt(x, m, got[drain], subs, Heard, drain)
  BY ONLY <1>1, <1>2 DEF x, m
<1>6. ASSUME x.in_use, x.clean
      PROVE  /\ \A u \in Cookies : Told(Seen(x, n), got[drain][u], u)
             /\ \A i \in SubSlots : subs[i] # None /\ subs[i].ring = drain =>
                  Current(Seen(x, n), got[drain][subs[i].ud], subs[i], Heard[i])
             /\ Waiting(Seen(x, n), n.sq, subs, drain)
             /\ Entry.op = "EVENT_SUB" =>
                  /\ Idle(Seen(x, n), subs, drain, Entry.ud)
                  /\ \A k \in 1 .. Len(n.sq) : n.sq[k].op = "EVENT_SUB" => n.sq[k].ud # Entry.ud
  <2>1. /\ \A u \in Cookies : Told(Seen(x, n), got[drain][u], u)
        /\ \A i \in SubSlots : subs[i] # None /\ subs[i].ring = drain =>
             Current(Seen(x, n), got[drain][subs[i].ud], subs[i], Heard[i])
        /\ Waiting(Seen(x, n), m.sq, subs, drain)
    BY ONLY <1>4, <1>5, <1>6 DEF StreamsAt
  <2>2. /\ Waiting(Seen(x, n), Tail(m.sq), subs, drain)
        /\ Head(m.sq).op = "EVENT_SUB" =>
             /\ Idle(Seen(x, n), subs, drain, Head(m.sq).ud)
             /\ \A k \in 1 .. Len(Tail(m.sq)) : Tail(m.sq)[k].op = "EVENT_SUB" => Tail(m.sq)[k].ud # Head(m.sq).ud
    BY ONLY <1>1, <1>3, <2>1, TakenWaiting
  <2> QED BY ONLY <1>1, <1>3, <2>1, <2>2
<1>7. StreamsAt(x, n, got[drain], subs, Heard, drain)
  BY ONLY <1>6 DEF StreamsAt
<1>8. \A s \in RingIds : StreamsAt(Consumed.ring[s], Consumed.mem[s], got[s], subs, Heard, s)
  BY ONLY <1>1, <1>2, <1>7 DEF x, n
<1>9. QStreams(Consumed, got, subs, Heard)
  BY ONLY <1>8 DEF QStreams
<1> QED BY ONLY <1>1, <1>6, <1>9 DEF x, n

\* A posting of no event, and nothing else.
LEMMA AnswerStreams ==
  ASSUME LInv, NEW Q, QStreams(Q, got, subs, Heard), Publish(Q), subs' = subs, got' = got, clock' = clock
  PROVE  Streams' /\ Unique(subs')
<1>1. Heard' = Heard
  BY DEF Heard
<1>2. QStreams(Q, got', subs', Heard')
  BY ONLY <1>1, QStreams(Q, got, subs, Heard), subs' = subs, got' = got
<1>3. Unique(subs)
  BY DEF LInv
<1> QED BY ONLY <1>2, <1>3, Publish(Q), subs' = subs, PostedStreams

LEMMA CompleteIrqStreams ==
  ASSUME LInv, CompleteIrq PROVE Streams' /\ Unique(subs')
<1>0. AInv /\ RInv /\ routing \in RoutingTables /\ Whole(ring, mem) /\ Streams
  BY DEF LInv, AInv, WInv, RInv, Types, RoutingTables
<1>1. PICK i \in Slots :
        /\ routing[i] # None
        /\ Publish(CqPost(Queues, routing[i].ring, Done(routing[i])))
        /\ subs' = subs /\ got' = got /\ clock' = clock
  BY DEF CompleteIrq, ghostVars
<1> DEFINE t == routing[i]
           e == Done(t)
           N == CqPost(Queues, t.ring, e)
<1>2. t.ring \in RingIds /\ e \in Completions /\ e.kind # "event"
  <2>1. t \in Routings
    BY ONLY <1>0, <1>1 DEF RoutingTables
  <2> QED BY ONLY <2>1, Numbers DEF Routings, Done, Completions
<1>3. Queues \in Postings /\ Queues.ring = ring /\ Queues.mem = mem
  <2>1. Queues \in Postings
    BY <1>0, QueuesGood
  <2> QED BY ONLY <2>1 DEF Queues
<1> HIDE DEF e
<1>4. QStreams(Queues, got, subs, Heard) /\ Whole(Queues.ring, Queues.mem)
  BY ONLY <1>0, <1>3 DEF Streams, QStreams
<1>5. QStreams(N, got, subs, Heard)
  BY ONLY <1>0, <1>2, <1>3, <1>4, HeardCounts, PostNoEvent
<1>6. Publish(N)
  BY ONLY <1>1 DEF e
<1> HIDE DEF N
<1> QED BY ONLY LInv, <1>1, <1>5, <1>6, AnswerStreams

\* A subscription x is armed in slot i of S, under a cookie nothing is queued for.
Arms(Q, r, G, H, S, T, K, i, x) ==
  /\ r \in RingIds /\ S \in SubTables /\ i \in SubSlots /\ S[i] = None
  /\ x.ring = r /\ x.ud \in Cookies /\ x.dropped = 0 /\ T[i] = x
  /\ \A j \in SubSlots : j # i => T[j] = S[j]
  /\ K[i] \in Nat /\ H[r][x.ud] = K[i] /\ \A w \in Cookies : w # x.ud => H[r][w] = G[r][w]
  /\ \A s \in RingIds : s # r => H[s] = G[s]
  /\ \A j \in SubSlots : ~Uses(S[j], r, x.ud)
  /\ Unique(S) /\ QStreams(Q, G, S, K)
  /\ Q.ring[r].in_use /\ Q.ring[r].clean =>
       /\ Idle(Seen(Q.ring[r], Q.mem[r]), S, r, x.ud)
       /\ \A k \in 1 .. Len(Q.mem[r].sq) : Q.mem[r].sq[k].op = "EVENT_SUB" => Q.mem[r].sq[k].ud # x.ud

LEMMA ArmStreams ==
  ASSUME NEW Q, NEW r, NEW G, NEW H, NEW S, NEW T, NEW K, NEW i, NEW x, Arms(Q, r, G, H, S, T, K, i, x)
  PROVE  QStreams(Q, H, T, K) /\ Unique(T)
<1> USE DEF Arms
<1> DEFINE u == x.ud
<1>1. ASSUME NEW j \in SubSlots, NEW s, NEW w, Uses(T[j], s, w), s # r \/ w # u PROVE j # i /\ Uses(S[j], s, w)
  BY <1>1 DEF Uses
<1>2. ASSUME NEW s \in RingIds, s # r PROVE StreamsAt(Q.ring[s], Q.mem[s], H[s], T, K, s)
  <2>1. StreamsAt(Q.ring[s], Q.mem[s], H[s], S, K, s)
    BY <1>2 DEF QStreams
  <2>2. \A j \in SubSlots : T[j] # None /\ T[j].ring = s => T[j] = S[j] /\ K[j] = K[j]
    BY <1>2
  <2> QED BY ONLY <2>1, <2>2, FewerSubs
<1>3. ASSUME Q.ring[r].in_use, Q.ring[r].clean
      PROVE  /\ \A w \in Cookies : Told(Seen(Q.ring[r], Q.mem[r]), H[r][w], w)
             /\ \A j \in SubSlots : T[j] # None /\ T[j].ring = r =>
                  Current(Seen(Q.ring[r], Q.mem[r]), H[r][T[j].ud], T[j], K[j])
             /\ Waiting(Seen(Q.ring[r], Q.mem[r]), Q.mem[r].sq, T, r)
  <2> DEFINE q  == Seen(Q.ring[r], Q.mem[r])
             sq == Q.mem[r].sq
  <2>1. /\ \A w \in Cookies : Told(q, G[r][w], w)
        /\ \A j \in SubSlots : S[j] # None /\ S[j].ring = r => Current(q, G[r][S[j].ud], S[j], K[j])
        /\ Waiting(q, sq, S, r)
    BY <1>3 DEF QStreams, StreamsAt
  <2>2. /\ EventsOf(q, u) = {}
        /\ \A k \in 1 .. Len(sq) : sq[k].op = "EVENT_SUB" => sq[k].ud # u
    BY <1>3 DEF Idle
  <2> HIDE DEF q, sq
  <2>3. ASSUME NEW w \in Cookies PROVE Told(q, H[r][w], w)
    <3>1. CASE w = u
      BY ONLY <2>2, <3>1 DEF Told
    <3>2. CASE w # u
      <4>1. H[r][w] = G[r][w]
        BY <2>3, <3>2
      <4> QED BY ONLY <2>1, <2>3, <4>1
    <3> QED BY ONLY <3>1, <3>2
  <2>4. ASSUME NEW j \in SubSlots, T[j] # None, T[j].ring = r PROVE Current(q, H[r][T[j].ud], T[j], K[j])
    <3>1. CASE j = i
      <4>1. T[j] = x /\ T[j].dropped = 0 /\ H[r][T[j].ud] = K[j] /\ K[j] \in Nat /\ T[j].ud = u
        BY <3>1
      <4>2. Prior(q, K[j], u, Len(q) + 1, K[j])
        BY ONLY <2>2 DEF Prior
      <4>3. K[j] \in 0 .. K[j] /\ T[j].dropped = K[j] - K[j]
        BY ONLY <4>1
      <4> QED BY ONLY <4>1, <4>2, <4>3 DEF Current
    <3>2. CASE j # i
      <4>1. T[j] = S[j]
        BY <2>4, <3>2
      <4>2. S[j].ud \in Cookies
        BY <2>4, <4>1 DEF SubTables, SubRecords
      <4>3. S[j].ud # u
        BY <2>4, <4>1 DEF Uses
      <4>4. H[r][S[j].ud] = G[r][S[j].ud]
        BY <4>2, <4>3
      <4> QED BY ONLY <2>1, <2>4, <4>1, <4>4
    <3> QED BY ONLY <3>1, <3>2
  <2>5. ASSUME NEW w, w # u, Idle(q, S, r, w) PROVE Idle(q, T, r, w)
    BY ONLY <1>1, <2>5 DEF Idle
  <2>6. Waiting(q, sq, T, r)
    BY ONLY <2>1, <2>2, <2>5 DEF Waiting
  <2> QED BY ONLY <2>3, <2>4, <2>6 DEF q, sq
<1>4. StreamsAt(Q.ring[r], Q.mem[r], H[r], T, K, r)
  BY ONLY <1>3 DEF StreamsAt
<1>5. QStreams(Q, H, T, K)
  BY ONLY <1>2, <1>4 DEF QStreams
<1>6. Unique(T)
  <2>1. ASSUME NEW j \in SubSlots, NEW k \in SubSlots,
               T[j] # None, T[k] # None, T[j].ring = T[k].ring, T[j].ud = T[k].ud
        PROVE  j = k
    <3>1. CASE j # i /\ k # i
      BY <2>1, <3>1 DEF Unique
    <3>2. ASSUME NEW a \in SubSlots, a # i, T[a] # None, T[a].ring = r, T[a].ud = u PROVE FALSE
      BY <3>2 DEF Uses
    <3>3. T[i].ring = r /\ T[i].ud = u
      OBVIOUS
    <3> QED BY ONLY <2>1, <3>1, <3>2, <3>3
  <2> QED BY ONLY <2>1 DEF Unique
<1> QED BY ONLY <1>5, <1>6

LEMMA DrainStreams ==
  ASSUME LInv, DrainEntry PROVE Streams' /\ Unique(subs')
<1>0. drain # None /\ mem[drain].sq # <<>> /\ (PostIo \/ PostEventSub \/ PostCancel)
  BY DEF DrainEntry
<1>1. /\ AInv /\ WInv /\ RInv /\ Unique(subs) /\ subs \in SubTables
      /\ got \in [RingIds -> [Cookies -> 0 .. MaxEvents]]
      /\ drain \in RingIds /\ ring[drain].reg \in 0 .. MaxRegs
  BY <1>0 DEF LInv, AInv, WInv, RInv, Types, Rest, RingTables, RingRecords
<1>2. Consumed \in Postings /\ Entry \in Submissions
  BY <1>0, <1>1, ConsumedGood
<1>3. Whole(Consumed.ring, Consumed.mem)
  BY <1>0, <1>1, ConsumedWhole
<1>4. /\ QStreams(Consumed, got, subs, Heard)
      /\ Entry.op = "EVENT_SUB" /\ Consumed.ring[drain].in_use /\ Consumed.ring[drain].clean =>
           /\ Idle(Seen(Consumed.ring[drain], Consumed.mem[drain]), subs, drain, Entry.ud)
           /\ \A k \in 1 .. Len(Consumed.mem[drain].sq) :
                Consumed.mem[drain].sq[k].op = "EVENT_SUB" => Consumed.mem[drain].sq[k].ud # Entry.ud
  BY <1>0, ConsumedStreams
<1>5. Target.ud \in Cookies /\ Target.reg \in 0 .. MaxRegs
  BY ONLY <1>1, <1>2 DEF Target, Submissions
<1>6. /\ Done(Target) \in Completions /\ Done(Target).kind # "event"
      /\ SubErr(Target) \in Completions /\ SubErr(Target).kind # "event"
  <2>1. Done(Target) \in Completions /\ Done(Target).kind # "event"
    BY ONLY <1>5, Numbers DEF Done, Completions
  <2> QED BY ONLY <2>1 DEF SubErr, Completions
<1>7. ASSUME NEW e \in Completions, e.kind # "event" PROVE QStreams(CqPost(Consumed, drain, e), got, subs, Heard)
  BY ONLY <1>1, <1>2, <1>3, <1>4, <1>7, HeardCounts, PostNoEvent
<1>8. CASE PostIo
  <2>1. subs' = subs /\ got' = got /\ clock' = clock
    BY <1>8 DEF PostIo, ghostVars
  <2>2. Publish(Consumed) \/ Publish(CqPost(Consumed, drain, Done(Target)))
    BY <1>8 DEF PostIo
  <2>3. QStreams(CqPost(Consumed, drain, Done(Target)), got, subs, Heard)
    BY ONLY <1>6, <1>7
  <2> QED BY ONLY LInv, <1>4, <2>1, <2>2, <2>3, AnswerStreams
<1>9. CASE PostEventSub /\ ~(ring[drain].owner \in Listeners /\ SubsAt(drain, Entry.ud) = {} /\ FreeSubs # {})
  <2>1. subs' = subs /\ got' = got /\ clock' = clock /\ Publish(CqPost(Consumed, drain, SubErr(Target)))
    BY <1>9 DEF PostEventSub
  <2>3. QStreams(CqPost(Consumed, drain, SubErr(Target)), got, subs, Heard)
    BY ONLY <1>6, <1>7
  <2> QED BY ONLY LInv, <2>1, <2>3, AnswerStreams
<1>10. CASE PostEventSub /\ (ring[drain].owner \in Listeners /\ SubsAt(drain, Entry.ud) = {} /\ FreeSubs # {})
  <2> DEFINE x == [ring |-> drain, ud |-> Entry.ud, dropped |-> 0, reg |-> ring[drain].reg]
  <2>1. PICK i \in FreeSubs : subs' = [subs EXCEPT ![i] = x]
    BY <1>10 DEF PostEventSub
  <2>2. /\ got' = [got EXCEPT ![drain][Entry.ud] = clock] /\ Publish(Consumed) /\ clock' = clock
        /\ Entry.op = "EVENT_SUB"
    BY <1>10 DEF PostEventSub
  <2>3. x.ring = drain /\ x.ud = Entry.ud /\ x.ud \in Cookies /\ x.dropped = 0
    BY ONLY <1>2 DEF Submissions
  <2> HIDE DEF x
  <2>4. i \in SubSlots /\ subs[i] = None
    BY DEF FreeSubs
  <2>5. subs'[i] = x /\ \A j \in SubSlots : j # i => subs'[j] = subs[j]
    BY ONLY <1>1, <2>1, <2>4 DEF SubTables
  <2>6. Heard[i] = clock /\ Heard[i] \in Nat /\ Heard' = Heard
    BY <1>1, <2>2, <2>4, HeardCounts DEF Heard
  <2>7. /\ got'[drain][x.ud] = Heard[i] /\ \A w \in Cookies : w # x.ud => got'[drain][w] = got[drain][w]
        /\ \A s \in RingIds : s # drain => got'[s] = got[s]
    BY ONLY <1>1, <2>2, <2>3, <2>6
  <2>8. \A j \in SubSlots : ~Uses(subs[j], drain, x.ud)
    BY <1>10, <2>3 DEF SubsAt, Uses
  <2>9. /\ Consumed.ring[drain].in_use /\ Consumed.ring[drain].clean =>
           /\ Idle(Seen(Consumed.ring[drain], Consumed.mem[drain]), subs, drain, x.ud)
           /\ \A k \in 1 .. Len(Consumed.mem[drain].sq) :
                Consumed.mem[drain].sq[k].op = "EVENT_SUB" => Consumed.mem[drain].sq[k].ud # x.ud
    BY ONLY <1>4, <2>2, <2>3
  <2>10. QStreams(Consumed, got', subs', Heard) /\ Unique(subs')
    <3>1. Arms(Consumed, drain, got, got', subs, subs', Heard, i, x)
      BY ONLY <1>1, <1>4, <2>3, <2>4, <2>5, <2>6, <2>7, <2>8, <2>9 DEF Arms
    <3> QED BY ONLY <3>1, ArmStreams
  <2>11. QStreams(Consumed, got', subs', Heard')
    BY ONLY <2>6, <2>10
  <2> QED BY ONLY <2>2, <2>10, <2>11, PostedStreams
<1>11. CASE PostCancel
  <2>1. /\ got' = got /\ clock' = clock /\ Publish(Consumed)
        /\ \A j \in SubSlots : subs'[j] = None \/ subs'[j] = subs[j]
    BY <1>11 DEF PostCancel, ghostVars
  <2>2. Heard' = Heard
    BY <2>1 DEF Heard
  <2>3. ASSUME NEW s \in RingIds PROVE StreamsAt(Consumed.ring[s], Consumed.mem[s], got[s], subs', Heard, s)
    <3>1. StreamsAt(Consumed.ring[s], Consumed.mem[s], got[s], subs, Heard, s)
      BY ONLY <1>4, <2>3 DEF QStreams
    <3>2. \A j \in SubSlots : subs'[j] # None /\ subs'[j].ring = s => subs'[j] = subs[j] /\ Heard[j] = Heard[j]
      BY ONLY <2>1
    <3> QED BY ONLY <3>1, <3>2, FewerSubs
  <2>4. QStreams(Consumed, got', subs', Heard')
    BY ONLY <2>1, <2>2, <2>3 DEF QStreams
  <2>5. Unique(subs')
    BY ONLY <1>1, <2>1 DEF Unique
  <2> QED BY ONLY <2>1, <2>4, <2>5, PostedStreams
<1> QED BY ONLY <1>0, <1>8, <1>9, <1>10, <1>11

----------------------------------------------------------------------------
(* Streams through what a process does in its own memory.                  *)

\* What Rings calls the unreaped entries.
LEMMA UnreapedSeen ==
  ASSUME NEW r \in RingIds PROVE Unreaped(r) = Seen(ring[r], mem[r])
BY DEF Unreaped, Seen, UnreapedCount, Queues

\* A submission, for a stream that is idle if it asks for one.
LEMMA AskedWaiting ==
  ASSUME NEW q, NEW sq \in Seq(Submissions), NEW S, NEW r, Waiting(q, sq, S, r), NEW s \in Submissions,
         s.op = "EVENT_SUB" => Idle(q, S, r, s.ud) /\ \A k \in 1 .. Len(sq) : sq[k].ud # s.ud
  PROVE  Waiting(q, Append(sq, s), S, r)
<1> DEFINE t == Append(sq, s)
           l == Len(sq)
<1>1. /\ l \in Nat /\ Len(t) = l + 1 /\ t[l + 1] = s
      /\ \A k \in 1 .. l : t[k] = sq[k]
  OBVIOUS
<1>2. \A i \in 1 .. l : sq[i].op = "EVENT_SUB" =>
        /\ Idle(q, S, r, sq[i].ud)
        /\ \A k \in 1 .. l : sq[k].op = "EVENT_SUB" /\ sq[k].ud = sq[i].ud => k = i
  BY DEF Waiting
<1>3. s.op = "EVENT_SUB" => Idle(q, S, r, s.ud) /\ \A k \in 1 .. l : sq[k].ud # s.ud
  OBVIOUS
<1> HIDE DEF t, l
<1>4. \A k \in 1 .. Len(t) : (k \in 1 .. l /\ t[k] = sq[k]) \/ (k = l + 1 /\ t[k] = s)
  BY ONLY <1>1
<1>5. \A i \in 1 .. Len(t) : t[i].op = "EVENT_SUB" =>
        /\ Idle(q, S, r, t[i].ud)
        /\ \A k \in 1 .. Len(t) : t[k].op = "EVENT_SUB" /\ t[k].ud = t[i].ud => k = i
  BY ONLY <1>2, <1>3, <1>4
<1>6. Waiting(q, t, S, r)
  BY ONLY <1>5 DEF Waiting
<1> QED BY ONLY <1>6 DEF t

LEMMA ProduceStreams ==
  ASSUME LInv, NEW p \in Procs, NEW r \in RingIds, Produce(p, r) PROVE Streams' /\ Unique(subs')
<1>1. PICK s \in Submissions :
        /\ s.op # "CANCEL" => CookieFree(r, s.ud)
        /\ mem' = [mem EXCEPT ![r].sq = Append(@, s)]
  BY DEF Produce
<1>2. ring' = ring /\ subs' = subs /\ got' = got /\ clock' = clock
  BY DEF Produce, kernelVars
<1>3. mem \in Memories /\ mem[r] \in Memory /\ mem[r].sq \in Seq(Submissions) /\ Streams /\ Unique(subs)
  BY DEF LInv, AInv, WInv, RInv, Types, Memories, Memory
<1>4. /\ \A q \in RingIds : q # r => mem'[q] = mem[q]
      /\ mem'[r].sq = Append(mem[r].sq, s) /\ mem'[r].head = mem[r].head /\ mem'[r].buf = mem[r].buf
  BY ONLY <1>1, <1>3, r \in RingIds DEF Memories, Memory
<1>5. Heard' = Heard
  BY <1>2 DEF Heard
<1> DEFINE x == ring[r]
           m == mem[r]
           n == mem'[r]
           q == Seen(x, m)
<1>6. Seen(x, n) = q
  BY ONLY <1>4 DEF Seen
<1>7. s.op = "EVENT_SUB" => Idle(q, subs, r, s.ud) /\ \A k \in 1 .. Len(m.sq) : m.sq[k].ud # s.ud
  <2>1. ASSUME CookieFree(r, s.ud)
        PROVE  Idle(q, subs, r, s.ud) /\ \A k \in 1 .. Len(m.sq) : m.sq[k].ud # s.ud
    <3>1. Unreaped(r) = q
      BY ONLY r \in RingIds, UnreapedSeen
    <3> HIDE DEF q
    <3> QED BY ONLY <2>1, <3>1 DEF CookieFree, Idle, EventsOf, Uses
  <2> HIDE DEF q, m
  <2> QED BY ONLY <1>1, <2>1
<1>8. StreamsAt(x, m, got[r], subs, Heard, r)
  BY ONLY <1>3, r \in RingIds DEF Streams
<1>9. m.sq \in Seq(Submissions) /\ n.sq = Append(m.sq, s)
  BY ONLY <1>3, <1>4
<1> HIDE DEF x, m, n, q
<1>10. ASSUME x.in_use, x.clean PROVE Waiting(q, n.sq, subs, r)
  <2>1. Waiting(q, m.sq, subs, r)
    BY ONLY <1>8, <1>10 DEF StreamsAt, q
  <2>2. Waiting(q, Append(m.sq, s), subs, r)
    BY ONLY <1>7, <1>9, <2>1, s \in Submissions, AskedWaiting
  <2> QED BY ONLY <1>9, <2>2
<1>11. StreamsAt(x, n, got[r], subs, Heard, r)
  BY ONLY <1>6, <1>8, <1>10 DEF StreamsAt, q
<1>12. \A z \in RingIds : StreamsAt(ring[z], mem'[z], got[z], subs, Heard, z)
  BY ONLY <1>3, <1>4, <1>11 DEF Streams, x, n
<1> QED BY ONLY <1>2, <1>3, <1>5, <1>12 DEF Streams

LEMMA ReapStreams ==
  ASSUME LInv, NEW p \in Procs, NEW r \in RingIds, Reap(p, r) PROVE Streams' /\ Unique(subs')
<1> DEFINE x == ring[r]
           m == mem[r]
           n == mem'[r]
           e == m.buf[m.head % Entries]
           v == IF UnreapedCount(Queues, r) > Entries THEN e ELSE None
           b == [m.buf EXCEPT ![m.head % Entries] = v]
           q == Seen(x, m)
<1>1. /\ m.head # x.cq_tail
      /\ mem' = [mem EXCEPT ![r] = [sq |-> m.sq, head |-> NextIndex(m.head), buf |-> b]]
      /\ got' = [got EXCEPT ![r][e.ud] = IF e.kind = "event" THEN e.n ELSE @]
  BY DEF Reap
<1>2. ring' = ring /\ subs' = subs /\ clock' = clock
  BY DEF Reap, kernelVars
<1>3. /\ mem \in Memories /\ Streams /\ Unique(subs) /\ BooksAt(x, m, routing, await[r], r)
      /\ m.head \in Indices /\ m.buf \in Buffers /\ x.cq_tail \in Indices
      /\ Filled(x.cq_tail, m.head, m.buf) /\ got \in [RingIds -> [Cookies -> 0 .. MaxEvents]]
      /\ subs \in SubTables
  BY DEF LInv, AInv, Books, WInv, RInv, Types, Rest, Memories, Memory, Buffers, RingTables, RingRecords, Whole
<1>4. Heard' = Heard
  BY <1>2 DEF Heard
<1>5. (\A z \in RingIds : z # r => mem'[z] = mem[z]) /\ n.sq = m.sq /\ n.head = NextIndex(m.head) /\ n.buf = b
  <2> HIDE DEF b, m
  <2>1. /\ \A z \in RingIds : z # r => mem'[z] = mem[z]
        /\ mem'[r] = [sq |-> m.sq, head |-> NextIndex(m.head), buf |-> b]
    BY ONLY <1>1, <1>3, r \in RingIds DEF Memories
  <2> QED BY ONLY <2>1
<1>6. /\ e \in Completions /\ Filled(x.cq_tail, NextIndex(m.head), b)
  <2>1. (x.cq_tail - m.head) % IndexMod > Entries => v = m.buf[m.head % Entries]
    <3>1. UnreapedCount(Queues, r) = (x.cq_tail - m.head) % IndexMod
      BY DEF UnreapedCount, Queues
    <3> QED BY ONLY <3>1
  <2> HIDE DEF v, x, m
  <2> QED BY ONLY <1>1, <1>3, <2>1, ReapFills
<1> HIDE DEF v
<1>7. /\ \A z \in RingIds : z # r => got'[z] = got[z]
      /\ \A u \in Cookies : got'[r][u] = IF e.kind = "event" /\ e.ud = u THEN e.n ELSE got[r][u]
  <2>1. e.ud \in Cookies
    BY ONLY <1>6 DEF Completions
  <2> HIDE DEF e
  <2> QED BY ONLY <1>1, <1>3, <2>1, r \in RingIds
<1>8. StreamsAt(x, m, got[r], subs, Heard, r)
  BY ONLY <1>3, r \in RingIds DEF Streams
<1> HIDE DEF x, m, n, e
<1>9. ASSUME x.in_use, x.clean
      PROVE  /\ \A u \in Cookies : Told(Seen(x, n), got'[r][u], u)
             /\ \A i \in SubSlots : subs[i] # None /\ subs[i].ring = r =>
                  Current(Seen(x, n), got'[r][subs[i].ud], subs[i], Heard[i])
             /\ Waiting(Seen(x, n), n.sq, subs, r)
  <2>1. (x.cq_tail - m.head) % IndexMod <= Entries
    BY ONLY <1>3, <1>9 DEF BooksAt, Trim
  <2>2. /\ q \in Queued /\ q # <<>> /\ Seen(x, n) = Tail(q) /\ q[1] = e
    <3>1. n.buf = [m.buf EXCEPT ![m.head % Entries] = v] /\ Filled(x.cq_tail, n.head, n.buf) /\ n.head = NextIndex(m.head)
      BY ONLY <1>5, <1>6
    <3>2. x.cq_tail # m.head
      BY ONLY <1>1
    <3>0. Reaps(x, m, n, v)
      BY ONLY <1>3, <2>1, <3>1, <3>2 DEF Reaps
    <3>3. /\ Seen(x, m) \in Queued /\ Seen(x, m) # <<>> /\ Seen(x, n) = Tail(Seen(x, m))
          /\ Seen(x, m)[1] = m.buf[m.head % Entries]
      BY ONLY <3>0, SeenReap
    <3> QED BY ONLY <3>3 DEF e
  <2>3. /\ \A u \in Cookies : Told(q, got[r][u], u)
        /\ \A i \in SubSlots : subs[i] # None /\ subs[i].ring = r =>
             Current(q, got[r][subs[i].ud], subs[i], Heard[i])
        /\ Waiting(q, m.sq, subs, r)
    BY ONLY <1>8, <1>9 DEF StreamsAt
  <2> HIDE DEF q
  <2>4. \A u \in Cookies : got'[r][u] = Took(q[1], got[r][u], u)
    BY ONLY <1>7, <2>2 DEF Took
  <2>5. ASSUME NEW u \in Cookies PROVE Told(Tail(q), got'[r][u], u)
    <3>1. Told(Tail(q), Took(q[1], got[r][u], u), u)
      BY ONLY <2>2, <2>3, <2>5, TailTold
    <3> QED BY ONLY <2>4, <2>5, <3>1
  <2>6. ASSUME NEW i \in SubSlots, subs[i] # None, subs[i].ring = r
        PROVE  Current(Tail(q), got'[r][subs[i].ud], subs[i], Heard[i])
    <3>1. subs[i].ud \in Cookies
      BY ONLY <1>3, <2>6 DEF SubTables, SubRecords
    <3>2. Current(q, got[r][subs[i].ud], subs[i], Heard[i])
      BY ONLY <2>3, <2>6
    <3>3. Current(Tail(q), Took(q[1], got[r][subs[i].ud], subs[i].ud), subs[i], Heard[i])
      BY ONLY <2>2, <3>2, TailCurrent
    <3> QED BY ONLY <2>4, <3>1, <3>3
  <2>7. Waiting(Tail(q), m.sq, subs, r)
    BY ONLY <2>2, <2>3, TailWaiting
  <2> QED BY ONLY <1>5, <2>2, <2>5, <2>6, <2>7
<1>10. StreamsAt(x, n, got'[r], subs, Heard, r)
  BY ONLY <1>9 DEF StreamsAt
<1>11. \A z \in RingIds : StreamsAt(ring[z], mem'[z], got'[z], subs, Heard, z)
  BY ONLY <1>3, <1>5, <1>7, <1>10 DEF Streams, x, n
<1> QED BY ONLY <1>2, <1>3, <1>4, <1>11 DEF Streams

----------------------------------------------------------------------------
(* Streams through system calls, and what a reader sees of them.           *)

\* A ring starts with an empty queue and no subscription.
LEMMA FreshStreams ==
  ASSUME NEW x, x.cq_tail = 0, NEW g, NEW S, NEW K, NEW r, \A j \in SubSlots : S[j] # None => S[j].ring # r
  PROVE  StreamsAt(x, FreshMemory, g, S, K, r)
<1> DEFINE m == FreshMemory
           q == Seen(x, m)
<1>1. (0 - 0) % IndexMod = 0
  <2>1. 0 \in 0 .. IndexMod - 1 /\ 0 - 0 = 0
    BY Numbers
  <2> QED BY <2>1, Numbers, ModSmall
<1>2. m.sq = <<>> /\ m.head = 0
  BY DEF FreshMemory
<1>3. (x.cq_tail - m.head) % IndexMod = 0
  BY ONLY <1>1, <1>2, x.cq_tail = 0
<1>4. Len(q) = 0
  BY ONLY <1>3 DEF Seen
<1> HIDE DEF q
<1>5. \A u : EventsOf(q, u) = {}
  BY ONLY <1>4 DEF EventsOf
<1>6. \A u : Told(q, g[u], u)
  BY ONLY <1>5 DEF Told
<1>7. Waiting(q, m.sq, S, r)
  BY ONLY <1>2 DEF Waiting
<1> QED BY <1>6, <1>7 DEF StreamsAt, q

LEMMA SystemCallStreams ==
  ASSUME LInv, NEW p \in Procs, SystemCall(p) PROVE Streams' /\ Unique(subs')
<1>1. /\ ring \in RingTables /\ mem \in Memories /\ subs \in SubTables
      /\ got \in [RingIds -> [Cookies -> 0 .. MaxEvents]] /\ Unique(subs)
      /\ \A i \in SubSlots : OfTenant(ring, subs[i])
  BY DEF LInv, AInv, WInv, RInv, Types, Rest
<1>2. \A s \in RingIds : StreamsAt(ring[s], mem[s], got[s], subs, Heard, s)
  BY DEF LInv, Streams
<1>3. clock' = clock
  BY DEF SystemCall, RingRegister, Exit, Spawn, RingSubmit, RingWait, CapRelease, Release, ghostVars
<1>4. Heard' = Heard
  BY ONLY <1>3 DEF Heard
<1>5. CASE RingRegister(p)
  <2>1. PICK r \in RingIds :
          /\ ~ring[r].in_use
          /\ ring' = [ring EXCEPT ![r] = [EmptyRing EXCEPT !.in_use = TRUE, !.owner = p,
                                                           !.reg = regs + 1]]
          /\ mem' = [mem EXCEPT ![r] = FreshMemory]
          /\ got' = [got EXCEPT ![r] = [u \in Cookies |-> 0]]
    BY <1>5 DEF RingRegister, FreeRings
  <2>2. subs' = subs
    BY <1>5 DEF RingRegister, kernelVars
  <2> DEFINE x == [EmptyRing EXCEPT !.in_use = TRUE, !.owner = p, !.reg = regs + 1]
             g == [u \in Cookies |-> 0]
  <2>3. x.cq_tail = 0
    BY DEF EmptyRing
  <2> HIDE DEF x, g
  <2>4. /\ ring'[r] = x /\ mem'[r] = FreshMemory
        /\ \A s \in RingIds : s # r => ring'[s] = ring[s] /\ mem'[s] = mem[s] /\ got'[s] = got[s]
    BY ONLY <1>1, <2>1 DEF RingTables, Memories, x, g
  <2>5. \A j \in SubSlots : subs[j] # None => subs[j].ring # r
    BY ONLY <1>1, <2>1 DEF OfTenant
  <2>6. StreamsAt(x, FreshMemory, got'[r], subs, Heard, r)
    BY ONLY <2>3, <2>5, FreshStreams
  <2>7. \A s \in RingIds : StreamsAt(ring'[s], mem'[s], got'[s], subs, Heard, s)
    BY ONLY <1>2, <2>4, <2>6
  <2> QED BY ONLY <1>1, <1>4, <2>2, <2>7 DEF Streams
<1>6. ASSUME NEW R, Release(R) PROVE Streams' /\ Unique(subs')
  <2>1. \A r \in RingIds : /\ ring'[r] = IF r \in R THEN EmptyRing ELSE ring[r]
                           /\ r \notin R => mem'[r] = mem[r] /\ got'[r] = got[r]
    BY ONLY <1>6 DEF Release
  <2>2. \A j \in SubSlots : subs'[j] = None \/ subs'[j] = subs[j]
    BY ONLY <1>6 DEF Release, ReleasedSubs
  <2>3. ~EmptyRing.in_use
    BY DEF EmptyRing
  <2>4. ASSUME NEW r \in RingIds PROVE StreamsAt(ring'[r], mem'[r], got'[r], subs', Heard, r)
    <3>1. CASE r \in R
      BY ONLY <2>1, <2>3, <2>4, <3>1 DEF StreamsAt
    <3>2. CASE r \notin R
      <4>1. ring'[r] = ring[r] /\ mem'[r] = mem[r] /\ got'[r] = got[r]
        BY ONLY <2>1, <2>4, <3>2
      <4>2. \A j \in SubSlots : subs'[j] # None /\ subs'[j].ring = r => subs'[j] = subs[j] /\ Heard[j] = Heard[j]
        BY ONLY <2>2
      <4>3. StreamsAt(ring[r], mem[r], got[r], subs, Heard, r)
        BY ONLY <1>2, <2>4
      <4>4. StreamsAt(ring[r], mem[r], got[r], subs', Heard, r)
        BY ONLY <4>2, <4>3, FewerSubs
      <4> QED BY ONLY <4>1, <4>4
    <3> QED BY ONLY <3>1, <3>2
  <2>5. Unique(subs')
    BY ONLY <1>1, <2>2 DEF Unique
  <2> QED BY ONLY <1>4, <2>4, <2>5 DEF Streams
<1>7. CASE Spawn(p)
  <2>1. ring' = ring /\ mem' = mem /\ got' = got /\ subs' = subs
    BY ONLY <1>7 DEF Spawn, kernelVars, ghostVars
  <2> QED BY ONLY <1>1, <1>2, <1>4, <2>1 DEF Streams
<1>8. ASSUME NEW r \in RingIds, RingSubmit(p, r) PROVE Streams' /\ Unique(subs')
  <2>1. ring' = ring /\ mem' = mem /\ got' = got /\ subs' = subs
    BY ONLY <1>8 DEF RingSubmit, ghostVars
  <2> QED BY ONLY <1>1, <1>2, <1>4, <2>1 DEF Streams
<1>9. ASSUME NEW r \in RingIds, RingWait(p, r) PROVE Streams' /\ Unique(subs')
  <2>1. ring' = [ring EXCEPT ![r].waiting = TRUE] /\ mem' = mem /\ got' = got /\ subs' = subs
    BY ONLY <1>9 DEF RingWait, kernelVars, ghostVars
  <2>2. \A s \in RingIds : /\ ring'[s].cq_tail = ring[s].cq_tail
                           /\ ring'[s].in_use = ring[s].in_use /\ ring'[s].clean = ring[s].clean
    BY ONLY <1>1, <2>1 DEF RingTables, RingRecords
  <2>3. ASSUME NEW s \in RingIds PROVE StreamsAt(ring'[s], mem[s], got[s], subs, Heard, s)
    <3> DEFINE x == ring[s]
               y == ring'[s]
               m == mem[s]
    <3>1. /\ y.cq_tail = x.cq_tail /\ y.in_use = x.in_use /\ y.clean = x.clean
          /\ StreamsAt(x, m, got[s], subs, Heard, s)
          /\ m.head = m.head /\ m.buf = m.buf /\ m.sq = m.sq
      BY ONLY <1>2, <2>2, <2>3
    <3> HIDE DEF x, y, m
    <3>2. StreamsAt(y, m, got[s], subs, Heard, s)
      BY ONLY <3>1, SameStreams
    <3> QED BY ONLY <3>2 DEF y, m
  <2> QED BY ONLY <1>1, <1>4, <2>1, <2>3 DEF Streams
<1> QED BY <1>5, <1>6, <1>7, <1>8, <1>9 DEF SystemCall, Exit, CapRelease

LEMMA NextLInv == LInv /\ [Next]_vars => LInv'
<1> SUFFICES ASSUME LInv, [Next]_vars PROVE LInv'
  OBVIOUS
<1>1. AInv'
  BY NextAInv DEF LInv
<1>2. SUFFICES Streams' /\ Unique(subs')
  BY <1>1 DEF LInv
<1>3. CASE UNCHANGED vars \/ DrainEnds
  <2>1. ring' = ring /\ mem' = mem /\ subs' = subs /\ got' = got /\ clock' = clock
    BY <1>3 DEF vars, kernelVars, ghostVars, DrainEnds
  <2>2. Streams /\ Unique(subs)
    BY DEF LInv
  <2>3. Heard' = Heard
    BY ONLY <2>1 DEF Heard
  <2> QED BY ONLY <2>1, <2>2, <2>3 DEF Streams
<1> QED BY <1>3, SystemCallStreams, ProduceStreams, ReapStreams, DrainStreams, CompleteIrqStreams,
           RecordStreams DEF Next, UserStep

LEMMA InitLInv == Init => LInv
<1> SUFFICES ASSUME Init PROVE LInv
  OBVIOUS
<1>1. AInv
  BY InitAInv
<1>2. Streams
  BY DEF Init, Streams, StreamsAt, EmptyRing
<1>3. Unique(subs)
  BY DEF Init, Unique
<1> QED BY ONLY <1>1, <1>2, <1>3 DEF LInv

\* The last event before a place, as StreamsTellLosses finds it.
LEMMA LastBefore ==
  ASSUME NEW r \in RingIds, NEW u, NEW i, NEW v, Prior(Seen(ring[r], mem[r]), got[r][u], u, i, v)
  PROVE  Before(r, u, i) = v
<1> DEFINE q == Unreaped(r)
           E == Stream(r, u)
           P == {j \in E : j < i}
           c == CHOOSE j \in P : \A k \in P : k <= j
<1>1. E \in SUBSET Nat
  BY DEF Stream
<1>2. \/ v = got[r][u] /\ \A j \in E : ~(j < i)
      \/ \E j \in E : j < i /\ v = q[j].n /\ \A k \in E : k < i => k <= j
  <2>1. q = Seen(ring[r], mem[r])
    BY UnreapedSeen
  <2> HIDE DEF q
  <2>2. EventsOf(q, u) = E
    BY DEF EventsOf, Stream, q
  <2>3. Prior(q, got[r][u], u, i, v)
    BY <2>1
  <2> HIDE DEF E
  <2> QED BY ONLY <2>2, <2>3 DEF Prior
<1>3. Before(r, u, i) = IF P = {} THEN got[r][u] ELSE q[c].n
  BY DEF Before
<1> HIDE DEF E, q
<1>4. CASE v = got[r][u] /\ \A j \in E : ~(j < i)
  BY ONLY <1>3, <1>4
<1>5. ASSUME NEW j \in E, j < i, v = q[j].n, \A k \in E : k < i => k <= j PROVE Before(r, u, i) = v
  <2>1. j \in P /\ \A k \in P : k <= j
    BY ONLY <1>5
  <2>2. c \in P /\ \A k \in P : k <= c
    BY ONLY <2>1
  <2> HIDE DEF c
  <2>3. j \in Nat /\ c \in Nat /\ j <= c /\ c <= j
    BY ONLY <1>1, <2>1, <2>2
  <2>4. c = j
    BY ONLY <2>3
  <2> QED BY ONLY <1>3, <1>5, <2>1, <2>4
<1> QED BY ONLY <1>2, <1>4, <1>5

\* However postings, drops, reapings, subscriptions, cancellations and indices that
\* wrap interleave, the events of each stream on a clean ring arrive in order, one
\* carries EVENT_DROPPED exactly when others were lost before it, and what
\* ring_dropped returns is the number missed since the last one queued.
THEOREM StreamsTellTheirLosses == Spec => []StreamsTellLosses
<1>1. LInv => StreamsTellLosses
  <2> SUFFICES ASSUME LInv, NEW r \in RingIds, ring[r].in_use, ring[r].clean
               PROVE  /\ \A u \in Cookies : \A i \in Stream(r, u) :
                           /\ Unreaped(r)[i].n > Before(r, u, i)
                           /\ Unreaped(r)[i].dropped <=> Unreaped(r)[i].n > Before(r, u, i) + 1
                      /\ \A j \in SubSlots : subs[j] # None /\ subs[j].ring = r =>
                           subs[j].dropped = clock - Before(r, subs[j].ud, Len(Unreaped(r)) + 1)
    BY DEF StreamsTellLosses
  <2> DEFINE q == Seen(ring[r], mem[r])
  <2>1. /\ \A u \in Cookies : Told(q, got[r][u], u)
        /\ \A j \in SubSlots : subs[j] # None /\ subs[j].ring = r =>
             Current(q, got[r][subs[j].ud], subs[j], Heard[j])
        /\ \A j \in SubSlots : Heard[j] = clock
    BY DEF LInv, Streams, StreamsAt, Heard
  <2>2. Unreaped(r) = q /\ \A u : Stream(r, u) = EventsOf(q, u)
    BY UnreapedSeen DEF Stream, EventsOf
  <2>3. \A u, i, v : Prior(q, got[r][u], u, i, v) => Before(r, u, i) = v
    BY LastBefore
  <2> HIDE DEF q
  <2>4. ASSUME NEW u \in Cookies, NEW i \in EventsOf(q, u)
        PROVE  q[i].n > Before(r, u, i) /\ (q[i].dropped <=> q[i].n > Before(r, u, i) + 1)
    <3>1. PICK v \in Nat : /\ Prior(q, got[r][u], u, i, v)
                           /\ q[i].n > v /\ (q[i].dropped <=> q[i].n > v + 1)
      BY ONLY <2>1, <2>4 DEF Told
    <3>2. Before(r, u, i) = v
      BY ONLY <2>3, <3>1
    <3> QED BY ONLY <3>1, <3>2
  <2>5. ASSUME NEW j \in SubSlots, subs[j] # None, subs[j].ring = r
        PROVE  subs[j].dropped = clock - Before(r, subs[j].ud, Len(q) + 1)
    <3>1. PICK v : Prior(q, got[r][subs[j].ud], subs[j].ud, Len(q) + 1, v) /\ subs[j].dropped = Heard[j] - v
      BY ONLY <2>1, <2>5 DEF Current
    <3>2. Before(r, subs[j].ud, Len(q) + 1) = v
      BY ONLY <2>3, <3>1
    <3> QED BY ONLY <2>1, <2>5, <3>1, <3>2
  <2> QED BY ONLY <2>2, <2>4, <2>5
<1> QED BY <1>1, InitLInv, NextLInv, PTL DEF Spec

============================================================================
