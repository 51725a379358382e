---------------------------- MODULE DeviceProofs ----------------------------
(***************************************************************************)
(* Theorems about the drivers and the devices they share a queue with: the *)
(* USB keyboard's driver and its controller (Xhci), for every size of the  *)
(* producer rings and of the event ring, and the block driver and its disk *)
(* (BlockIo), for every queue size and every modulus of its indices.       *)
(***************************************************************************)
EXTENDS Xhci, BlockIo, Integers, FiniteSetTheorems, SequenceTheorems, WellFoundedInduction, TLAPS

----------------------------------------------------------------------------
(* The keyboard's invariant: what lies in the rings, how far each side is, *)
(* and which answers are on their way.                                     *)

EventSlots == 0 .. EventCap - 1
DataSlots == 0 .. RingCap - 2

TrbKinds == {"none", "link", "enable", "address", "configure", "setup", "data", "status", "normal"}
KindsOf(r) ==
  IF r = "cmd" THEN {"none", "enable", "address", "configure"}
  ELSE IF r = "ep0" THEN {"none", "setup", "data", "status"} ELSE {"none", "normal"}

Trbs == [kind : TrbKinds, n : Nat, cycle : BOOLEAN]
ProducerRings == [trb : [0 .. RingCap - 1 -> Trbs], enqueue : DataSlots, pcs : BOOLEAN, made : Nat]
ConsumerSides == [deq : 0 .. RingCap - 1, ccs : BOOLEAN, ran : Nat, on : BOOLEAN, bell : BOOLEAN]
EventTrbs == [cycle : BOOLEAN, type : {"none", "cmd", "xfer", "port"}, ring : RingNames \cup {"none"},
              n : Nat, ok : BOOLEAN, num : Nat]

\* A producer ring's memory: this lap's TRBs below the enqueue index, the last
\* lap's above it, the link ready for the lap to come.
RingWritten(R) ==
  LET base == R.made - R.enqueue
  IN /\ R.enqueue <= R.made
     /\ \A i \in DataSlots :
          /\ R.trb[i].kind # "link"
          /\ i < R.enqueue => R.trb[i].cycle = R.pcs /\ R.trb[i].n = base + i + 1
          /\ i >= R.enqueue =>
               /\ R.trb[i].cycle # R.pcs
               /\ IF base = 0 THEN R.trb[i].n = 0
                  ELSE base >= RingCap - 1 /\ R.trb[i].n = base - (RingCap - 1) + i + 1
     /\ R.trb[RingCap - 1].kind = "link" /\ R.trb[RingCap - 1].cycle # R.pcs

\* The controller is in the driver's lap, at or behind its index, or in the lap
\* before, at or ahead of it.
Abreast(R, h) ==
  LET base == R.made - R.enqueue
  IN \/ h.ccs = R.pcs /\ h.deq <= R.enqueue /\ h.ran = base + h.deq
     \/ /\ h.ccs # R.pcs /\ R.enqueue <= h.deq /\ base >= RingCap - 1
        /\ h.ran = base - (RingCap - 1) + h.deq

EventsWritten ==
  LET base == hcev.posted - hcev.enq
  IN /\ hcev.enq <= hcev.posted
     /\ \A i \in EventSlots :
          /\ i < hcev.enq => evring[i].cycle = hcev.pcs /\ evring[i].num = base + i + 1
          /\ i >= hcev.enq =>
               /\ evring[i].cycle # hcev.pcs
               /\ IF base = 0 THEN evring[i].num = 0
                  ELSE base >= EventCap /\ evring[i].num = base - EventCap + i + 1

\* The driver's side of the event ring, and ERDP behind it.
EventsAbreast ==
  LET base == hcev.posted - hcev.enq
  IN \/ /\ ev.ccs = hcev.pcs /\ ev.deq <= hcev.enq /\ ev.taken = base + ev.deq
        /\ hcev.erdp <= ev.deq \/ hcev.erdp > hcev.enq
     \/ /\ ev.ccs # hcev.pcs /\ hcev.enq < hcev.erdp /\ hcev.erdp <= ev.deq
        /\ base >= EventCap /\ ev.taken = base - EventCap + ev.deq

\* The events not yet taken.
Untaken == {i \in EventSlots : evring[i].num > ev.taken}

\* Kinds whose completion raises an event the driver waits for.
Loud == {"enable", "address", "configure", "status"}

\* A request is on ring r: at most one answer is on its way, to its last TRB.
Expecting(r, type) ==
  /\ \A i \in Untaken : evring[i].type = type =>
       evring[i].n = ring[r].made /\ hc[r].ran = ring[r].made
  /\ \A i, j \in Untaken : evring[i].type = type /\ evring[j].type = type => i = j
  /\ \A i \in DataSlots :
       ring[r].trb[i].n > hc[r].ran /\ ring[r].trb[i].kind \in Loud => ring[r].trb[i].n = ring[r].made

\* Nothing is on its way on ring r.
Settled(r, type) ==
  /\ hc[r].ran = ring[r].made
  /\ \A i \in Untaken : evring[i].type # type

AwaitsOn(r) == waiting /\ InRequests /\ Request[stage].ring = r

\* The answers of ring r, as long as the stage is one that may still wait for them.
Course(r, type) == IF AwaitsOn(r) THEN Expecting(r, type) ELSE Settled(r, type)

CmdCourse == stage \in (0 .. PORT) \cup {RESET, RUN} => Course("cmd", "cmd")
Ep0Course == stage \in (0 .. SET_IDLE) \cup {PORT, RESET, RUN} => Course("ep0", "xfer")

\* Reads are armed one at a time.
IntCourse ==
  /\ stage # READY => ring["int"].made = 0
  /\ ring["int"].made <= hc["int"].ran + 1
  /\ \A i \in Untaken : evring[i].ring = "int" =>
       stage = READY /\ hc["int"].ran = ring["int"].made

StageSound == stage \in 0 .. 15 /\ waiting \in BOOLEAN /\ (waiting => stage \in 1 .. PORT)

RingSound(r) ==
  /\ ring[r] \in ProducerRings /\ hc[r] \in ConsumerSides
  /\ RingWritten(ring[r]) /\ Abreast(ring[r], hc[r])
  /\ \A i \in DataSlots : ring[r].trb[i].kind \in KindsOf(r)

RingsSound ==
  /\ ring \in [RingNames -> ProducerRings] /\ hc \in [RingNames -> ConsumerSides]
  /\ \A r \in RingNames : RingSound(r)

EventTypes ==
  /\ evring \in [EventSlots -> EventTrbs]
  /\ hcev \in [enq : EventSlots, pcs : BOOLEAN, erdp : EventSlots, posted : Nat]
  /\ ev \in [deq : EventSlots, ccs : BOOLEAN, taken : Nat]

EventsSound == EventTypes /\ EventsWritten /\ EventsAbreast

UsbInv ==
  /\ StageSound /\ RingsSound /\ EventsSound
  /\ CmdCourse /\ Ep0Course /\ IntCourse
  /\ AnswersMatch

\* Opposite values of a cycle bit.
LEMMA Toggles ==
  /\ \A b \in BOOLEAN : (~b) \in BOOLEAN /\ (~b) # b
  /\ \A a, b, c \in BOOLEAN : a # c /\ b # c => a = b
  /\ \A a, b, c \in BOOLEAN : a # c /\ b = c => a # b
OBVIOUS

\* What ProducerRing::push writes and leaves.
Pushed(R, P, kind) ==
  /\ P \in ProducerRings /\ P.made = R.made + 1
  /\ \A i \in DataSlots : i # R.enqueue => P.trb[i] = R.trb[i]
  /\ P.trb[R.enqueue].kind = kind /\ P.trb[R.enqueue].n = R.made + 1
  /\ P.trb[R.enqueue].cycle = R.pcs
  /\ P.trb[RingCap - 1].kind = R.trb[RingCap - 1].kind
  /\ \/ /\ R.enqueue + 1 < RingCap - 1 /\ P.enqueue = R.enqueue + 1 /\ P.pcs = R.pcs
        /\ P.trb[RingCap - 1].cycle = R.trb[RingCap - 1].cycle
     \/ /\ R.enqueue + 1 = RingCap - 1 /\ P.enqueue = 0 /\ P.pcs # R.pcs
        /\ P.trb[RingCap - 1].cycle = R.pcs

\* push writes one slot, and the link when it reaches it.
LEMMA PushWrites ==
  ASSUME NEW R \in ProducerRings, NEW kind \in TrbKinds
  PROVE  Pushed(R, Push(R, kind), kind)
<1> DEFINE t == [kind |-> kind, n |-> R.made + 1, cycle |-> R.pcs]
           m == [R.trb EXCEPT ![R.enqueue] = t]
           put == [R EXCEPT !.trb[R.enqueue] = t, !.enqueue = R.enqueue + 1,
                            !.made = R.made + 1]
           l == [m[RingCap - 1] EXCEPT !.cycle = R.pcs]
           k == [m EXCEPT ![RingCap - 1] = l]
           wrapped == LinkWrap(put)
<1>1. /\ RingCap \in Nat /\ RingCap > 4 /\ RingCap - 1 \in 0 .. RingCap - 1
      /\ RingCap - 1 \notin DataSlots
      /\ DataSlots \subseteq 0 .. RingCap - 1
  BY XhciAssumption DEF DataSlots
<1>2. /\ R.enqueue \in DataSlots /\ R.made \in Nat /\ R.pcs \in BOOLEAN
      /\ R.trb \in [0 .. RingCap - 1 -> Trbs]
  BY DEF ProducerRings
<1>3. t \in Trbs
  BY <1>2 DEF Trbs
<1>4. m \in [0 .. RingCap - 1 -> Trbs]
  BY <1>1, <1>2, <1>3
<1>5. l \in Trbs /\ l.kind = m[RingCap - 1].kind /\ l.cycle = R.pcs
  BY <1>1, <1>2, <1>4 DEF Trbs
<1>0. DOMAIN R = {"trb", "enqueue", "pcs", "made"}
  BY DEF ProducerRings
<1>e. R.enqueue + 1 \in Nat /\ R.made + 1 \in Nat
  BY <1>1, <1>2 DEF DataSlots
<1>p. /\ put.trb = m /\ put.enqueue = R.enqueue + 1 /\ put.pcs = R.pcs
      /\ put.made = R.made + 1
      /\ put \in [trb : [0 .. RingCap - 1 -> Trbs], enqueue : Nat, pcs : BOOLEAN, made : Nat]
  <2> HIDE DEF t
  <2>1. R \in [trb : [0 .. RingCap - 1 -> Trbs], enqueue : DataSlots, pcs : BOOLEAN, made : Nat]
    BY DEF ProducerRings
  <2>2. put = [[[R EXCEPT !.trb = m] EXCEPT !.enqueue = R.enqueue + 1] EXCEPT !.made = R.made + 1]
    BY <2>1
  <2> HIDE DEF put, m
  <2> QED BY <1>2, <1>4, <1>e, <2>1, <2>2
<1>6. Push(R, kind) = IF put.enqueue = RingCap - 1 THEN wrapped ELSE put
  BY DEF Push
<1> HIDE DEF put
<1>7. /\ wrapped.trb = k /\ wrapped.enqueue = 0 /\ wrapped.pcs = ~R.pcs
      /\ wrapped.made = R.made + 1
      /\ wrapped \in [trb : [0 .. RingCap - 1 -> Trbs], enqueue : {0}, pcs : BOOLEAN, made : Nat]
  <2> DEFINE P == put
  <2>1. put.trb[RingCap - 1] = m[RingCap - 1]
    BY <1>p
  <2> QED BY <1>1, <1>2, <1>4, <1>5, <1>p, <2>1 DEF LinkWrap
<1>8. m[R.enqueue] = t /\ \A i \in 0 .. RingCap - 1 : i # R.enqueue => m[i] = R.trb[i]
  BY <1>1, <1>2
<1>9. t.kind = kind /\ t.n = R.made + 1 /\ t.cycle = R.pcs
  OBVIOUS
<1>10. RingCap - 1 # R.enqueue
  BY <1>1, <1>2
<1>k. /\ k[RingCap - 1] = l
      /\ \A i \in DataSlots : k[i] = m[i]
  BY <1>1, <1>4
<1> HIDE DEF t, m, l, k, wrapped
<1>11. CASE R.enqueue + 1 = RingCap - 1
  <2>1. Push(R, kind) = wrapped
    BY <1>6, <1>p, <1>11
  <2>3. (~R.pcs) # R.pcs
    BY <1>2, Toggles
  <2>4. wrapped \in ProducerRings
    BY <1>1, <1>7 DEF ProducerRings, DataSlots
  <2> DEFINE P == Push(R, kind)
  <2>5. /\ P \in ProducerRings /\ P.made = R.made + 1
        /\ P.trb[R.enqueue].kind = kind /\ P.trb[R.enqueue].n = R.made + 1
        /\ P.trb[R.enqueue].cycle = R.pcs
    BY <1>2, <1>7, <1>8, <1>9, <1>k, <2>1, <2>4
  <2>6. \A i \in DataSlots : i # R.enqueue => P.trb[i] = R.trb[i]
    BY <1>1, <1>7, <1>8, <1>k, <2>1
  <2>7. P.trb[RingCap - 1].kind = R.trb[RingCap - 1].kind /\ P.trb[RingCap - 1].cycle = R.pcs
    BY <1>1, <1>5, <1>7, <1>8, <1>10, <1>k, <2>1
  <2>8. P.enqueue = 0 /\ P.pcs # R.pcs
    BY <1>7, <2>1, <2>3
  <2> HIDE DEF P
  <2>9. Pushed(R, P, kind)
    BY <1>11, <2>5, <2>6, <2>7, <2>8 DEF Pushed
  <2> QED BY <2>9 DEF P
<1>12. CASE R.enqueue + 1 # RingCap - 1
  <2>1. Push(R, kind) = put
    BY <1>6, <1>p, <1>12
  <2>2. R.enqueue + 1 \in DataSlots /\ R.enqueue + 1 < RingCap - 1
    BY <1>1, <1>2, <1>12 DEF DataSlots
  <2>3. put \in ProducerRings
    BY <1>p, <2>2 DEF ProducerRings
  <2> QED BY <1>1, <1>2, <1>8, <1>9, <1>10, <1>p, <2>1, <2>2, <2>3 DEF Pushed
<1> QED BY <1>11, <1>12

\* The memory stays two laps of cycle bits and consecutive numbers.
LEMMA PushKeepsWritten ==
  ASSUME NEW R \in ProducerRings, NEW P, NEW kind \in TrbKinds, kind # "link",
         RingWritten(R), Pushed(R, P, kind)
  PROVE  RingWritten(P)
<1>1. /\ RingCap \in Nat /\ RingCap > 4 /\ RingCap - 1 \in 0 .. RingCap - 1
      /\ \A i \in DataSlots : i \in Nat /\ i < RingCap - 1 /\ i \in 0 .. RingCap - 1
  BY XhciAssumption DEF DataSlots
<1>2. /\ R.enqueue \in DataSlots /\ R.made \in Nat /\ R.pcs \in BOOLEAN
      /\ \A i \in 0 .. RingCap - 1 : R.trb[i].cycle \in BOOLEAN /\ R.trb[i].n \in Nat
      /\ P.enqueue \in DataSlots /\ P.made \in Nat /\ P.pcs \in BOOLEAN
      /\ \A i \in 0 .. RingCap - 1 : P.trb[i].cycle \in BOOLEAN /\ P.trb[i].n \in Nat
  BY DEF ProducerRings, Trbs, Pushed
<1>3. /\ R.enqueue <= R.made
      /\ R.trb[RingCap - 1].kind = "link" /\ R.trb[RingCap - 1].cycle # R.pcs
      /\ \A i \in DataSlots :
          /\ R.trb[i].kind # "link"
          /\ i < R.enqueue => R.trb[i].cycle = R.pcs /\ R.trb[i].n = R.made - R.enqueue + i + 1
          /\ i >= R.enqueue =>
               /\ R.trb[i].cycle # R.pcs
               /\ R.made - R.enqueue = 0 => R.trb[i].n = 0
               /\ R.made - R.enqueue # 0 =>
                    R.made - R.enqueue >= RingCap - 1 /\ R.trb[i].n = R.made - R.enqueue - (RingCap - 1) + i + 1
  BY DEF RingWritten
<1>4. /\ P.made = R.made + 1
      /\ \A i \in DataSlots : i # R.enqueue => P.trb[i] = R.trb[i]
      /\ P.trb[R.enqueue].kind = kind /\ P.trb[R.enqueue].n = R.made + 1
      /\ P.trb[R.enqueue].cycle = R.pcs
      /\ P.trb[RingCap - 1].kind = R.trb[RingCap - 1].kind
  BY DEF Pushed
<1>5. CASE /\ R.enqueue + 1 < RingCap - 1 /\ P.enqueue = R.enqueue + 1 /\ P.pcs = R.pcs
           /\ P.trb[RingCap - 1].cycle = R.trb[RingCap - 1].cycle
  <2>1. ASSUME NEW i \in DataSlots
        PROVE  /\ P.trb[i].kind # "link"
               /\ i < P.enqueue => P.trb[i].cycle = P.pcs /\ P.trb[i].n = P.made - P.enqueue + i + 1
               /\ i >= P.enqueue =>
                    /\ P.trb[i].cycle # P.pcs
                    /\ P.made - P.enqueue = 0 => P.trb[i].n = 0
                    /\ P.made - P.enqueue # 0 =>
                         P.made - P.enqueue >= RingCap - 1
                         /\ P.trb[i].n = P.made - P.enqueue - (RingCap - 1) + i + 1
    <3>1. P.made - P.enqueue = R.made - R.enqueue
      BY <1>1, <1>2, <1>4, <1>5
    <3>2. CASE i = R.enqueue
      BY <1>1, <1>2, <1>4, <1>5, <3>1, <3>2
    <3>3. CASE i # R.enqueue
      <4>1. P.trb[i] = R.trb[i] /\ (i < P.enqueue => i < R.enqueue) /\ (i >= P.enqueue => i >= R.enqueue)
        BY <1>1, <1>2, <1>4, <1>5, <3>3
      <4> QED BY <1>1, <1>3, <1>5, <3>1, <4>1
    <3> QED BY <3>2, <3>3
  <2> QED BY <1>1, <1>2, <1>3, <1>4, <1>5, <2>1 DEF RingWritten
<1>6. CASE /\ R.enqueue + 1 = RingCap - 1 /\ P.enqueue = 0 /\ P.pcs # R.pcs
           /\ P.trb[RingCap - 1].cycle = R.pcs
  <2>1. ASSUME NEW i \in DataSlots
        PROVE  /\ P.trb[i].kind # "link"
               /\ P.trb[i].cycle = R.pcs
               /\ P.made >= RingCap - 1
               /\ P.trb[i].n = P.made - (RingCap - 1) + i + 1
    BY ONLY <1>1, <1>2, <1>3, <1>4, <1>6, <2>1, kind # "link"
  <2>2. P.made >= RingCap - 1 /\ P.trb[RingCap - 1].cycle # P.pcs
    BY <1>1, <1>2, <1>3, <1>4, <1>6
  <2> QED BY <1>1, <1>2, <1>3, <1>4, <1>6, <2>1, <2>2 DEF RingWritten
<1> QED BY <1>5, <1>6 DEF Pushed

\* While a slot stays free, the controller's side fits the ring after a push.
LEMMA PushKeepsAbreast ==
  ASSUME NEW R \in ProducerRings, NEW P, NEW kind, NEW h \in ConsumerSides,
         RingWritten(R), Abreast(R, h), R.made < h.ran + RingCap - 2, Pushed(R, P, kind)
  PROVE  Abreast(P, h)
<1>1. /\ RingCap \in Nat /\ RingCap > 4
      /\ R.enqueue \in Nat /\ R.enqueue < RingCap - 1 /\ R.made \in Nat /\ R.pcs \in BOOLEAN
      /\ P.enqueue \in Nat /\ P.pcs \in BOOLEAN
      /\ h.deq \in Nat /\ h.deq <= RingCap - 1 /\ h.ccs \in BOOLEAN /\ h.ran \in Nat
  BY XhciAssumption DEF Pushed, ProducerRings, ConsumerSides, DataSlots
<1>2. R.enqueue <= R.made /\ P.made = R.made + 1
  BY DEF RingWritten, Pushed
<1>3. CASE h.ccs = R.pcs /\ h.deq <= R.enqueue /\ h.ran = R.made - R.enqueue + h.deq
  <2>1. CASE R.enqueue + 1 < RingCap - 1 /\ P.enqueue = R.enqueue + 1 /\ P.pcs = R.pcs
    BY <1>1, <1>2, <1>3, <2>1 DEF Abreast
  <2>2. CASE R.enqueue + 1 = RingCap - 1 /\ P.enqueue = 0 /\ P.pcs # R.pcs
    <3>1. h.ccs # P.pcs
      BY <1>1, <1>3, <2>2
    <3>2. P.made - P.enqueue = R.made - R.enqueue + (RingCap - 1)
      BY <1>1, <1>2, <2>2
    <3> QED BY <1>1, <1>2, <1>3, <2>2, <3>1, <3>2 DEF Abreast
  <2> QED BY <2>1, <2>2 DEF Pushed
<1>4. CASE /\ h.ccs # R.pcs /\ R.enqueue <= h.deq /\ R.made - R.enqueue >= RingCap - 1
           /\ h.ran = R.made - R.enqueue - (RingCap - 1) + h.deq
  <2>1. R.enqueue + 1 < RingCap - 1 /\ R.enqueue + 1 <= h.deq
    BY <1>1, <1>2, <1>4
  <2>2. P.enqueue = R.enqueue + 1 /\ P.pcs = R.pcs
    BY <2>1, <1>1 DEF Pushed
  <2> QED BY <1>1, <1>2, <1>4, <2>1, <2>2 DEF Abreast
<1> QED BY <1>1, <1>3, <1>4 DEF Abreast

\* The requests push one, two or three TRBs, one after the other.
LEMMA PushAllIs ==
  ASSUME NEW R, NEW s, Len(s) \in 1 .. 3
  PROVE  \E f : /\ f[0] = R
                /\ \A n \in 1 .. Len(s) : f[n] = Push(f[n - 1], s[n])
                /\ PushAll(R, s) = f[Len(s)]
<1> DEFINE Pushes(f) == f = [n \in 0 .. Len(s) |-> IF n = 0 THEN R ELSE Push(f[n - 1], s[n])]
           one == Push(R, s[1])
           two == Push(one, s[2])
           three == Push(two, s[3])
           g == [n \in 0 .. Len(s) |-> IF n = 0 THEN R ELSE IF n = 1 THEN one
                                      ELSE IF n = 2 THEN two ELSE three]
<1>1. ASSUME NEW n \in 0 .. Len(s)
      PROVE  g[n] = IF n = 0 THEN R ELSE Push(g[n - 1], s[n])
  <2>1. n = 0 \/ n = 1 \/ n = 2 \/ n = 3
    <3> DEFINE L == Len(s)
    <3>1. L \in 1 .. 3 /\ n \in 0 .. L
      OBVIOUS
    <3> HIDE DEF L
    <3> QED BY ONLY <3>1
  <2>2. \A k \in 0 .. Len(s) : g[k] = IF k = 0 THEN R ELSE IF k = 1 THEN one
                                      ELSE IF k = 2 THEN two ELSE three
    <3> HIDE DEF one, two, three
    <3> QED OBVIOUS
  <2>3. n # 0 => n - 1 \in 0 .. Len(s)
    OBVIOUS
  <2> HIDE DEF g
  <2> QED BY <2>1, <2>2, <2>3
<1>2. Pushes(g)
  <2> HIDE DEF one, two, three
  <2>1. g = [n \in 0 .. Len(s) |-> g[n]]
    OBVIOUS
  <2> HIDE DEF g
  <2> QED BY <1>1, <2>1
<1> DEFINE f == CHOOSE f : Pushes(f)
<1>3. Pushes(f)
  BY <1>2, Zenon
<1>4. PushAll(R, s) = f[Len(s)]
  BY DEF PushAll
<1> HIDE DEF f
<1>5. f[0] = R /\ \A n \in 1 .. Len(s) : f[n] = Push(f[n - 1], s[n])
  BY <1>3
<1> QED BY <1>4, <1>5

\* The types of a ring's fields.
LEMMA RingTypes ==
  ASSUME NEW R \in ProducerRings
  PROVE  /\ R.made \in Nat /\ R.pcs \in BOOLEAN /\ R.enqueue \in Nat /\ R.enqueue < RingCap - 1
         /\ \A i \in DataSlots : /\ R.trb[i].n \in Nat /\ R.trb[i].cycle \in BOOLEAN
                                  /\ R.trb[i].kind \in TrbKinds
<1>1. DataSlots \subseteq 0 .. RingCap - 1 /\ R.enqueue \in DataSlots
  BY XhciAssumption DEF ProducerRings, DataSlots
<1>2. R.trb \in [0 .. RingCap - 1 -> Trbs] /\ R.made \in Nat /\ R.pcs \in BOOLEAN
  BY DEF ProducerRings
<1>3. \A i \in DataSlots : R.trb[i] \in Trbs
  BY <1>1, <1>2
<1>4. R.enqueue \in Nat /\ R.enqueue < RingCap - 1
  BY <1>1, XhciAssumption DEF DataSlots
<1> QED BY <1>2, <1>3, <1>4 DEF Trbs

\* The elements of a sequence of eight.
EightAre(s, a, b, c, d, e, f, g, h) ==
  /\ Len(s) = 8 /\ s[1] = a /\ s[2] = b /\ s[3] = c /\ s[4] = d
  /\ s[5] = e /\ s[6] = f /\ s[7] = g /\ s[8] = h

\* Two, three and three joined.
LEMMA JoinedRequests ==
  ASSUME NEW a, NEW b, NEW c, NEW d, NEW e, NEW f, NEW g, NEW h
  PROVE  EightAre(<<a, b>> \o <<c, d, e>> \o <<f, g, h>>, a, b, c, d, e, f, g, h)
<1> DEFINE S == {a, b, c, d, e, f, g, h}
           p == <<a, b>>
           q == <<c, d, e>>
           r == <<f, g, h>>
<1>1. p \in Seq(S) /\ q \in Seq(S) /\ r \in Seq(S) /\ Len(p) = 2 /\ Len(q) = 3 /\ Len(r) = 3
  OBVIOUS
<1>2. /\ p[1] = a /\ p[2] = b /\ q[1] = c
      /\ q[2] = d /\ q[3] = e /\ r[1] = f /\ r[2] = g /\ r[3] = h
  OBVIOUS
<1> HIDE DEF S, p, q, r
<1> DEFINE u == p \o q
<1>3a. /\ u \in Seq(S) /\ Len(u) = Len(p) + Len(q)
       /\ \A i \in 1 .. Len(p) + Len(q) : u[i] = IF i <= Len(p) THEN p[i] ELSE q[i - Len(p)]
  BY <1>1, ConcatProperties
<1> HIDE DEF u
<1>3b. \A i \in 1 .. 5 : u[i] = IF i <= 2 THEN p[i] ELSE q[i - 2]
  BY <1>1, <1>3a
<1>3. /\ u \in Seq(S) /\ Len(u) = 5
      /\ u[1] = p[1] /\ u[2] = p[2] /\ u[3] = q[1] /\ u[4] = q[2] /\ u[5] = q[3]
  BY <1>1, <1>3a, <1>3b
<1> DEFINE v == u \o r
<1>4a. /\ v \in Seq(S) /\ Len(v) = Len(u) + Len(r)
       /\ \A i \in 1 .. Len(u) + Len(r) : v[i] = IF i <= Len(u) THEN u[i] ELSE r[i - Len(u)]
  BY <1>1, <1>3, ConcatProperties
<1> HIDE DEF v
<1>4b. \A i \in 1 .. 8 : v[i] = IF i <= 5 THEN u[i] ELSE r[i - 5]
  BY <1>1, <1>3, <1>4a
<1>4. /\ v \in Seq(S) /\ Len(v) = 8
      /\ v[1] = u[1] /\ v[2] = u[2] /\ v[3] = u[3] /\ v[4] = u[4]
      /\ v[5] = u[5] /\ v[6] = r[1] /\ v[7] = r[2] /\ v[8] = r[3]
  BY <1>1, <1>3, <1>4a, <1>4b
<1>5. <<a, b>> \o <<c, d, e>> \o <<f, g, h>> = v
  BY DEF p, q, r, u, v
<1>6. EightAre(v, a, b, c, d, e, f, g, h)
  BY <1>2, <1>3, <1>4 DEF EightAre
<1> QED BY ONLY <1>5, <1>6, Zenon

\* What init asks for, request by request.
LEMMA RequestIs ==
  /\ Len(Request) = 8
  /\ \A s \in 1 .. 8 :
       \/ /\ s \in {1, 2, 8} /\ Request[s].ring = "cmd" /\ Request[s].want = "cmd"
          /\ \E k \in {"enable", "address", "configure"} : Request[s].trbs = <<k>>
       \/ /\ s \in 3 .. 7 /\ Request[s].ring = "ep0" /\ Request[s].want = "xfer"
          /\ \/ Request[s].trbs = <<"setup", "data", "status">>
             \/ Request[s].trbs = <<"setup", "status">>
<1>2. /\ EnableSlot.ring = "cmd" /\ EnableSlot.want = "cmd" /\ EnableSlot.trbs = <<"enable">>
      /\ AddressDevice.ring = "cmd" /\ AddressDevice.want = "cmd"
      /\ AddressDevice.trbs = <<"address">>
      /\ Command("configure").ring = "cmd" /\ Command("configure").want = "cmd"
      /\ Command("configure").trbs = <<"configure">>
  BY DEF EnableSlot, AddressDevice, Command
<1>3. /\ ControlIn(TRUE).ring = "ep0" /\ ControlIn(TRUE).want = "xfer"
      /\ ControlIn(TRUE).trbs = <<"setup", "data", "status">>
      /\ ControlIn(FALSE).ring = "ep0" /\ ControlIn(FALSE).want = "xfer"
      /\ ControlIn(FALSE).trbs = <<"setup", "status">>
  BY DEF ControlIn
<1>4. /\ Request[1] = EnableSlot /\ Request[2] = AddressDevice /\ Request[3] = ControlIn(TRUE)
      /\ Request[4] = ControlIn(TRUE) /\ Request[5] = ControlIn(FALSE)
      /\ Request[6] = ControlIn(FALSE) /\ Request[7] = ControlIn(FALSE)
      /\ Request[8] = Command("configure") /\ Len(Request) = 8
  <2>1. Request = <<EnableSlot, AddressDevice>> \o <<ControlIn(TRUE), ControlIn(TRUE), ControlIn(FALSE)>>
                  \o <<ControlIn(FALSE), ControlIn(FALSE), Command("configure")>>
    BY DEF Request, DescribeDevice, ConfigureInterruptEndpoint
  <2> DEFINE x1 == EnableSlot
             x2 == AddressDevice
             x3 == ControlIn(TRUE)
             x4 == ControlIn(FALSE)
             x5 == Command("configure")
  <2>2. Request = <<x1, x2>> \o <<x3, x3, x4>> \o <<x4, x4, x5>>
    BY <2>1
  <2> HIDE DEF x1, x2, x3, x4, x5
  <2>3. /\ Len(Request) = 8 /\ Request[1] = x1 /\ Request[2] = x2 /\ Request[3] = x3
        /\ Request[4] = x3 /\ Request[5] = x4 /\ Request[6] = x4 /\ Request[7] = x4
        /\ Request[8] = x5
    <3>1. EightAre(<<x1, x2>> \o <<x3, x3, x4>> \o <<x4, x4, x5>>, x1, x2, x3, x3, x4, x4, x4, x5)
      BY ONLY JoinedRequests, Zenon
    <3>2. EightAre(Request, x1, x2, x3, x3, x4, x4, x4, x5)
      BY ONLY <2>2, <3>1, Zenon
    <3> QED BY <3>2 DEF EightAre
  <2> QED BY <2>3 DEF x1, x2, x3, x4, x5
<1>5. \A s \in 1 .. 8 : s = 1 \/ s = 2 \/ s = 3 \/ s = 4 \/ s = 5 \/ s = 6 \/ s = 7 \/ s = 8
  OBVIOUS
<1> DEFINE Cmd(q) == /\ q.ring = "cmd" /\ q.want = "cmd"
                     /\ \E k \in {"enable", "address", "configure"} : q.trbs = <<k>>
           Ctl(q) == /\ q.ring = "ep0" /\ q.want = "xfer"
                     /\ \/ q.trbs = <<"setup", "data", "status">> \/ q.trbs = <<"setup", "status">>
<1>6. /\ Cmd(EnableSlot) /\ Cmd(AddressDevice) /\ Cmd(Command("configure"))
      /\ Ctl(ControlIn(TRUE)) /\ Ctl(ControlIn(FALSE))
  BY <1>2, <1>3
<1> HIDE DEF Cmd, Ctl
<1>7. \A s \in 1 .. 8 : (s \in {1, 2, 8} /\ Cmd(Request[s])) \/ (s \in 3 .. 7 /\ Ctl(Request[s]))
  <2> SUFFICES ASSUME NEW s \in 1 .. 8
               PROVE  (s \in {1, 2, 8} /\ Cmd(Request[s])) \/ (s \in 3 .. 7 /\ Ctl(Request[s]))
    OBVIOUS
  <2>1. CASE s \in {1, 2, 8}
    BY <1>4, <1>6, <2>1
  <2>2. CASE s \in {3, 4, 5, 6, 7}
    <3>1. Ctl(Request[s])
      BY <1>4, <1>6, <2>2
    <3> QED BY <2>2, <3>1
  <2> QED BY <1>5, <2>1, <2>2
<1> QED BY <1>4, <1>7 DEF Cmd, Ctl

\* A ring with m TRBs of the kinds K to run.
Issued(P, h, K, m) ==
  /\ P \in ProducerRings /\ RingWritten(P) /\ Abreast(P, h) /\ P.made = h.ran + m
  /\ \A i \in DataSlots : P.trb[i].kind \in K

\* A push leaves every other slot.
Grown(P, Q, kind) ==
  /\ \A i \in DataSlots : Q.trb[i] = P.trb[i] \/ (Q.trb[i].n = Q.made /\ Q.trb[i].kind = kind)
  /\ Q.made = P.made + 1

\* One more TRB.
LEMMA OnePush ==
  ASSUME NEW K \in SUBSET (TrbKinds \ {"link"}), NEW P, NEW h \in ConsumerSides, NEW m \in 0 .. 2,
         NEW kind \in K, Issued(P, h, K, m)
  PROVE  /\ Issued(Push(P, kind), h, K, m + 1)
         /\ Grown(P, Push(P, kind), kind)
<1> DEFINE Q == Push(P, kind)
<1>1. P \in ProducerRings /\ kind \in TrbKinds /\ kind # "link"
  BY DEF Issued
<1>2. Pushed(P, Q, kind)
  BY <1>1, PushWrites
<1> HIDE DEF Q
<1>3. RingWritten(Q)
  BY <1>1, <1>2, PushKeepsWritten DEF Issued
<1>4. P.made < h.ran + RingCap - 2
  BY XhciAssumption DEF Issued, ConsumerSides
<1>5. Abreast(Q, h)
  BY <1>1, <1>2, <1>4, PushKeepsAbreast DEF Issued
<1>6. /\ Q \in ProducerRings /\ Q.made = P.made + 1
      /\ \A i \in DataSlots : i # P.enqueue => Q.trb[i] = P.trb[i]
      /\ Q.trb[P.enqueue].kind = kind /\ Q.trb[P.enqueue].n = P.made + 1
  BY <1>2 DEF Pushed
<1>7. Q.made = h.ran + (m + 1)
  BY <1>6 DEF Issued, ConsumerSides
<1>8. \A i \in DataSlots : Q.trb[i].kind \in K
  BY <1>6 DEF Issued
<1>9. Issued(Q, h, K, m + 1) /\ Grown(P, Q, kind)
  BY <1>3, <1>5, <1>6, <1>7, <1>8 DEF Issued, Grown
<1> QED BY <1>9 DEF Q

\* A request leaves the ring in order, its last TRB the only loud one to run.
LEMMA RequestPushed ==
  ASSUME NEW s \in 1 .. 8, NEW R, NEW h \in ConsumerSides,
         Issued(R, h, KindsOf(Request[s].ring), 0)
  PROVE  \E m \in 1 .. 3 :
           /\ Issued(PushAll(R, Request[s].trbs), h, KindsOf(Request[s].ring), m)
           /\ \A i \in DataSlots :
                LET t == PushAll(R, Request[s].trbs).trb[i]
                IN t.n > h.ran /\ t.kind \in Loud => t.n = PushAll(R, Request[s].trbs).made
<1> DEFINE q == Request[s]
           K == KindsOf(q.ring)
           P == PushAll(R, q.trbs)
<1>0. \/ q.ring = "cmd" /\ \E k \in {"enable", "address", "configure"} : q.trbs = <<k>>
      \/ q.ring = "ep0" /\ q.trbs = <<"setup", "data", "status">>
      \/ q.ring = "ep0" /\ q.trbs = <<"setup", "status">>
  BY RequestIs
<1>1. Len(q.trbs) \in 1 .. 3
  <2> HIDE DEF q
  <2> QED BY <1>0
<1>2. PICK f : /\ f[0] = R
               /\ \A n \in 1 .. Len(q.trbs) : f[n] = Push(f[n - 1], q.trbs[n])
               /\ P = f[Len(q.trbs)]
  <2>1. PICK w : w = q.trbs
    OBVIOUS
  <2>2. \E f : /\ f[0] = R
               /\ \A n \in 1 .. Len(w) : f[n] = Push(f[n - 1], w[n])
               /\ PushAll(R, w) = f[Len(w)]
    BY ONLY <1>1, <2>1, PushAllIs
  <2> QED BY ONLY <2>1, <2>2 DEF P
<1>3. K \in SUBSET (TrbKinds \ {"link"})
  <2>1. q.ring = "cmd" \/ q.ring = "ep0"
    BY <1>0
  <2> HIDE DEF q
  <2> QED BY ONLY <2>1 DEF KindsOf, TrbKinds
<1>4. Issued(f[0], h, K, 0) /\ h.ran \in Nat
  BY <1>2 DEF ConsumerSides
<1>5. \A i \in DataSlots : f[0].trb[i].n <= h.ran
  <2>1. R \in ProducerRings /\ RingWritten(R) /\ R.made = h.ran
    BY DEF Issued, ConsumerSides
  <2>2. /\ R.made \in Nat /\ R.enqueue \in Nat
        /\ \A i \in DataSlots : i \in Nat /\ i < RingCap - 1 /\ R.trb[i].n \in Nat
    BY <2>1, XhciAssumption DEF ProducerRings, Trbs, DataSlots
  <2> QED BY <1>2, <1>4, <2>1, <2>2, XhciAssumption DEF RingWritten
<1> HIDE DEF P, K, q
<1> DEFINE Step(n, kind) ==
      /\ Issued(f[n], h, K, n)
      /\ Grown(f[n - 1], f[n], kind)
<1>6. ASSUME NEW n \in 1 .. 3, n <= Len(q.trbs), q.trbs[n] \in K, Issued(f[n - 1], h, K, n - 1)
      PROVE  Step(n, q.trbs[n])
  <2>1. f[n] = Push(f[n - 1], q.trbs[n])
    BY <1>1, <1>2, <1>6
  <2>2. n - 1 \in 0 .. 2 /\ (n - 1) + 1 = n
    OBVIOUS
  <2> DEFINE R0 == f[n - 1]
             m0 == n - 1
             k0 == q.trbs[n]
  <2>3. Issued(R0, h, K, m0) /\ m0 \in 0 .. 2 /\ k0 \in K
    BY <1>6, <2>2
  <2> HIDE DEF R0, m0, k0
  <2>4. Issued(Push(R0, k0), h, K, m0 + 1) /\ Grown(R0, Push(R0, k0), k0)
    BY <1>3, <2>3, OnePush
  <2>5. f[n] = Push(R0, k0) /\ m0 + 1 = n
    BY <2>1, <2>2 DEF R0, k0, m0
  <2> QED BY <2>4, <2>5 DEF R0, k0
<1>7. CASE \E k \in {"enable", "address", "configure"} : q.trbs = <<k>> /\ q.ring = "cmd"
  <2>1. q.trbs[1] \in K /\ Len(q.trbs) = 1
    BY <1>7 DEF K, KindsOf
  <2>2. Step(1, q.trbs[1])
    BY <1>4, <1>6, <2>1
  <2>3. P = f[1]
    BY <1>2, <2>1
  <2>4. \A i \in DataSlots : f[1].trb[i].n > h.ran => f[1].trb[i].n = f[1].made
    <3>1. f[1].made \in Nat /\ \A i \in DataSlots : f[1].trb[i].n \in Nat /\ f[0].trb[i].n \in Nat
      BY <1>4, <2>2, RingTypes DEF Issued
    <3> QED BY <1>4, <1>5, <2>2, <3>1 DEF Grown
  <2> QED BY <2>2, <2>3, <2>4 DEF P, K, q
<1>8. CASE q.trbs = <<"setup", "status">> /\ q.ring = "ep0"
  <2>1. /\ q.trbs[1] = "setup" /\ q.trbs[2] = "status" /\ Len(q.trbs) = 2
        /\ "setup" \in K /\ "status" \in K
    BY <1>8 DEF K, KindsOf
  <2>2. Step(1, "setup")
    BY <1>4, <1>6, <2>1
  <2>3. Step(2, "status")
    BY <1>6, <2>1, <2>2
  <2>4. P = f[2]
    BY <1>2, <2>1
  <2>5. \A i \in DataSlots : f[1].trb[i].n > h.ran => f[1].trb[i].kind \notin Loud
    <3>1. f[1].made \in Nat /\ \A i \in DataSlots : f[1].trb[i].n \in Nat /\ f[0].trb[i].n \in Nat
      BY <1>4, <2>2, RingTypes DEF Issued
    <3> QED BY <1>4, <1>5, <2>2, <3>1 DEF Grown, Loud
  <2>6. \A i \in DataSlots : f[2].trb[i].n > h.ran /\ f[2].trb[i].kind \in Loud =>
                               f[2].trb[i].n = f[2].made
    BY <2>3, <2>5 DEF Grown
  <2> QED BY <2>3, <2>4, <2>6 DEF P, K, q
<1>9. CASE q.trbs = <<"setup", "data", "status">> /\ q.ring = "ep0"
  <2>1. /\ q.trbs[1] = "setup" /\ q.trbs[2] = "data" /\ q.trbs[3] = "status" /\ Len(q.trbs) = 3
        /\ "setup" \in K /\ "data" \in K /\ "status" \in K
    BY <1>9 DEF K, KindsOf
  <2>2. Step(1, "setup")
    BY <1>4, <1>6, <2>1
  <2>3. Step(2, "data")
    BY <1>6, <2>1, <2>2
  <2>4. Step(3, "status")
    BY <1>6, <2>1, <2>3
  <2>5. P = f[3]
    BY <1>2, <2>1
  <2>6. \A i \in DataSlots : f[1].trb[i].n > h.ran => f[1].trb[i].kind \notin Loud
    <3>1. f[1].made \in Nat /\ \A i \in DataSlots : f[1].trb[i].n \in Nat /\ f[0].trb[i].n \in Nat
      BY <1>4, <2>2, RingTypes DEF Issued
    <3> QED BY <1>4, <1>5, <2>2, <3>1 DEF Grown, Loud
  <2>7. \A i \in DataSlots : f[2].trb[i].n > h.ran => f[2].trb[i].kind \notin Loud
    BY <2>3, <2>6 DEF Grown, Loud
  <2>8. \A i \in DataSlots : f[3].trb[i].n > h.ran /\ f[3].trb[i].kind \in Loud =>
                               f[3].trb[i].n = f[3].made
    BY <2>4, <2>7 DEF Grown
  <2> QED BY <2>4, <2>5, <2>8 DEF P, K, q
<1> QED BY <1>0, <1>7, <1>8, <1>9

\* A TRB the controller takes to be new is the next one to run.
LEMMA RunsNext ==
  ASSUME NEW R \in ProducerRings, NEW h \in ConsumerSides, RingWritten(R), Abreast(R, h),
         R.trb[h.deq].cycle = h.ccs, R.trb[h.deq].kind # "link"
  PROVE  /\ h.deq \in DataSlots /\ h.deq + 1 \in 0 .. RingCap - 1
         /\ R.trb[h.deq].n = h.ran + 1 /\ h.ran < R.made
         /\ \A g : g.deq = h.deq + 1 /\ g.ccs = h.ccs /\ g.ran = h.ran + 1 => Abreast(R, g)
<1>1. /\ RingCap \in Nat /\ RingCap > 4 /\ h.deq \in 0 .. RingCap - 1 /\ h.deq \in Nat
      /\ h.ccs \in BOOLEAN /\ h.ran \in Nat
  BY XhciAssumption DEF ConsumerSides
<1>2. /\ R.made \in Nat /\ R.pcs \in BOOLEAN /\ R.enqueue \in Nat /\ R.enqueue < RingCap - 1
  BY RingTypes
<1>3. h.deq # RingCap - 1
  BY DEF RingWritten
<1>4. h.deq \in DataSlots
  BY <1>1, <1>3 DEF DataSlots
<1>5. /\ R.enqueue <= R.made
      /\ h.deq < R.enqueue => R.trb[h.deq].n = R.made - R.enqueue + h.deq + 1
      /\ h.deq >= R.enqueue =>
           /\ h.ccs # R.pcs
           /\ R.made - R.enqueue # 0 =>
                R.trb[h.deq].n = R.made - R.enqueue - (RingCap - 1) + h.deq + 1
  BY <1>4 DEF RingWritten
<1>6. CASE h.ccs = R.pcs /\ h.deq <= R.enqueue /\ h.ran = R.made - R.enqueue + h.deq
  <2>1. h.deq < R.enqueue
    BY <1>1, <1>2, <1>5, <1>6
  <2>2. R.trb[h.deq].n = h.ran + 1 /\ h.ran < R.made
    BY <1>1, <1>2, <1>5, <1>6, <2>1
  <2>3. ASSUME NEW g, g.deq = h.deq + 1, g.ccs = h.ccs, g.ran = h.ran + 1
        PROVE  Abreast(R, g)
    BY <1>1, <1>2, <1>6, <2>1, <2>3 DEF Abreast
  <2> QED BY <1>1, <1>2, <1>4, <2>1, <2>2, <2>3
<1>7. CASE /\ h.ccs # R.pcs /\ R.enqueue <= h.deq /\ R.made - R.enqueue >= RingCap - 1
           /\ h.ran = R.made - R.enqueue - (RingCap - 1) + h.deq
  <2>1. h.deq + 1 \in 0 .. RingCap - 1
    BY <1>1, <1>3
  <2>2. R.trb[h.deq].n = h.ran + 1 /\ h.ran < R.made
    BY <1>1, <1>2, <1>5, <1>7, <2>1
  <2>3. ASSUME NEW g, g.deq = h.deq + 1, g.ccs = h.ccs, g.ran = h.ran + 1
        PROVE  Abreast(R, g)
    BY <1>1, <1>2, <1>7, <2>1, <2>3 DEF Abreast
  <2> QED BY <1>4, <2>1, <2>2, <2>3
<1> QED BY <1>6, <1>7 DEF Abreast

\* The link, when new, ends the lap.
LEMMA FollowsLink ==
  ASSUME NEW R \in ProducerRings, NEW h \in ConsumerSides, RingWritten(R), Abreast(R, h),
         R.trb[h.deq].cycle = h.ccs, R.trb[h.deq].kind = "link",
         NEW g, g.deq = 0, g.ccs \in BOOLEAN, g.ccs # h.ccs, g.ran = h.ran
  PROVE  Abreast(R, g)
<1>1. /\ RingCap \in Nat /\ RingCap > 4 /\ h.deq \in 0 .. RingCap - 1 /\ h.deq \in Nat
      /\ h.ccs \in BOOLEAN /\ h.ran \in Nat
  BY XhciAssumption DEF ConsumerSides
<1>2. /\ R.made \in Nat /\ R.pcs \in BOOLEAN /\ R.enqueue \in Nat /\ R.enqueue < RingCap - 1
  BY RingTypes
<1>3. h.deq \notin DataSlots
  BY DEF RingWritten
<1>4. h.deq = RingCap - 1
  BY <1>1, <1>3 DEF DataSlots
<1>5. h.ccs # R.pcs /\ h.ran = R.made - R.enqueue - (RingCap - 1) + h.deq
  BY <1>1, <1>2, <1>4 DEF Abreast
<1>6. g.ccs = R.pcs
  BY <1>1, <1>2, <1>5
<1> QED BY <1>1, <1>2, <1>4, <1>5, <1>6 DEF Abreast

----------------------------------------------------------------------------
(* The event ring.                                                         *)

LEMMA EventFields ==
  ASSUME EventTypes
  PROVE  /\ EventCap \in Nat /\ EventCap > 0
         /\ hcev.enq \in Nat /\ hcev.enq < EventCap /\ hcev.enq \in EventSlots
         /\ hcev.erdp \in Nat /\ hcev.erdp < EventCap /\ hcev.erdp \in EventSlots
         /\ hcev.posted \in Nat /\ hcev.pcs \in BOOLEAN
         /\ ev.deq \in Nat /\ ev.deq < EventCap /\ ev.deq \in EventSlots
         /\ ev.taken \in Nat /\ ev.ccs \in BOOLEAN
         /\ \A i \in EventSlots : /\ i \in Nat /\ i < EventCap
                                 /\ evring[i] \in EventTrbs /\ evring[i].num \in Nat
                                 /\ evring[i].cycle \in BOOLEAN
<1>1. EventCap \in Nat /\ EventCap > 0
  BY XhciAssumption
<1>2. hcev.enq \in EventSlots /\ hcev.erdp \in EventSlots /\ ev.deq \in EventSlots
  BY DEF EventTypes
<1>3. hcev.posted \in Nat /\ hcev.pcs \in BOOLEAN /\ ev.taken \in Nat /\ ev.ccs \in BOOLEAN
  BY DEF EventTypes
<1>4. \A i \in EventSlots : evring[i] \in EventTrbs
  BY DEF EventTypes
<1>5. \A i \in EventSlots : evring[i].num \in Nat /\ evring[i].cycle \in BOOLEAN
  BY <1>4 DEF EventTrbs
<1>6. \A i \in EventSlots : i \in Nat /\ i < EventCap
  BY <1>1 DEF EventSlots
<1> QED BY <1>1, <1>2, <1>3, <1>4, <1>5, <1>6

\* What HasEvent tells.
LEMMA TakesNext ==
  ASSUME EventTypes, EventsWritten, EventsAbreast
  PROVE  /\ ev.taken <= hcev.posted
         /\ HasEvent => evring[ev.deq].num = ev.taken + 1
         /\ Pending > 0 => HasEvent
         /\ HasEvent => ev.taken < hcev.posted
<1> USE EventFields
<1>1. /\ hcev.enq <= hcev.posted
      /\ ev.deq < hcev.enq =>
           evring[ev.deq].cycle = hcev.pcs /\ evring[ev.deq].num = hcev.posted - hcev.enq + ev.deq + 1
      /\ ev.deq >= hcev.enq =>
           /\ evring[ev.deq].cycle # hcev.pcs
           /\ hcev.posted - hcev.enq # 0 =>
                evring[ev.deq].num = hcev.posted - hcev.enq - EventCap + ev.deq + 1
  BY DEF EventsWritten
<1>2. CASE ev.ccs = hcev.pcs /\ ev.deq <= hcev.enq /\ ev.taken = hcev.posted - hcev.enq + ev.deq
  BY <1>1, <1>2 DEF HasEvent, Pending
<1>3. CASE /\ ev.ccs # hcev.pcs /\ hcev.enq < hcev.erdp /\ hcev.erdp <= ev.deq
           /\ hcev.posted - hcev.enq >= EventCap
           /\ ev.taken = hcev.posted - hcev.enq - EventCap + ev.deq
  <2>1. ev.deq >= hcev.enq /\ hcev.posted - hcev.enq # 0 /\ ev.taken < hcev.posted
    BY <1>1, <1>3
  <2>2. evring[ev.deq].cycle # hcev.pcs
    BY <1>1, <2>1
  <2>3. HasEvent
    BY <1>3, <2>2 DEF HasEvent
  <2> QED BY <1>1, <1>3, <2>1, <2>3
<1> QED BY <1>2, <1>3 DEF EventsAbreast

\* What an event the controller posts changes for the driver.
NowPosted(e) ==
  /\ \A i \in EventSlots : i # hcev.enq => evring'[i] = evring[i]
  /\ evring'[hcev.enq].type = e.type /\ evring'[hcev.enq].ring = e.ring
  /\ evring'[hcev.enq].n = e.n /\ evring'[hcev.enq].ok = e.ok
  /\ hcev.enq \in EventSlots /\ hcev.enq \notin Untaken
  /\ Untaken' = Untaken \cup {hcev.enq}

\* The slot written is one the driver has taken, and the event its newest.
LEMMA PostKeeps ==
  ASSUME EventsSound, ev' = ev,
         NEW e, e.type \in {"none", "cmd", "xfer", "port"}, e.ring \in RingNames \cup {"none"},
         e.n \in Nat, e.ok \in BOOLEAN, PostEvent(e)
  PROVE  EventsSound' /\ NowPosted(e)
<1> DEFINE x == [cycle |-> hcev.pcs, type |-> e.type, ring |-> e.ring, n |-> e.n,
                 ok |-> e.ok, num |-> hcev.posted + 1]
<1>0. EventTypes /\ EventsWritten /\ EventsAbreast
  BY DEF EventsSound
<1>1. /\ EventCap \in Nat /\ EventCap > 0
      /\ hcev.enq \in Nat /\ hcev.enq < EventCap /\ hcev.enq \in EventSlots
      /\ hcev.erdp \in Nat /\ hcev.erdp < EventCap /\ hcev.erdp \in EventSlots
      /\ hcev.posted \in Nat /\ hcev.pcs \in BOOLEAN
      /\ ev.deq \in Nat /\ ev.deq < EventCap
      /\ ev.taken \in Nat /\ ev.ccs \in BOOLEAN
      /\ \A i \in EventSlots : /\ i \in Nat /\ i < EventCap
                               /\ evring[i].num \in Nat /\ evring[i].cycle \in BOOLEAN
  BY <1>0, EventFields
<1>2. x \in EventTrbs
  BY <1>1 DEF EventTrbs
<1>3. evring \in [EventSlots -> EventTrbs] /\ evring' = [evring EXCEPT ![hcev.enq] = x]
  BY <1>0 DEF EventTypes, PostEvent
<1>4. /\ evring' \in [EventSlots -> EventTrbs] /\ evring'[hcev.enq] = x
      /\ \A i \in EventSlots : i # hcev.enq => evring'[i] = evring[i]
  <2> HIDE DEF x
  <2> QED BY <1>1, <1>2, <1>3
<1>5. /\ x.type = e.type /\ x.ring = e.ring /\ x.n = e.n /\ x.ok = e.ok
      /\ x.num = hcev.posted + 1 /\ x.cycle = hcev.pcs
  OBVIOUS
<1> HIDE DEF x
<1>6. (hcev.enq + 1) % EventCap = IF hcev.enq + 1 = EventCap THEN 0 ELSE hcev.enq + 1
  BY <1>1
<1>7. /\ hcev' \in [enq : EventSlots, pcs : BOOLEAN, erdp : EventSlots, posted : Nat]
      /\ hcev'.enq = IF hcev.enq + 1 = EventCap THEN 0 ELSE hcev.enq + 1
      /\ hcev'.posted = hcev.posted + 1 /\ hcev'.erdp = hcev.erdp
      /\ hcev'.pcs = IF hcev.enq + 1 = EventCap THEN ~hcev.pcs ELSE hcev.pcs
  <2> DEFINE nx == (hcev.enq + 1) % EventCap
             fl == IF hcev.enq + 1 = EventCap THEN ~hcev.pcs ELSE hcev.pcs
  <2>1. hcev \in [enq : EventSlots, pcs : BOOLEAN, erdp : EventSlots, posted : Nat]
    BY <1>0 DEF EventTypes
  <2>2. hcev' = [hcev EXCEPT !.enq = nx, !.posted = hcev.posted + 1, !.pcs = fl]
    BY DEF PostEvent
  <2>3. nx \in EventSlots
    BY <1>1, <1>6 DEF EventSlots
  <2>4. fl \in BOOLEAN
    <3>1. (~hcev.pcs) \in BOOLEAN
      BY <1>1, Toggles
    <3> QED BY <1>1, <3>1
  <2>7. hcev.posted + 1 \in Nat
    BY <1>1
  <2>5. nx = IF hcev.enq + 1 = EventCap THEN 0 ELSE hcev.enq + 1
    BY <1>6
  <2> HIDE DEF nx, fl
  <2>6. /\ hcev' \in [enq : EventSlots, pcs : BOOLEAN, erdp : EventSlots, posted : Nat]
        /\ hcev'.enq = nx /\ hcev'.pcs = fl
        /\ hcev'.posted = hcev.posted + 1 /\ hcev'.erdp = hcev.erdp
    BY <2>1, <2>2, <2>3, <2>4, <2>7
  <2> QED BY <2>5, <2>6 DEF fl
<1>8. hcev'.erdp # hcev'.enq
  BY <1>6, <1>7 DEF PostEvent, EventRoom
<1>9. EventTypes'
  BY <1>0, <1>4, <1>7 DEF EventTypes
<1>10. /\ hcev.enq <= hcev.posted
       /\ \A i \in EventSlots :
            /\ i < hcev.enq => evring[i].cycle = hcev.pcs /\ evring[i].num = hcev.posted - hcev.enq + i + 1
            /\ i >= hcev.enq =>
                 /\ evring[i].cycle # hcev.pcs
                 /\ hcev.posted - hcev.enq = 0 => evring[i].num = 0
                 /\ hcev.posted - hcev.enq # 0 =>
                      /\ hcev.posted - hcev.enq >= EventCap
                      /\ evring[i].num = hcev.posted - hcev.enq - EventCap + i + 1
  BY <1>0 DEF EventsWritten
<1>11. EventsWritten'
  <2>1. CASE hcev.enq + 1 # EventCap
    <3>1. hcev'.enq = hcev.enq + 1 /\ hcev'.pcs = hcev.pcs /\ hcev'.posted - hcev'.enq = hcev.posted - hcev.enq
      BY <1>1, <1>7, <2>1
    <3>2. ASSUME NEW i \in EventSlots
          PROVE  /\ i < hcev'.enq => evring'[i].cycle = hcev'.pcs
                                     /\ evring'[i].num = hcev.posted - hcev.enq + i + 1
                 /\ i >= hcev'.enq =>
                      /\ evring'[i].cycle # hcev'.pcs
                      /\ hcev.posted - hcev.enq = 0 => evring'[i].num = 0
                      /\ hcev.posted - hcev.enq # 0 =>
                           /\ hcev.posted - hcev.enq >= EventCap
                           /\ evring'[i].num = hcev.posted - hcev.enq - EventCap + i + 1
      <4>1. CASE i = hcev.enq
        BY <1>1, <1>4, <1>5, <1>10, <3>1, <4>1
      <4>2. CASE i # hcev.enq
        <5>1. /\ evring'[i] = evring[i] /\ (i < hcev'.enq => i < hcev.enq)
              /\ (i >= hcev'.enq => i >= hcev.enq)
          BY <1>1, <1>4, <3>1, <4>2
        <5> QED BY <1>10, <3>1, <5>1
      <4> QED BY <4>1, <4>2
    <3> QED BY <1>1, <1>7, <1>10, <3>1, <3>2 DEF EventsWritten
  <2>2. CASE hcev.enq + 1 = EventCap
    <3>1. /\ hcev'.enq = 0 /\ hcev'.pcs # hcev.pcs /\ hcev'.pcs \in BOOLEAN
          /\ hcev'.posted - hcev'.enq = hcev.posted - hcev.enq + EventCap
          /\ hcev'.posted >= EventCap
      BY <1>1, <1>7, <1>10, <2>2
    <3>2. ASSUME NEW i \in EventSlots
          PROVE  /\ evring'[i].cycle = hcev.pcs
                 /\ evring'[i].num = hcev.posted - hcev.enq + i + 1
      <4>1. CASE i = hcev.enq
        BY <1>1, <1>4, <1>5, <1>10, <4>1
      <4>2. CASE i # hcev.enq
        <5>1. evring'[i] = evring[i] /\ i < hcev.enq
          BY <1>1, <1>4, <2>2, <4>2
        <5> QED BY <1>10, <5>1
      <4> QED BY <4>1, <4>2
    <3> QED BY <1>1, <1>7, <1>10, <3>1, <3>2 DEF EventsWritten
  <2> QED BY <2>1, <2>2
<1>12. hcev.enq \notin Untaken
  <2>1. evring[hcev.enq].num <= ev.taken
    BY <1>0, <1>1, <1>10 DEF EventsAbreast
  <2> QED BY <1>1, <2>1 DEF Untaken
<1>13. EventsAbreast'
  <2>1. CASE /\ ev.ccs = hcev.pcs /\ ev.deq <= hcev.enq
             /\ ev.taken = hcev.posted - hcev.enq + ev.deq
             /\ hcev.erdp <= ev.deq \/ hcev.erdp > hcev.enq
    <3>1. CASE hcev.enq + 1 # EventCap
      BY <1>1, <1>7, <1>8, <1>10, <2>1, <3>1 DEF EventsAbreast
    <3>2. CASE hcev.enq + 1 = EventCap
      <4>1. /\ hcev'.enq = 0 /\ hcev'.posted - hcev'.enq = hcev.posted - hcev.enq + EventCap
            /\ hcev'.erdp = hcev.erdp /\ 0 < hcev.erdp /\ hcev.erdp <= ev.deq
            /\ ev.ccs # hcev'.pcs
        BY <1>1, <1>7, <1>8, <1>10, <2>1, <3>2
      <4> QED BY <1>1, <1>7, <1>10, <2>1, <4>1 DEF EventsAbreast
    <3> QED BY <3>1, <3>2
  <2>2. CASE /\ ev.ccs # hcev.pcs /\ hcev.enq < hcev.erdp /\ hcev.erdp <= ev.deq
             /\ hcev.posted - hcev.enq >= EventCap
             /\ ev.taken = hcev.posted - hcev.enq - EventCap + ev.deq
    BY <1>1, <1>7, <1>8, <1>10, <2>2 DEF EventsAbreast
  <2> QED BY <1>0, <2>1, <2>2 DEF EventsAbreast
<1>14. Untaken' = Untaken \cup {hcev.enq}
  <2>1. evring'[hcev.enq].num > ev'.taken
    <3>1. ev.taken <= hcev.posted
      BY <1>0, TakesNext
    <3> QED BY <1>1, <1>4, <1>5, <3>1
  <2>2. ev'.taken = ev.taken /\ \A i \in EventSlots : i # hcev.enq => evring'[i].num = evring[i].num
    BY <1>4
  <2> QED BY <1>1, <2>1, <2>2 DEF Untaken
<1>15. NowPosted(e)
  BY <1>1, <1>4, <1>5, <1>12, <1>14 DEF NowPosted
<1> QED BY <1>9, <1>11, <1>13, <1>15 DEF EventsSound

\* ERDP stays or moves up to the driver's new index.
ErdpMoves ==
  /\ hcev' \in [enq : EventSlots, pcs : BOOLEAN, erdp : EventSlots, posted : Nat]
  /\ hcev'.enq = hcev.enq /\ hcev'.pcs = hcev.pcs /\ hcev'.posted = hcev.posted
  /\ hcev'.erdp = hcev.erdp \/ hcev'.erdp = ev'.deq

LEMMA ErdpIs ==
  ASSUME EventTypes, ev'.deq \in EventSlots, NEW d, d = ev'.deq,
         hcev' = hcev \/ hcev' = [hcev EXCEPT !.erdp = d]
  PROVE  ErdpMoves
<1>1. hcev \in [enq : EventSlots, pcs : BOOLEAN, erdp : EventSlots, posted : Nat]
  BY DEF EventTypes
<1> QED BY <1>1 DEF ErdpMoves

\* Taking the event that is there.
LEMMA TakeKeeps ==
  ASSUME EventsSound, HasEvent, ev' = Advanced, evring' = evring,
         hcev' = hcev \/ hcev' = [hcev EXCEPT !.erdp = Advanced.deq]
  PROVE  /\ EventsSound'
         /\ ev.deq \in Untaken
         /\ Untaken' \subseteq Untaken \ {ev.deq}
<1>0. EventTypes /\ EventsWritten /\ EventsAbreast
  BY DEF EventsSound
<1>1. /\ EventCap \in Nat /\ EventCap > 0
      /\ hcev.enq \in Nat /\ hcev.enq < EventCap
      /\ hcev.erdp \in Nat /\ hcev.erdp < EventCap
      /\ hcev.posted \in Nat /\ hcev.pcs \in BOOLEAN
      /\ ev.deq \in Nat /\ ev.deq < EventCap /\ ev.deq \in EventSlots
      /\ ev.taken \in Nat /\ ev.ccs \in BOOLEAN
      /\ \A i \in EventSlots : evring[i].num \in Nat /\ evring[i].cycle \in BOOLEAN
  BY <1>0, EventFields
<1>2. (ev.deq + 1) % EventCap = IF ev.deq + 1 = EventCap THEN 0 ELSE ev.deq + 1
  BY <1>1
<1>3. /\ ev'.deq = IF ev.deq + 1 = EventCap THEN 0 ELSE ev.deq + 1
      /\ ev'.ccs = IF ev.deq + 1 = EventCap THEN ~ev.ccs ELSE ev.ccs
      /\ ev'.taken = ev.taken + 1
      /\ ev' \in [deq : EventSlots, ccs : BOOLEAN, taken : Nat]
  <2> DEFINE nx == (ev.deq + 1) % EventCap
             fl == IF ev.deq + 1 = EventCap THEN ~ev.ccs ELSE ev.ccs
  <2>1. nx \in EventSlots
    BY <1>1, <1>2 DEF EventSlots
  <2>2. fl \in BOOLEAN
    <3>1. (~ev.ccs) \in BOOLEAN
      BY <1>1, Toggles
    <3> QED BY <1>1, <3>1
  <2>3. ev' = [deq |-> nx, ccs |-> fl, taken |-> ev.taken + 1]
    BY DEF Advanced
  <2>4. nx = IF ev.deq + 1 = EventCap THEN 0 ELSE ev.deq + 1
    BY <1>2
  <2> HIDE DEF nx, fl
  <2>5. /\ ev'.deq = nx /\ ev'.ccs = fl /\ ev'.taken = ev.taken + 1
        /\ ev' \in [deq : EventSlots, ccs : BOOLEAN, taken : Nat]
    BY <1>1, <2>1, <2>2, <2>3
  <2> QED BY <2>4, <2>5 DEF fl
<1>4. ErdpMoves
  BY <1>0, <1>3, ErdpIs
<1>5. EventTypes'
  BY <1>0, <1>3, <1>4 DEF EventTypes, ErdpMoves
<1>6. EventsWritten'
  <2>1. hcev'.enq = hcev.enq /\ hcev'.pcs = hcev.pcs /\ hcev'.posted = hcev.posted
    BY <1>4 DEF ErdpMoves
  <2> QED BY <1>0, <2>1 DEF EventsWritten
<1>7. evring[ev.deq].num = ev.taken + 1
  BY <1>0, TakesNext
<1>8. EventsAbreast'
  <2>0. /\ hcev'.enq = hcev.enq /\ hcev'.pcs = hcev.pcs /\ hcev'.posted = hcev.posted
        /\ hcev'.erdp = hcev.erdp \/ hcev'.erdp = ev'.deq
    BY <1>4 DEF ErdpMoves
  <2>1. CASE /\ ev.ccs = hcev.pcs /\ ev.deq <= hcev.enq
             /\ ev.taken = hcev.posted - hcev.enq + ev.deq
             /\ hcev.erdp <= ev.deq \/ hcev.erdp > hcev.enq
    <3>1. ev.deq < hcev.enq
      <4>1. ev.taken < hcev.posted
        BY <1>0, TakesNext
      <4> QED BY <1>1, <2>1, <4>1
    <3>2. ev'.deq = ev.deq + 1 /\ ev'.ccs = ev.ccs
      BY <1>1, <1>3, <3>1
    <3> QED BY <1>1, <1>3, <2>0, <2>1, <3>1, <3>2 DEF EventsAbreast
  <2>2. CASE /\ ev.ccs # hcev.pcs /\ hcev.enq < hcev.erdp /\ hcev.erdp <= ev.deq
             /\ hcev.posted - hcev.enq >= EventCap
             /\ ev.taken = hcev.posted - hcev.enq - EventCap + ev.deq
    <3>1. CASE ev.deq + 1 # EventCap
      <4>1. ev'.deq = ev.deq + 1 /\ ev'.ccs = ev.ccs
        BY <1>3, <3>1
      <4> QED BY <1>1, <1>3, <2>0, <2>2, <4>1 DEF EventsAbreast
    <3>2. CASE ev.deq + 1 = EventCap
      <4>1. ev'.deq = 0 /\ ev'.ccs = hcev.pcs
        <5>1. (~ev.ccs) = hcev.pcs
          BY <1>1, <2>2, Toggles
        <5> QED BY <1>3, <3>2, <5>1
      <4> QED BY <1>1, <1>3, <2>0, <2>2, <3>2, <4>1 DEF EventsAbreast
    <3> QED BY <3>1, <3>2
  <2> QED BY <1>0, <2>1, <2>2 DEF EventsAbreast
<1>9. ev.deq \in Untaken
  BY <1>1, <1>7 DEF Untaken
<1>10. Untaken' \subseteq Untaken \ {ev.deq}
  BY <1>1, <1>3, <1>7 DEF Untaken
<1> QED BY <1>5, <1>6, <1>8, <1>9, <1>10 DEF EventsSound

\* Taking all of them.
LEMMA DrainTakes ==
  ASSUME EventsSound, ev' = EventsDrained, evring' = evring,
         hcev' = [hcev EXCEPT !.erdp = EventsDrained.deq]
  PROVE  EventsSound' /\ Untaken' = {}
<1>0. EventTypes /\ EventsWritten /\ EventsAbreast
  BY DEF EventsSound
<1>1. /\ EventCap \in Nat /\ EventCap > 0
      /\ hcev.enq \in Nat /\ hcev.enq < EventCap /\ hcev.enq \in EventSlots
      /\ hcev.erdp \in Nat /\ hcev.erdp < EventCap
      /\ hcev.posted \in Nat /\ hcev.pcs \in BOOLEAN
      /\ ev.deq \in Nat /\ ev.deq < EventCap /\ ev.deq \in EventSlots
      /\ ev.taken \in Nat /\ ev.ccs \in BOOLEAN
      /\ \A i \in EventSlots : i \in Nat /\ i < EventCap
                               /\ evring[i].num \in Nat /\ evring[i].cycle \in BOOLEAN
  BY <1>0, EventFields
<1>2. hcev.enq <= hcev.posted
  BY <1>0 DEF EventsWritten
<1>3. \/ ev.deq + Pending = hcev.enq /\ ev.ccs = hcev.pcs
      \/ ev.deq + Pending = hcev.enq + EventCap /\ ev.ccs # hcev.pcs
  BY <1>0, <1>1, <1>2 DEF EventsAbreast, Pending
<1>4. (ev.deq + Pending) % EventCap = hcev.enq
  <2>1. hcev.enq % EventCap = hcev.enq /\ (hcev.enq + EventCap) % EventCap = hcev.enq
    BY <1>1
  <2> QED BY <1>3, <2>1
<1>5. (IF ev.deq + Pending >= EventCap THEN ~ev.ccs ELSE ev.ccs) = hcev.pcs
  <2>1. ev.ccs # hcev.pcs => (~ev.ccs) = hcev.pcs
    BY <1>1, Toggles
  <2> QED BY <1>1, <1>3, <2>1
<1>6. ev.taken + Pending = hcev.posted
  <2>1. ev.taken <= hcev.posted
    BY <1>0, TakesNext
  <2> QED BY <1>1, <2>1 DEF Pending
<1>7. ev' = [deq |-> hcev.enq, taken |-> hcev.posted, ccs |-> hcev.pcs]
  BY <1>4, <1>5, <1>6 DEF EventsDrained
<1>8. /\ ev'.deq = hcev.enq /\ ev'.taken = hcev.posted /\ ev'.ccs = hcev.pcs
      /\ ev' \in [deq : EventSlots, ccs : BOOLEAN, taken : Nat]
  BY <1>1, <1>7
<1>9. ErdpMoves /\ hcev'.erdp = hcev.enq
  <2>1. hcev \in [enq : EventSlots, pcs : BOOLEAN, erdp : EventSlots, posted : Nat]
    BY <1>0 DEF EventTypes
  <2>2. hcev' = [hcev EXCEPT !.erdp = hcev.enq]
    <3>1. EventsDrained.deq = hcev.enq
      BY <1>8
    <3> QED BY <3>1
  <2> QED BY <1>1, <1>8, <2>1, <2>2 DEF ErdpMoves
<1>10. EventTypes'
  BY <1>0, <1>8, <1>9 DEF EventTypes, ErdpMoves
<1>11. hcev'.enq = hcev.enq /\ hcev'.pcs = hcev.pcs /\ hcev'.posted = hcev.posted
  BY <1>9 DEF ErdpMoves
<1>12. EventsWritten'
  BY <1>0, <1>11 DEF EventsWritten
<1>13. EventsAbreast'
  BY <1>1, <1>2, <1>8, <1>9, <1>11 DEF EventsAbreast
<1>14. \A i \in EventSlots : evring[i].num <= hcev.posted
  <2>1. /\ \A i \in EventSlots :
            /\ i < hcev.enq => evring[i].num = hcev.posted - hcev.enq + i + 1
            /\ i >= hcev.enq =>
                 /\ hcev.posted - hcev.enq = 0 => evring[i].num = 0
                 /\ hcev.posted - hcev.enq # 0 => evring[i].num = hcev.posted - hcev.enq - EventCap + i + 1
    BY <1>0 DEF EventsWritten
  <2> QED BY <1>1, <1>2, <2>1
<1>15. Untaken' = {}
  BY <1>1, <1>8, <1>14 DEF Untaken
<1> QED BY <1>10, <1>12, <1>13, <1>15 DEF EventsSound

\* ERDP catches up with the driver.
LEMMA CatchUpKeeps ==
  ASSUME EventsSound, ev' = ev, evring' = evring, hcev' = [hcev EXCEPT !.erdp = ev.deq]
  PROVE  EventsSound' /\ Untaken' = Untaken
<1>0. EventTypes /\ EventsWritten /\ EventsAbreast
  BY DEF EventsSound
<1>1. /\ EventCap \in Nat /\ EventCap > 0
      /\ hcev.enq \in Nat /\ hcev.enq < EventCap
      /\ hcev.erdp \in Nat /\ hcev.erdp < EventCap
      /\ ev.deq \in Nat /\ ev.deq < EventCap /\ ev.deq \in EventSlots
  BY <1>0, EventFields
<1>2. ErdpMoves /\ hcev'.erdp = ev.deq
  <2>1. hcev \in [enq : EventSlots, pcs : BOOLEAN, erdp : EventSlots, posted : Nat]
    BY <1>0 DEF EventTypes
  <2> QED BY <1>1, <2>1 DEF ErdpMoves
<1>3. hcev'.enq = hcev.enq /\ hcev'.pcs = hcev.pcs /\ hcev'.posted = hcev.posted
  BY <1>2 DEF ErdpMoves
<1>4. EventTypes'
  BY <1>0, <1>2 DEF EventTypes, ErdpMoves
<1>5. EventsWritten'
  BY <1>0, <1>3 DEF EventsWritten
<1>6. EventsAbreast'
  BY <1>0, <1>1, <1>2, <1>3 DEF EventsAbreast
<1> QED BY <1>4, <1>5, <1>6 DEF EventsSound, Untaken

----------------------------------------------------------------------------
(* The USB keyboard: every step.                                           *)

StageNumbers == /\ ADDRESS = 2 /\ CONFIGURATION = 4 /\ SET_IDLE = 7 /\ PORT = 9 /\ READY = 10
                /\ DEAF = 11 /\ OFF = 12 /\ PANIC = 13 /\ START = 0 /\ RESET = 14 /\ RUN = 15

LEMMA StagesAre == StageNumbers
BY DEF StageNumbers, ADDRESS, CONFIGURATION, SET_IDLE, PORT, READY, DEAF, OFF, PANIC, START,
       RESET, RUN

\* What the controller's sides look like when that of r has moved.
HcMoved(r) ==
  /\ hc' \in [RingNames -> ConsumerSides]
  /\ \A s \in RingNames : s # r =>
       hc'[s].deq = hc[s].deq /\ hc'[s].ccs = hc[s].ccs /\ hc'[s].ran = hc[s].ran

\* Only bells and switches.
HcStays ==
  /\ hc' \in [RingNames -> ConsumerSides]
  /\ \A s \in RingNames :
       hc'[s].deq = hc[s].deq /\ hc'[s].ccs = hc[s].ccs /\ hc'[s].ran = hc[s].ran

LEMMA BellStays ==
  ASSUME hc \in [RingNames -> ConsumerSides], NEW r \in RingNames,
         hc' = [hc EXCEPT ![r].bell = TRUE]
  PROVE  HcStays
<1> DEFINE g == [hc[r] EXCEPT !.bell = TRUE]
<1>1. hc[r] \in ConsumerSides
  OBVIOUS
<1>2. g \in ConsumerSides /\ g.deq = hc[r].deq /\ g.ccs = hc[r].ccs /\ g.ran = hc[r].ran
  BY <1>1 DEF ConsumerSides
<1>3. hc' = [hc EXCEPT ![r] = g]
  OBVIOUS
<1> HIDE DEF g
<1> QED BY <1>2, <1>3 DEF HcStays

LEMMA SwitchStays ==
  ASSUME hc \in [RingNames -> ConsumerSides], NEW r \in RingNames,
         hc' = [hc EXCEPT ![r].on = TRUE]
  PROVE  HcStays
<1> DEFINE g == [hc[r] EXCEPT !.on = TRUE]
<1>1. hc[r] \in ConsumerSides
  OBVIOUS
<1>2. g \in ConsumerSides /\ g.deq = hc[r].deq /\ g.ccs = hc[r].ccs /\ g.ran = hc[r].ran
  BY <1>1 DEF ConsumerSides
<1>3. hc' = [hc EXCEPT ![r] = g]
  OBVIOUS
<1> HIDE DEF g
<1> QED BY <1>2, <1>3 DEF HcStays

\* Rings nobody touches stay in order.
LEMMA RingsKept ==
  ASSUME RingsSound, ring' = ring, HcStays
  PROVE  RingsSound'
<1> SUFFICES ASSUME NEW r \in RingNames PROVE RingSound(r)'
  BY DEF RingsSound, HcStays
<1>1. RingSound(r) /\ hc'[r] \in ConsumerSides
  BY DEF RingsSound, HcStays
<1>2. Abreast(ring[r], hc'[r])
  BY <1>1 DEF RingSound, HcStays, Abreast
<1> QED BY <1>1, <1>2 DEF RingSound

\* Answers settled, or expected, stay so while no further one appears.
LEMMA SettledKept ==
  ASSUME NEW r, NEW type, Settled(r, type), ring'[r].made = ring[r].made, hc'[r].ran = hc[r].ran,
         \A i \in Untaken' : (i \in Untaken /\ evring'[i] = evring[i]) \/ evring'[i].type # type
  PROVE  Settled(r, type)'
BY DEF Settled

LEMMA ExpectingKept ==
  ASSUME NEW r, NEW type, Expecting(r, type), ring'[r] = ring[r], hc'[r].ran = hc[r].ran,
         \A i \in Untaken' : (i \in Untaken /\ evring'[i] = evring[i]) \/ evring'[i].type # type
  PROVE  Expecting(r, type)'
BY DEF Expecting

\* Nothing happens to the three courses.
LEMMA CoursesKept ==
  ASSUME CmdCourse, Ep0Course, IntCourse, stage' = stage, waiting' = waiting, ring' = ring,
         \A r \in RingNames : hc'[r].ran = hc[r].ran,
         \A i \in Untaken' :
           \/ i \in Untaken /\ evring'[i] = evring[i]
           \/ evring'[i].type \notin {"cmd", "xfer"} /\ evring'[i].ring # "int"
  PROVE  CmdCourse' /\ Ep0Course' /\ IntCourse'
<1>1. AwaitsOn("cmd")' = AwaitsOn("cmd") /\ AwaitsOn("ep0")' = AwaitsOn("ep0")
  BY DEF AwaitsOn, InRequests
<1>2. "cmd" \in RingNames /\ "ep0" \in RingNames /\ "int" \in RingNames
  BY DEF RingNames
<1>3. Expecting("cmd", "cmd") => Expecting("cmd", "cmd")'
  BY <1>2, ExpectingKept
<1>4. Settled("cmd", "cmd") => Settled("cmd", "cmd")'
  BY <1>2, SettledKept
<1>5. Expecting("ep0", "xfer") => Expecting("ep0", "xfer")'
  BY <1>2, ExpectingKept
<1>6. Settled("ep0", "xfer") => Settled("ep0", "xfer")'
  BY <1>2, SettledKept
<1>7. CmdCourse'
  BY <1>1, <1>3, <1>4 DEF CmdCourse, Course
<1>8. Ep0Course'
  BY <1>1, <1>5, <1>6 DEF Ep0Course, Course
<1>9. IntCourse'
  BY <1>2 DEF IntCourse
<1> QED BY <1>7, <1>8, <1>9

\* Bring-up before the first request.
LEMMA BringUpKeeps ==
  ASSUME UsbInv, NEW works \in BOOLEAN,
         Discover(works) \/ ResetController(works) \/ ProgramAndRun(works)
  PROVE  UsbInv'
<1>0. /\ StageSound /\ RingsSound /\ EventsSound /\ CmdCourse /\ Ep0Course /\ IntCourse /\ AnswersMatch
  BY DEF UsbInv
<1> USE StagesAre DEF StageNumbers
<1>1. /\ ring' = ring /\ evring' = evring /\ ev' = ev /\ hcev' = hcev /\ answered' = answered
  BY DEF Discover, ResetController, ProgramAndRun
<1>2. stage \in {0, 14, 15} /\ ~waiting
  BY <1>0 DEF Discover, ResetController, ProgramAndRun, StageSound
<1>3. /\ stage' \in {14, 15, 12, 9, 1} /\ waiting' \in BOOLEAN /\ (waiting' => stage' = 9)
  <2>1. CASE Discover(works)
    BY <1>0, <1>2, <2>1 DEF Discover, StageSound
  <2>2. CASE ResetController(works)
    BY <1>0, <1>2, <2>2 DEF ResetController, StageSound
  <2>3. CASE ProgramAndRun(works)
    <3>1. \/ stage' = 9 /\ waiting' = TRUE
          \/ stage' \in {1, 12} /\ waiting' = FALSE
      BY <2>3 DEF ProgramAndRun
    <3>2. waiting' \in BOOLEAN
      BY <3>1, XhciAssumption
    <3>3. waiting' => stage' = 9
      BY <3>1
    <3> QED BY <3>1, <3>2, <3>3
  <2> QED BY <2>1, <2>2, <2>3
<1>4. HcStays
  <2>1. hc \in [RingNames -> ConsumerSides] /\ "cmd" \in RingNames
    BY <1>0 DEF RingsSound, RingNames
  <2>2. CASE hc' = hc
    BY <2>1, <2>2 DEF HcStays
  <2>3. CASE hc' = [hc EXCEPT !["cmd"].on = TRUE]
    BY <2>1, <2>3, SwitchStays
  <2> QED BY <2>2, <2>3 DEF Discover, ResetController, ProgramAndRun
<1>5. RingsSound'
  BY <1>0, <1>1, <1>4, RingsKept
<1>6. EventsSound' /\ Untaken' = Untaken
  BY <1>0, <1>1 DEF EventsSound, EventTypes, EventsWritten, EventsAbreast, Untaken
<1>7. StageSound'
  BY <1>3 DEF StageSound
<1>8. ~AwaitsOn("cmd") /\ ~AwaitsOn("ep0")
  BY <1>2 DEF AwaitsOn
<1>9. ~AwaitsOn("cmd")' /\ ~AwaitsOn("ep0")'
  BY <1>3, RequestIs DEF AwaitsOn, InRequests
<1>10. Settled("cmd", "cmd") /\ Settled("ep0", "xfer")
  BY <1>0, <1>2, <1>8 DEF CmdCourse, Ep0Course, Course
<1>11. "cmd" \in RingNames /\ "ep0" \in RingNames /\ "int" \in RingNames
  BY DEF RingNames
<1>12. \A r \in RingNames : hc'[r].ran = hc[r].ran
  BY <1>4 DEF HcStays
<1>13. Settled("cmd", "cmd")' /\ Settled("ep0", "xfer")'
  BY <1>1, <1>6, <1>10, <1>11, <1>12, SettledKept
<1>14. CmdCourse' /\ Ep0Course'
  BY <1>9, <1>13 DEF CmdCourse, Ep0Course, Course
<1>15. IntCourse'
  BY <1>0, <1>1, <1>2, <1>3, <1>6, <1>11, <1>12 DEF IntCourse
<1>16. AnswersMatch'
  BY <1>0, <1>1 DEF AnswersMatch
<1> QED BY <1>5, <1>6, <1>7, <1>14, <1>15, <1>16 DEF UsbInv

LEMMA EventsStill ==
  ASSUME EventsSound, evring' = evring, hcev' = hcev, ev' = ev
  PROVE  EventsSound' /\ Untaken' = Untaken
BY DEF EventsSound, EventTypes, EventsWritten, EventsAbreast, Untaken

\* A ring that was pushed to, the others as they were.
LEMMA RingReplaced ==
  ASSUME RingsSound, HcStays, NEW r \in RingNames, NEW P, NEW m,
         ring' = [ring EXCEPT ![r] = P], Issued(P, hc[r], KindsOf(r), m)
  PROVE  /\ RingsSound' /\ ring'[r] = P
         /\ \A s \in RingNames : s # r => ring'[s] = ring[s]
<1>1. ring \in [RingNames -> ProducerRings] /\ hc \in [RingNames -> ConsumerSides]
  BY DEF RingsSound
<1>2. /\ ring' \in [RingNames -> ProducerRings] /\ ring'[r] = P
      /\ \A s \in RingNames : s # r => ring'[s] = ring[s]
  BY <1>1 DEF Issued
<1>3. ASSUME NEW s \in RingNames PROVE RingSound(s)'
  <2>1. hc'[s] \in ConsumerSides /\ ring'[s] \in ProducerRings
    BY <1>2 DEF HcStays
  <2>2. hc'[s].deq = hc[s].deq /\ hc'[s].ccs = hc[s].ccs /\ hc'[s].ran = hc[s].ran
    BY DEF HcStays
  <2>3. CASE s = r
    <3>1. /\ RingWritten(P) /\ Abreast(P, hc[r]) /\ \A i \in DataSlots : P.trb[i].kind \in KindsOf(r)
      BY DEF Issued
    <3>2. Abreast(P, hc'[r])
      BY <2>2, <2>3, <3>1 DEF Abreast
    <3> QED BY <1>2, <2>1, <2>3, <3>1, <3>2 DEF RingSound
  <2>4. CASE s # r
    <3>1. RingSound(s) /\ ring'[s] = ring[s]
      BY <1>2, <2>4 DEF RingsSound
    <3>2. Abreast(ring[s], hc'[s])
      BY <2>2, <3>1 DEF RingSound, Abreast
    <3> QED BY <2>1, <3>1, <3>2 DEF RingSound
  <2> QED BY <2>3, <2>4
<1> QED BY <1>2, <1>3 DEF RingsSound, HcStays

LEMMA ThreeRings ==
  /\ "cmd" \in RingNames /\ "ep0" \in RingNames /\ "int" \in RingNames
  /\ \A s \in 1 .. 8 : /\ Request[s].ring \in {"cmd", "ep0"}
                       /\ Request[s].ring = "cmd" <=> s \in {1, 2, 8}
                       /\ Request[s].want = IF Request[s].ring = "cmd" THEN "cmd" ELSE "xfer"
<1>1. "cmd" \in RingNames /\ "ep0" \in RingNames /\ "int" \in RingNames
  BY DEF RingNames
<1>2. ASSUME NEW s \in 1 .. 8
      PROVE  /\ Request[s].ring \in {"cmd", "ep0"}
             /\ Request[s].ring = "cmd" <=> s \in {1, 2, 8}
             /\ Request[s].want = IF Request[s].ring = "cmd" THEN "cmd" ELSE "xfer"
  BY RequestIs
<1> QED BY <1>1, <1>2

\* Past enumeration no answer of the command or control ring is looked at.
LEMMA CoursesOver ==
  ASSUME stage' \in {OFF, PANIC, READY, DEAF}
  PROVE  CmdCourse' /\ Ep0Course'
BY StagesAre DEF StageNumbers, CmdCourse, Ep0Course

\* A request that is pushed is the only one of its ring.
LEMMA PushedExpects ==
  ASSUME NEW r, NEW type, Settled(r, type), Untaken' = Untaken, evring' = evring,
         hc'[r].ran = hc[r].ran,
         \A i \in DataSlots : ring'[r].trb[i].n > hc[r].ran /\ ring'[r].trb[i].kind \in Loud
                                => ring'[r].trb[i].n = ring'[r].made
  PROVE  Expecting(r, type)'
BY DEF Settled, Expecting

\* A request goes out.
LEMMA IssueKeeps ==
  ASSUME UsbInv, NEW frames \in BOOLEAN, Issue(frames)
  PROVE  UsbInv'
<1>0. /\ StageSound /\ RingsSound /\ EventsSound /\ CmdCourse /\ Ep0Course /\ IntCourse /\ AnswersMatch
  BY DEF UsbInv
<1> USE StagesAre DEF StageNumbers
<1>1. /\ evring' = evring /\ ev' = ev /\ hcev' = hcev /\ answered' = answered
      /\ stage \in 1 .. 8 /\ ~waiting
  BY RequestIs DEF Issue, InRequests
<1>2. EventsSound' /\ Untaken' = Untaken
  BY <1>0, <1>1, EventsStill
<1>3. AnswersMatch'
  BY <1>0, <1>1 DEF AnswersMatch
<1>4. CASE stage' \in {OFF, PANIC} /\ waiting' = waiting /\ ring' = ring /\ hc' = hc
  <2>1. RingsSound'
    BY <1>0, <1>4 DEF RingsSound, RingSound
  <2>2. StageSound'
    BY <1>0, <1>1, <1>4 DEF StageSound
  <2>3. IntCourse'
    BY <1>0, <1>1, <1>2, <1>4 DEF IntCourse
  <2> QED BY <1>2, <1>3, <1>4, <2>1, <2>2, <2>3, CoursesOver DEF UsbInv
<1>5. CASE /\ ring' = [ring EXCEPT ![Request[stage].ring] = PushAll(@, Request[stage].trbs)]
           /\ hc' = [hc EXCEPT ![Request[stage].ring].bell = TRUE]
           /\ waiting' = TRUE /\ stage' = stage
  <2>0. PICK r, type : r = Request[stage].ring /\ type = Request[stage].want
    OBVIOUS
  <2> DEFINE P == PushAll(ring[r], Request[stage].trbs)
  <2>1. r \in {"cmd", "ep0"} /\ r \in RingNames /\ (r = "cmd" <=> stage \in {1, 2, 8})
        /\ type = IF r = "cmd" THEN "cmd" ELSE "xfer"
    BY <1>1, <2>0, ThreeRings
  <2>2. HcStays
    BY <1>0, <1>5, <2>0, <2>1, BellStays DEF RingsSound
  <2>3. ~AwaitsOn("cmd") /\ ~AwaitsOn("ep0")
    BY <1>1 DEF AwaitsOn
  <2>4. /\ Settled("cmd", "cmd")
        /\ stage # 8 => Settled("ep0", "xfer")
    BY <1>0, <1>1, <2>3 DEF CmdCourse, Ep0Course, Course
  <2>5. Settled(r, type)
    BY <1>1, <2>1, <2>4
  <2>6. RingSound(r) /\ hc[r] \in ConsumerSides
    BY <1>0, <2>1 DEF RingsSound
  <2>7. Issued(ring[r], hc[r], KindsOf(r), 0)
    <3>1. ring[r].made = hc[r].ran + 0
      BY <2>5, <2>6 DEF Settled, ConsumerSides
    <3> QED BY <2>6, <3>1 DEF RingSound, Issued
  <2>8. PICK m \in 1 .. 3 :
            /\ Issued(P, hc[r], KindsOf(r), m)
            /\ \A i \in DataSlots :
                 P.trb[i].n > hc[r].ran /\ P.trb[i].kind \in Loud => P.trb[i].n = P.made
    <3>1. stage \in 1 .. 8 /\ hc[r] \in ConsumerSides /\ Issued(ring[r], hc[r], KindsOf(r), 0)
      BY <1>1, <2>6, <2>7
    <3> QED BY <2>0, <3>1, RequestPushed
  <2>9. ring' = [ring EXCEPT ![r] = P]
    BY <1>5, <2>0
  <2> HIDE DEF P
  <2>10. /\ RingsSound' /\ ring'[r] = P
         /\ \A s \in RingNames : s # r => ring'[s] = ring[s]
    BY <1>0, <2>1, <2>2, <2>8, <2>9, RingReplaced
  <2>11. \A s \in RingNames : hc'[s].ran = hc[s].ran
    BY <2>2 DEF HcStays
  <2>12. Expecting(r, type)'
    <3>1. /\ hc'[r].ran = hc[r].ran
          /\ \A i \in DataSlots : ring'[r].trb[i].n > hc[r].ran /\ ring'[r].trb[i].kind \in Loud
                                    => ring'[r].trb[i].n = ring'[r].made
      BY <2>1, <2>8, <2>10, <2>11
    <3>2. Expecting(r, type)'
      BY ONLY <1>1, <1>2, <2>5, <3>1, PushedExpects
    <3> QED BY <3>2
  <2>13. \A s : AwaitsOn(s)' <=> s = r
    BY <1>1, <1>5, <2>0, RequestIs DEF AwaitsOn, InRequests
  <2>14. CmdCourse'
    <3>1. CASE r = "cmd"
      BY <2>1, <2>12, <2>13, <3>1 DEF CmdCourse, Course
    <3>2. CASE r = "ep0"
      <4>1. Settled("cmd", "cmd")'
        BY <1>1, <1>2, <2>4, <2>10, <2>11, <3>2, SettledKept, ThreeRings
      <4> QED BY <2>13, <3>2, <4>1 DEF CmdCourse, Course
    <3> QED BY <2>1, <3>1, <3>2
  <2>15. Ep0Course'
    <3>1. CASE r = "cmd"
      <4>1. stage # 8 => Settled("ep0", "xfer")'
        BY <1>1, <1>2, <2>4, <2>10, <2>11, <3>1, SettledKept, ThreeRings
      <4> QED BY <1>1, <1>5, <2>13, <3>1, <4>1 DEF Ep0Course, Course
    <3>2. CASE r = "ep0"
      BY <2>1, <2>12, <2>13, <3>2 DEF Ep0Course, Course
    <3> QED BY <2>1, <3>1, <3>2
  <2>16. IntCourse'
    <3>1. ring'["int"] = ring["int"] /\ hc'["int"].ran = hc["int"].ran
      BY <2>1, <2>10, <2>11, ThreeRings
    <3> QED BY <1>0, <1>1, <1>2, <1>5, <3>1 DEF IntCourse
  <2>17. StageSound'
    BY <1>1, <1>5 DEF StageSound
  <2> QED BY <1>2, <1>3, <2>10, <2>14, <2>15, <2>16, <2>17 DEF UsbInv
<1> QED BY <1>1, <1>4, <1>5 DEF Issue

\* The wait ends; perhaps the first read is armed.
LEMMA ProceedKeeps ==
  ASSUME StageSound, RingsSound, IntCourse, waiting, evring' = evring, Untaken' \subseteq Untaken,
         NEW ok \in BOOLEAN, NEW endpoint \in BOOLEAN, NEW buffer \in BOOLEAN,
         Proceed(ok, endpoint, buffer)
  PROVE  /\ StageSound' /\ RingsSound' /\ IntCourse' /\ ~waiting'
         /\ ring'["cmd"] = ring["cmd"] /\ ring'["ep0"] = ring["ep0"]
         /\ \A r \in RingNames : hc'[r].ran = hc[r].ran
         /\ stage \in 1 .. 9
         /\ stage = 9 => stage' = 1
         /\ stage \in 1 .. 7 => stage' \in {OFF, stage + 1}
         /\ stage \in 1 .. 6 /\ ~ok => stage' = OFF
         /\ stage = 8 => stage' \in {OFF, READY, DEAF}
<1> USE StagesAre DEF StageNumbers
<1>1. stage \in 1 .. 9 /\ ~waiting'
  BY DEF StageSound, Proceed
<1>2. /\ stage = 9 => stage' = 1
      /\ stage \in 1 .. 7 => stage' \in {OFF, stage + 1}
      /\ stage \in 1 .. 6 /\ ~ok => stage' = OFF
      /\ stage = 8 => stage' \in {OFF, READY, DEAF}
  BY <1>1, RequestIs DEF Proceed, Following
<1>3. StageSound'
  <2>1. waiting' = FALSE
    BY DEF Proceed
  <2>2. stage' \in 0 .. 15
    BY <1>1, <1>2
  <2> QED BY <2>1, <2>2 DEF StageSound
<1>4. ring["int"].made = 0 /\ \A i \in Untaken' : evring'[i].ring # "int"
  BY <1>1 DEF IntCourse
<1>5. CASE stage' = READY
  <2> DEFINE P == Push(ring["int"], "normal")
  <2>1. ring' = [ring EXCEPT !["int"] = P] /\ hc' = [hc EXCEPT !["int"].bell = TRUE]
    BY <1>5 DEF Proceed, Arm
  <2>2. RingSound("int") /\ hc["int"] \in ConsumerSides /\ ring["int"] \in ProducerRings
    BY ThreeRings DEF RingsSound
  <2>3. hc["int"].ran = 0
    <3>1. /\ hc["int"].ran \in Nat /\ hc["int"].deq \in Nat /\ RingCap \in Nat /\ RingCap > 4
      BY <2>2, XhciAssumption DEF ConsumerSides
    <3>2. ring["int"].enqueue \in Nat /\ ring["int"].enqueue <= ring["int"].made
      BY <2>2, RingTypes DEF RingSound, RingWritten
    <3>3. ring["int"].enqueue = 0
      BY <1>4, <3>2
    <3>4. \/ hc["int"].deq <= 0 /\ hc["int"].ran = 0 - 0 + hc["int"].deq
          \/ 0 - 0 >= RingCap - 1
      BY <1>4, <2>2, <3>3 DEF RingSound, Abreast
    <3> QED BY <3>1, <3>4
  <2>4. Issued(ring["int"], hc["int"], KindsOf("int"), 0)
    BY <1>4, <2>2, <2>3 DEF RingSound, Issued
  <2>5. /\ KindsOf("int") \in SUBSET (TrbKinds \ {"link"}) /\ "normal" \in KindsOf("int")
        /\ 0 \in 0 .. 2
    BY DEF KindsOf, TrbKinds
  <2>6. Issued(P, hc["int"], KindsOf("int"), 0 + 1)
    BY <2>2, <2>4, <2>5, OnePush
  <2> HIDE DEF P
  <2>7. HcStays
    BY <2>1, ThreeRings, BellStays DEF RingsSound
  <2>8. RingsSound' /\ ring'["int"] = P /\ ring'["cmd"] = ring["cmd"] /\ ring'["ep0"] = ring["ep0"]
    <3>1. RingsSound' /\ ring'["int"] = P /\ \A s \in RingNames : s # "int" => ring'[s] = ring[s]
      BY <2>1, <2>6, <2>7, ThreeRings, RingReplaced
    <3> QED BY <3>1, ThreeRings
  <2>9. \A r \in RingNames : hc'[r].ran = hc[r].ran
    BY <2>7 DEF HcStays
  <2>10. IntCourse'
    <3>1. ring'["int"].made = 0 + 1 /\ hc'["int"].ran = 0
      BY <2>3, <2>6, <2>8, <2>9, ThreeRings DEF Issued
    <3> QED BY <1>4, <1>5, <3>1 DEF IntCourse
  <2> QED BY <1>1, <1>2, <1>3, <2>8, <2>9, <2>10
<1>6. CASE stage' # READY
  <2>1. ring' = ring /\ hc' = hc
    BY <1>6 DEF Proceed
  <2>2. RingsSound'
    BY <2>1 DEF RingsSound, RingSound
  <2>3. IntCourse'
    BY <1>4, <1>6, <2>1 DEF IntCourse
  <2> QED BY <1>1, <1>2, <1>3, <2>1, <2>2, <2>3
<1> QED BY <1>5, <1>6

\* The answer is taken: nothing more is on its way.
LEMMA AnswerTaken ==
  ASSUME NEW r, NEW type, Expecting(r, type), ev.deq \in Untaken, evring[ev.deq].type = type,
         evring' = evring, Untaken' \subseteq Untaken \ {ev.deq},
         ring'[r] = ring[r], hc'[r].ran = hc[r].ran
  PROVE  Settled(r, type)' /\ evring[ev.deq].n = ring[r].made
BY DEF Expecting, Settled

\* Not waiting, both rings settled.
LEMMA BothSettled ==
  ASSUME ~waiting', Settled("cmd", "cmd")', Settled("ep0", "xfer")'
  PROVE  CmdCourse' /\ Ep0Course'
BY DEF CmdCourse, Ep0Course, Course, AwaitsOn

\* poll_event finds an event.
LEMMA PollKeeps ==
  ASSUME UsbInv, NEW endpoint \in BOOLEAN, NEW buffer \in BOOLEAN, PollEvent(endpoint, buffer)
  PROVE  UsbInv'
<1>0. /\ StageSound /\ RingsSound /\ EventsSound /\ CmdCourse /\ Ep0Course /\ IntCourse /\ AnswersMatch
  BY DEF UsbInv
<1> USE StagesAre DEF StageNumbers
<1>1. waiting /\ HasEvent /\ ev' = Advanced /\ evring' = evring
  BY DEF PollEvent
<1>2. EventsSound' /\ ev.deq \in Untaken /\ Untaken' \subseteq Untaken \ {ev.deq}
  BY <1>0, <1>1, TakeKeeps DEF PollEvent
<1>3. CASE ~IsWanted(evring[ev.deq])
  <2>1. /\ stage' = stage /\ waiting' = waiting /\ ring' = ring /\ hc' = hc /\ answered' = answered
    BY <1>3 DEF PollEvent
  <2>2. CmdCourse' /\ Ep0Course' /\ IntCourse'
    <3>1. /\ \A r \in RingNames : hc'[r].ran = hc[r].ran
          /\ \A i \in Untaken' :
               \/ i \in Untaken /\ evring'[i] = evring[i]
               \/ evring'[i].type \notin {"cmd", "xfer"} /\ evring'[i].ring # "int"
      BY <1>1, <1>2, <2>1
    <3> QED BY ONLY <1>0, <2>1, <3>1, CoursesKept
  <2>3. StageSound' /\ RingsSound' /\ AnswersMatch'
    BY <1>0, <2>1 DEF StageSound, RingsSound, RingSound, AnswersMatch
  <2> QED BY <1>2, <2>2, <2>3 DEF UsbInv
<1>4. CASE IsWanted(evring[ev.deq])
  <2> DEFINE e == evring[ev.deq]
  <2>1. /\ Proceed(e.ok, endpoint, buffer) /\ e.ok \in BOOLEAN
        /\ answered' = IF stage = PORT THEN answered
                       ELSE [want |-> ring[Request[stage].ring].made, got |-> e.n]
    <3>1. evring[ev.deq] \in EventTrbs
      BY <1>0, EventFields DEF EventsSound
    <3>2. e.ok \in BOOLEAN
      BY <3>1 DEF EventTrbs
    <3> QED BY <1>4, <3>2 DEF PollEvent
  <2>2. e.type = Wanted
    BY <1>4 DEF IsWanted
  <2> HIDE DEF e
  <2>3. /\ StageSound' /\ RingsSound' /\ IntCourse' /\ ~waiting'
        /\ ring'["cmd"] = ring["cmd"] /\ ring'["ep0"] = ring["ep0"]
        /\ \A r \in RingNames : hc'[r].ran = hc[r].ran
        /\ stage \in 1 .. 9
        /\ stage = 9 => stage' = 1
        /\ stage \in 1 .. 7 => stage' \in {OFF, stage + 1}
        /\ stage = 8 => stage' \in {OFF, READY, DEAF}
    BY <1>0, <1>1, <1>2, <2>1, ProceedKeeps
  <2>4. CASE stage = 9
    <3>1. Settled("cmd", "cmd") /\ Settled("ep0", "xfer")
      BY <1>0, <2>4, RequestIs DEF CmdCourse, Ep0Course, Course, AwaitsOn, InRequests
    <3>2. Settled("cmd", "cmd")' /\ Settled("ep0", "xfer")'
      BY <1>1, <1>2, <2>3, <3>1, SettledKept, ThreeRings
    <3>3. answered' = answered
      BY <2>1, <2>4
    <3> QED BY <1>0, <1>2, <2>3, <3>2, <3>3, BothSettled DEF UsbInv, AnswersMatch
  <2>5. CASE stage \in 1 .. 8
    <3>1. PICK r, type : r = Request[stage].ring /\ type = Request[stage].want
      OBVIOUS
    <3>2. r \in {"cmd", "ep0"} /\ r \in RingNames /\ (r = "cmd" <=> stage \in {1, 2, 8})
          /\ type = (IF r = "cmd" THEN "cmd" ELSE "xfer") /\ e.type = type
      BY <2>2, <2>5, <3>1, ThreeRings DEF Wanted
    <3>3. \A s : AwaitsOn(s) <=> s = r
      BY <1>1, <2>5, <3>1, RequestIs DEF AwaitsOn, InRequests
    <3>4. Expecting(r, type)
      <4>1. CASE r = "cmd"
        BY <1>0, <2>5, <3>2, <3>3, <4>1 DEF CmdCourse, Course
      <4>2. CASE r = "ep0"
        BY <1>0, <2>5, <3>2, <3>3, <4>2 DEF Ep0Course, Course
      <4> QED BY <3>2, <4>1, <4>2
    <3>5. Settled(r, type)' /\ e.n = ring[r].made
      <4>1. ring'[r] = ring[r] /\ hc'[r].ran = hc[r].ran
        BY <2>3, <3>2
      <4> QED BY <1>1, <1>2, <3>2, <3>4, <4>1, AnswerTaken DEF e
    <3>6. AnswersMatch'
      BY <2>1, <2>5, <3>1, <3>5 DEF AnswersMatch
    <3>7. CmdCourse' /\ Ep0Course'
      <4>1. CASE stage = 8
        BY <2>3, <4>1, CoursesOver
      <4>2. CASE stage \in 1 .. 7 /\ r = "cmd"
        <5>1. Settled("ep0", "xfer")
          BY <1>0, <3>3, <4>2 DEF Ep0Course, Course
        <5>2. Settled("ep0", "xfer")'
          BY <1>1, <1>2, <2>3, <5>1, SettledKept, ThreeRings
        <5> QED BY <2>3, <3>2, <3>5, <4>2, <5>2, BothSettled
      <4>3. CASE stage \in 1 .. 7 /\ r = "ep0"
        <5>1. Settled("cmd", "cmd")
          BY <1>0, <3>3, <4>3 DEF CmdCourse, Course
        <5>2. Settled("cmd", "cmd")'
          BY <1>1, <1>2, <2>3, <5>1, SettledKept, ThreeRings
        <5> QED BY <2>3, <3>2, <3>5, <4>3, <5>2, BothSettled
      <4> QED BY <2>5, <3>2, <4>1, <4>2, <4>3
    <3> QED BY <1>2, <2>3, <3>6, <3>7 DEF UsbInv
  <2> QED BY <2>3, <2>4, <2>5
<1> QED BY <1>3, <1>4

\* A wait ends without its answer.
LEMMA GivenUpKeeps ==
  ASSUME StageSound, RingsSound, CmdCourse, Ep0Course, IntCourse, waiting, evring' = evring,
         Untaken' = Untaken, NEW buffer \in BOOLEAN, Proceed(FALSE, TRUE, buffer)
  PROVE  StageSound' /\ RingsSound' /\ IntCourse' /\ CmdCourse' /\ Ep0Course'
<1>0. /\ StageSound /\ RingsSound /\ CmdCourse /\ Ep0Course /\ IntCourse
  OBVIOUS
<1> USE StagesAre DEF StageNumbers
<1>1. /\ waiting /\ evring' = evring /\ Proceed(FALSE, TRUE, buffer)
  OBVIOUS
<1>2. Untaken' = Untaken
  OBVIOUS
<1>3. /\ StageSound' /\ RingsSound' /\ IntCourse' /\ ~waiting'
      /\ ring'["cmd"] = ring["cmd"] /\ ring'["ep0"] = ring["ep0"]
      /\ \A r \in RingNames : hc'[r].ran = hc[r].ran
      /\ stage \in 1 .. 9
      /\ stage = 9 => stage' = 1
      /\ stage \in 1 .. 7 => stage' \in {OFF, stage + 1}
      /\ stage \in 1 .. 6 /\ ~FALSE => stage' = OFF
      /\ stage = 8 => stage' \in {OFF, READY, DEAF}
  <2>1. FALSE \in BOOLEAN /\ TRUE \in BOOLEAN /\ Untaken' \subseteq Untaken
    BY <1>2
  <2> QED BY <1>0, <1>1, <2>1, ProceedKeeps
<1>5. CmdCourse' /\ Ep0Course'
  <2>1. CASE stage = 9
    <3>1. Settled("cmd", "cmd") /\ Settled("ep0", "xfer")
      BY <1>0, <2>1, RequestIs DEF CmdCourse, Ep0Course, Course, AwaitsOn, InRequests
    <3>2. Settled("cmd", "cmd")' /\ Settled("ep0", "xfer")'
      BY <1>1, <1>2, <1>3, <3>1, SettledKept, ThreeRings
    <3> QED BY <1>3, <3>2, BothSettled
  <2>2. CASE stage \in 1 .. 6 \/ stage = 8 \/ (stage = 7 /\ stage' = OFF)
    BY <1>3, <2>2, CoursesOver
  <2>3. CASE stage = 7 /\ stage' = 8
    <3>1. ~AwaitsOn("cmd") /\ 7 \in 1 .. 8
      BY <2>3, ThreeRings DEF AwaitsOn
    <3>2. Settled("cmd", "cmd")
      BY <1>0, <2>3, <3>1 DEF CmdCourse, Course
    <3>3. Settled("cmd", "cmd")'
      BY <1>1, <1>2, <1>3, <3>2, SettledKept, ThreeRings
    <3> QED BY <1>3, <2>3, <3>3 DEF CmdCourse, Ep0Course, Course, AwaitsOn
  <2> QED BY <1>3, <2>1, <2>2, <2>3
<1> QED BY <1>3, <1>5

\* poll_event gives up.
LEMMA SpinKeeps ==
  ASSUME UsbInv, NEW buffer \in BOOLEAN, SpinRunsOut(buffer)
  PROVE  UsbInv'
<1>0. /\ StageSound /\ RingsSound /\ EventsSound /\ CmdCourse /\ Ep0Course /\ IntCourse /\ AnswersMatch
  BY DEF UsbInv
<1> USE StagesAre DEF StageNumbers
<1>1. /\ waiting /\ ev' = ev /\ evring' = evring /\ answered' = answered
  BY DEF SpinRunsOut
<1>2. EventsSound' /\ Untaken' = Untaken
  BY <1>0, <1>1, CatchUpKeeps DEF SpinRunsOut
<1>4. AnswersMatch'
  BY <1>0, <1>1 DEF AnswersMatch
<1>5. CASE UNCHANGED <<stage, waiting, ring, hc>>
  <2>1. stage' = stage /\ waiting' = waiting /\ ring' = ring /\ hc' = hc
    BY <1>5
  <2>2. CmdCourse' /\ Ep0Course' /\ IntCourse'
    BY <1>0, <1>1, <1>2, <2>1, CoursesKept
  <2>3. StageSound' /\ RingsSound'
    BY <1>0, <2>1 DEF StageSound, RingsSound, RingSound
  <2> QED BY <1>2, <1>4, <2>2, <2>3 DEF UsbInv
<1>6. CASE Proceed(FALSE, TRUE, buffer)
  BY <1>0, <1>1, <1>2, <1>4, <1>6, GivenUpKeeps DEF UsbInv
<1> QED BY <1>5, <1>6 DEF SpinRunsOut

\* The controller moves along ring r.
LEMMA RingsMoved ==
  ASSUME RingsSound, ring' = ring, NEW r \in RingNames, HcMoved(r), Abreast(ring[r], hc'[r])
  PROVE  RingsSound'
<1> SUFFICES ASSUME NEW s \in RingNames PROVE RingSound(s)'
  BY DEF RingsSound, HcMoved
<1>1. RingSound(s) /\ hc'[s] \in ConsumerSides
  BY DEF RingsSound, HcMoved
<1>2. Abreast(ring[s], hc'[s])
  <2>1. CASE s = r
    BY <2>1
  <2>2. CASE s # r
    BY <1>1, <2>2 DEF RingSound, HcMoved, Abreast
  <2> QED BY <2>1, <2>2
<1> QED BY <1>1, <1>2 DEF RingSound

\* Past the link.
LEMMA FollowLinkKeeps ==
  ASSUME UsbInv, NEW r \in RingNames, FollowLink(r)
  PROVE  UsbInv'
<1>0. /\ StageSound /\ RingsSound /\ EventsSound /\ CmdCourse /\ Ep0Course /\ IntCourse /\ AnswersMatch
  BY DEF UsbInv
<1>1. /\ ring' = ring /\ evring' = evring /\ ev' = ev /\ hcev' = hcev /\ answered' = answered
      /\ stage' = stage /\ waiting' = waiting
  BY DEF FollowLink, driverVars
<1>2. EventsSound' /\ Untaken' = Untaken
  BY <1>0, <1>1, EventsStill
<1>3. /\ ring[r] \in ProducerRings /\ hc[r] \in ConsumerSides
      /\ RingWritten(ring[r]) /\ Abreast(ring[r], hc[r])
      /\ hc \in [RingNames -> ConsumerSides]
  BY <1>0 DEF RingsSound, RingSound
<1> DEFINE c == ~hc[r].ccs
           g == [hc[r] EXCEPT !.deq = 0, !.ccs = c]
<1>4. c \in BOOLEAN /\ c # hc[r].ccs
  BY <1>3, Toggles DEF ConsumerSides
<1>5. hc' = [hc EXCEPT ![r] = g]
  BY <1>3 DEF FollowLink
<1>5a. 0 \in 0 .. RingCap - 1
  BY XhciAssumption
<1> HIDE DEF c
<1>6. g \in ConsumerSides /\ g.deq = 0 /\ g.ccs = c /\ g.ran = hc[r].ran
  <2>1. hc[r] \in [deq : 0 .. RingCap - 1, ccs : BOOLEAN, ran : Nat, on : BOOLEAN, bell : BOOLEAN]
    BY <1>3 DEF ConsumerSides
  <2>2. /\ g \in [deq : 0 .. RingCap - 1, ccs : BOOLEAN, ran : Nat, on : BOOLEAN, bell : BOOLEAN]
        /\ g.deq = 0 /\ g.ccs = c /\ g.ran = hc[r].ran
    BY ONLY <1>4, <1>5a, <2>1
  <2> QED BY <2>2 DEF ConsumerSides
<1> HIDE DEF g
<1>7. hc' \in [RingNames -> ConsumerSides] /\ hc'[r] = g /\ \A s \in RingNames : s # r => hc'[s] = hc[s]
  BY <1>3, <1>5, <1>6
<1>8. HcMoved(r) /\ \A s \in RingNames : hc'[s].ran = hc[s].ran
  BY <1>6, <1>7 DEF HcMoved
<1>9. Abreast(ring[r], g)
  <2>1. ring[r].trb[hc[r].deq].cycle = hc[r].ccs /\ ring[r].trb[hc[r].deq].kind = "link"
    BY DEF FollowLink, NewTrb, Trb
  <2> QED BY <1>3, <1>4, <1>6, <2>1, FollowsLink
<1>10. RingsSound'
  BY <1>0, <1>1, <1>7, <1>8, <1>9, RingsMoved
<1>11. CmdCourse' /\ Ep0Course' /\ IntCourse'
  BY <1>0, <1>1, <1>2, <1>8, CoursesKept
<1>12. StageSound' /\ AnswersMatch'
  BY <1>0, <1>1 DEF StageSound, AnswersMatch
<1> QED BY <1>2, <1>10, <1>11, <1>12 DEF UsbInv

\* The controller's sides H after the TRB at its index on r.
RanNext(r, H) ==
  /\ H \in [RingNames -> ConsumerSides]
  /\ \A s \in RingNames : s # r =>
       H[s].deq = hc[s].deq /\ H[s].ccs = hc[s].ccs /\ H[s].ran = hc[s].ran
  /\ Abreast(ring[r], H[r]) /\ H[r].ran = hc[r].ran + 1 /\ hc[r].ran < ring[r].made
  /\ hc[r].ran \in Nat /\ ring[r].made \in Nat
  /\ hc[r].deq \in DataSlots /\ Trb(r).n = hc[r].ran + 1 /\ Trb(r).kind \in KindsOf(r)

LEMMA ConsumedIs ==
  ASSUME RingsSound, NEW r \in RingNames, NewTrb(r), Trb(r).kind # "link"
  PROVE  RanNext(r, Consumed(r))
<1>1. /\ ring[r] \in ProducerRings /\ hc[r] \in ConsumerSides
      /\ RingWritten(ring[r]) /\ Abreast(ring[r], hc[r])
      /\ hc \in [RingNames -> ConsumerSides]
      /\ \A i \in DataSlots : ring[r].trb[i].kind \in KindsOf(r)
  BY DEF RingsSound, RingSound
<1>2. ring[r].trb[hc[r].deq].cycle = hc[r].ccs /\ ring[r].trb[hc[r].deq].kind # "link"
  BY DEF NewTrb, Trb
<1>3. /\ hc[r].deq \in DataSlots /\ hc[r].deq + 1 \in 0 .. RingCap - 1
      /\ Trb(r).n = hc[r].ran + 1 /\ hc[r].ran < ring[r].made
      /\ \A g : g.deq = hc[r].deq + 1 /\ g.ccs = hc[r].ccs /\ g.ran = hc[r].ran + 1
                  => Abreast(ring[r], g)
  BY <1>1, <1>2, RunsNext DEF Trb
<1>4. hc[r].ran \in Nat /\ ring[r].made \in Nat
  BY <1>1 DEF ConsumerSides, ProducerRings
<1> DEFINE t == Trb(r).n
           g == [hc[r] EXCEPT !.deq = hc[r].deq + 1, !.ran = t]
           H == Consumed(r)
<1>5. H = [hc EXCEPT ![r] = g]
  BY <1>1 DEF Consumed
<1>6. t \in Nat /\ t = hc[r].ran + 1
  BY <1>3, <1>4
<1> HIDE DEF t
<1>7. g \in ConsumerSides /\ g.deq = hc[r].deq + 1 /\ g.ccs = hc[r].ccs /\ g.ran = t
  BY <1>1, <1>3, <1>6 DEF ConsumerSides
<1> HIDE DEF g, H
<1>8. H \in [RingNames -> ConsumerSides] /\ H[r] = g /\ \A s \in RingNames : s # r => H[s] = hc[s]
  BY <1>1, <1>5, <1>7
<1>9. Abreast(ring[r], g) /\ g.ran = hc[r].ran + 1
  BY <1>3, <1>6, <1>7
<1>10. Trb(r).kind \in KindsOf(r)
  BY <1>1, <1>3 DEF Trb
<1>11. RanNext(r, H)
  BY ONLY <1>3, <1>4, <1>8, <1>9, <1>10 DEF RanNext
<1> QED BY <1>11 DEF H

LEMMA RanMoves ==
  ASSUME RingsSound, ring' = ring, NEW r \in RingNames, RanNext(r, hc')
  PROVE  /\ RingsSound' /\ \A s \in RingNames : s # r => hc'[s].ran = hc[s].ran
<1>1. HcMoved(r) /\ Abreast(ring[r], hc'[r])
  BY DEF RanNext, HcMoved
<1> QED BY <1>1, RingsMoved DEF HcMoved

\* Endpoints are switched on and off.
LEMMA Switched ==
  ASSUME NEW r \in RingNames, NEW H, RanNext(r, H), NEW a \in BOOLEAN, NEW b \in BOOLEAN
  PROVE  RanNext(r, [H EXCEPT !["ep0"].on = a, !["int"].on = b])
<1> DEFINE p == [H["ep0"] EXCEPT !.on = a]
           q == [H["int"] EXCEPT !.on = b]
           G == [H EXCEPT !["ep0"].on = a, !["int"].on = b]
<1>1. /\ H \in [RingNames -> ConsumerSides] /\ H["ep0"] \in ConsumerSides
      /\ H["int"] \in ConsumerSides
  BY ThreeRings DEF RanNext
<1>2. /\ p \in ConsumerSides /\ p.deq = H["ep0"].deq /\ p.ccs = H["ep0"].ccs /\ p.ran = H["ep0"].ran
      /\ q \in ConsumerSides /\ q.deq = H["int"].deq /\ q.ccs = H["int"].ccs /\ q.ran = H["int"].ran
  BY <1>1 DEF ConsumerSides
<1>3. G = [[H EXCEPT !["ep0"] = p] EXCEPT !["int"] = q]
  BY <1>1, ThreeRings
<1> HIDE DEF p, q, G
<1>4. /\ G \in [RingNames -> ConsumerSides]
      /\ \A s \in RingNames : G[s].deq = H[s].deq /\ G[s].ccs = H[s].ccs /\ G[s].ran = H[s].ran
  BY <1>1, <1>2, <1>3
<1>5. Abreast(ring[r], G[r])
  BY <1>4 DEF RanNext, Abreast
<1>6. RanNext(r, G)
  BY <1>4, <1>5 DEF RanNext
<1> QED BY <1>6 DEF G

\* A stage that raises no event.
LEMMA RunQuietKeeps ==
  ASSUME UsbInv, NEW r \in RingNames, RunQuiet(r)
  PROVE  UsbInv'
<1>0. /\ StageSound /\ RingsSound /\ EventsSound /\ CmdCourse /\ Ep0Course /\ IntCourse /\ AnswersMatch
  BY DEF UsbInv
<1>1. /\ ring' = ring /\ evring' = evring /\ ev' = ev /\ hcev' = hcev /\ answered' = answered
      /\ stage' = stage /\ waiting' = waiting /\ hc' = Consumed(r)
      /\ NewTrb(r) /\ Trb(r).kind \in {"setup", "data"}
  BY DEF RunQuiet, driverVars
<1>2. EventsSound' /\ Untaken' = Untaken
  BY <1>0, <1>1, EventsStill
<1>3. RanNext(r, hc')
  BY <1>0, <1>1, ConsumedIs
<1>4. RingsSound' /\ \A s \in RingNames : s # r => hc'[s].ran = hc[s].ran
  BY <1>0, <1>1, <1>3, RanMoves
<1>5. r = "ep0"
  BY <1>1, <1>3 DEF RanNext, KindsOf, RingNames
<1>6. AwaitsOn("cmd")' = AwaitsOn("cmd") /\ AwaitsOn("ep0")' = AwaitsOn("ep0")
  BY <1>1 DEF AwaitsOn, InRequests
<1>7. CmdCourse'
  <2>1. Expecting("cmd", "cmd") => Expecting("cmd", "cmd")'
    BY <1>1, <1>2, <1>4, <1>5, ThreeRings, ExpectingKept
  <2>2. Settled("cmd", "cmd") => Settled("cmd", "cmd")'
    BY <1>1, <1>2, <1>4, <1>5, ThreeRings, SettledKept
  <2> QED BY <1>0, <1>1, <1>6, <2>1, <2>2 DEF CmdCourse, Course
<1>8. Ep0Course'
  <2>1. /\ hc["ep0"].ran \in Nat /\ ring["ep0"].made \in Nat /\ hc["ep0"].ran < ring["ep0"].made
        /\ hc'["ep0"].ran = hc["ep0"].ran + 1
    BY <1>3, <1>5 DEF RanNext
  <2>2. ~Settled("ep0", "xfer")
    BY <2>1 DEF Settled
  <2>3. \A i \in DataSlots : ring["ep0"].trb[i].n \in Nat
    BY <1>0, ThreeRings, RingTypes DEF RingsSound, RingSound
  <2>4. Expecting("ep0", "xfer") => Expecting("ep0", "xfer")'
    BY <1>1, <1>2, <2>1, <2>3 DEF Expecting
  <2> QED BY <1>0, <1>1, <1>6, <2>2, <2>4 DEF Ep0Course, Course
<1>9. IntCourse'
  BY <1>0, <1>1, <1>2, <1>4, <1>5, ThreeRings DEF IntCourse
<1>10. StageSound' /\ AnswersMatch'
  BY <1>0, <1>1 DEF StageSound, AnswersMatch
<1> QED BY <1>2, <1>4, <1>7, <1>8, <1>9, <1>10 DEF UsbInv

\* The answer to the request of ring r is posted.
LEMMA AnswerPosted ==
  ASSUME NEW r \in RingNames, NEW type, Expecting(r, type), RanNext(r, hc'), Trb(r).kind \in Loud,
         ring' = ring, NEW e, e.type = type, e.n = Trb(r).n, NowPosted(e),
         \A i \in DataSlots : ring[r].trb[i].n \in Nat
  PROVE  Expecting(r, type)'
<1>1. /\ hc[r].ran \in Nat /\ ring[r].made \in Nat /\ hc[r].ran < ring[r].made
      /\ hc'[r].ran = hc[r].ran + 1 /\ hc[r].deq \in DataSlots
      /\ ring[r].trb[hc[r].deq].n = hc[r].ran + 1 /\ ring[r].trb[hc[r].deq].kind \in Loud
      /\ e.n = hc[r].ran + 1
  BY DEF RanNext, Trb
<1>2. ring[r].trb[hc[r].deq].n = ring[r].made
  BY <1>1 DEF Expecting
<1>3. \A i \in Untaken : evring[i].type # type
  BY <1>1 DEF Expecting
<1>4. /\ \A i \in Untaken' : evring'[i].type = type => i = hcev.enq
      /\ evring'[hcev.enq].n = ring[r].made
  BY <1>1, <1>2, <1>3 DEF NowPosted, Untaken
<1>5. /\ \A i \in Untaken' : evring'[i].type = type =>
           evring'[i].n = ring'[r].made /\ hc'[r].ran = ring'[r].made
      /\ \A i, j \in Untaken' : evring'[i].type = type /\ evring'[j].type = type => i = j
  BY <1>1, <1>2, <1>4
<1>6. \A i \in DataSlots : ring'[r].trb[i].n > hc'[r].ran /\ ring'[r].trb[i].kind \in Loud
        => ring'[r].trb[i].n = ring'[r].made
  BY <1>1 DEF Expecting
<1> QED BY <1>5, <1>6 DEF Expecting

\* A command or the status stage of a control transfer.
LEMMA RunLoudKeeps ==
  ASSUME UsbInv, NEW r \in RingNames, NEW ok \in BOOLEAN, RunLoud(r, ok)
  PROVE  UsbInv'
<1>0. /\ StageSound /\ RingsSound /\ EventsSound /\ CmdCourse /\ Ep0Course /\ IntCourse /\ AnswersMatch
  BY DEF UsbInv
<1> DEFINE e == [type |-> IF r = "cmd" THEN "cmd" ELSE "xfer", ring |-> r,
                 n |-> Trb(r).n, ok |-> ok]
           a == IF Trb(r).kind = "address" THEN ok
                ELSE IF r = "ep0" THEN ok ELSE Consumed(r)["ep0"].on
           b == IF Trb(r).kind = "configure" THEN ok ELSE Consumed(r)["int"].on
<1>1. /\ ring' = ring /\ ev' = ev /\ answered' = answered /\ stage' = stage /\ waiting' = waiting
      /\ NewTrb(r) /\ Trb(r).kind \in Loud /\ PostEvent(e)
  BY DEF RunLoud, driverVars, Loud
<1>2. RanNext(r, Consumed(r))
  BY <1>0, <1>1, ConsumedIs DEF Loud
<1>3. RanNext(r, hc')
  <2>1. hc' = [Consumed(r) EXCEPT !["ep0"].on = a, !["int"].on = b]
    <3>1. Consumed(r) \in [RingNames -> ConsumerSides]
      BY <1>2 DEF RanNext
    <3> QED BY <3>1, ThreeRings DEF RunLoud
  <2>2. a \in BOOLEAN /\ b \in BOOLEAN
    <3>1. Consumed(r)["ep0"] \in ConsumerSides /\ Consumed(r)["int"] \in ConsumerSides
      BY <1>2, ThreeRings DEF RanNext
    <3>2. Consumed(r)["ep0"].on \in BOOLEAN /\ Consumed(r)["int"].on \in BOOLEAN
      BY <3>1 DEF ConsumerSides
    <3> QED BY <3>2
  <2> HIDE DEF a, b
  <2> QED BY <1>2, <2>1, <2>2, Switched
<1>4. RingsSound' /\ \A s \in RingNames : s # r => hc'[s].ran = hc[s].ran
  BY <1>0, <1>1, <1>3, RanMoves
<1>5. r \in {"cmd", "ep0"}
  BY <1>1, <1>2 DEF RanNext, KindsOf, RingNames, Loud
<1>6. /\ e.type = (IF r = "cmd" THEN "cmd" ELSE "xfer") /\ e.ring = r /\ e.n = Trb(r).n /\ e.ok = ok
      /\ e.n \in Nat
  BY <1>2 DEF RanNext
<1> HIDE DEF e, a, b
<1>7. EventsSound' /\ NowPosted(e)
  <2>1. e.type \in {"none", "cmd", "xfer", "port"} /\ e.ring \in RingNames \cup {"none"} /\ e.ok \in BOOLEAN
    BY <1>6
  <2> QED BY <1>0, <1>1, <1>6, <2>1, PostKeeps
<1>8. AwaitsOn("cmd")' = AwaitsOn("cmd") /\ AwaitsOn("ep0")' = AwaitsOn("ep0")
  BY <1>1 DEF AwaitsOn, InRequests
<1>9. /\ \A i \in DataSlots : ring[r].trb[i].n \in Nat
      /\ hc[r].ran \in Nat /\ ring[r].made \in Nat /\ hc[r].ran < ring[r].made
  BY <1>0, <1>3, RingTypes DEF RingsSound, RingSound, RanNext
<1>10. ASSUME NEW type, type # e.type
       PROVE  \A i \in Untaken' : (i \in Untaken /\ evring'[i] = evring[i]) \/ evring'[i].type # type
  BY <1>7, <1>10 DEF NowPosted, Untaken
<1>11. CmdCourse'
  <2>1. CASE r = "cmd"
    <3>1. ~Settled("cmd", "cmd")
      BY <1>9, <2>1 DEF Settled
    <3>2. Expecting("cmd", "cmd") => Expecting("cmd", "cmd")'
      BY <1>1, <1>3, <1>6, <1>7, <1>9, <2>1, AnswerPosted
    <3> QED BY <1>0, <1>1, <1>8, <3>1, <3>2 DEF CmdCourse, Course
  <2>2. CASE r = "ep0"
    <3>1. \A i \in Untaken' : (i \in Untaken /\ evring'[i] = evring[i]) \/ evring'[i].type # "cmd"
      BY <1>6, <1>10, <2>2
    <3>2. Expecting("cmd", "cmd") => Expecting("cmd", "cmd")'
      BY <1>1, <1>4, <2>2, <3>1, ThreeRings, ExpectingKept
    <3>3. Settled("cmd", "cmd") => Settled("cmd", "cmd")'
      BY <1>1, <1>4, <2>2, <3>1, ThreeRings, SettledKept
    <3> QED BY <1>0, <1>1, <1>8, <3>2, <3>3 DEF CmdCourse, Course
  <2> QED BY <1>5, <2>1, <2>2
<1>12. Ep0Course'
  <2>1. CASE r = "ep0"
    <3>1. ~Settled("ep0", "xfer")
      BY <1>9, <2>1 DEF Settled
    <3>2. Expecting("ep0", "xfer") => Expecting("ep0", "xfer")'
      BY <1>1, <1>3, <1>6, <1>7, <1>9, <2>1, AnswerPosted
    <3> QED BY <1>0, <1>1, <1>8, <3>1, <3>2 DEF Ep0Course, Course
  <2>2. CASE r = "cmd"
    <3>1. \A i \in Untaken' : (i \in Untaken /\ evring'[i] = evring[i]) \/ evring'[i].type # "xfer"
      BY <1>6, <1>10, <2>2
    <3>2. Expecting("ep0", "xfer") => Expecting("ep0", "xfer")'
      BY <1>1, <1>4, <2>2, <3>1, ThreeRings, ExpectingKept
    <3>3. Settled("ep0", "xfer") => Settled("ep0", "xfer")'
      BY <1>1, <1>4, <2>2, <3>1, ThreeRings, SettledKept
    <3> QED BY <1>0, <1>1, <1>8, <3>2, <3>3 DEF Ep0Course, Course
  <2> QED BY <1>5, <2>1, <2>2
<1>13. IntCourse'
  <2>1. \A i \in Untaken' : evring'[i].ring = "int" => i \in Untaken /\ evring'[i] = evring[i]
    BY <1>5, <1>6, <1>7 DEF NowPosted, Untaken
  <2>2. hc'["int"].ran = hc["int"].ran
    BY <1>4, <1>5, ThreeRings
  <2> QED BY <1>0, <1>1, <2>1, <2>2 DEF IntCourse
<1>14. StageSound' /\ AnswersMatch'
  BY <1>0, <1>1 DEF StageSound, AnswersMatch
<1> QED BY <1>4, <1>7, <1>11, <1>12, <1>13, <1>14 DEF UsbInv

\* An armed read completes.
LEMMA RunReportKeeps ==
  ASSUME UsbInv, RunReport
  PROVE  UsbInv'
<1>0. /\ StageSound /\ RingsSound /\ EventsSound /\ CmdCourse /\ Ep0Course /\ IntCourse /\ AnswersMatch
  BY DEF UsbInv
<1> DEFINE e == [type |-> "xfer", ring |-> "int", n |-> Trb("int").n, ok |-> TRUE]
<1>1. /\ ring' = ring /\ ev' = ev /\ answered' = answered /\ stage' = stage /\ waiting' = waiting
      /\ NewTrb("int") /\ Trb("int").kind = "normal" /\ PostEvent(e) /\ hc' = Consumed("int")
  BY DEF RunReport, driverVars
<1>2. RanNext("int", hc')
  BY <1>0, <1>1, ConsumedIs, ThreeRings
<1>3. RingsSound'
  BY <1>0, <1>1, <1>2, RanMoves, ThreeRings
<1>4. e.type = "xfer" /\ e.ring = "int" /\ e.n \in Nat /\ e.ok \in BOOLEAN
  BY <1>2 DEF RanNext
<1> HIDE DEF e
<1>5. EventsSound' /\ NowPosted(e)
  <2>1. e.type \in {"none", "cmd", "xfer", "port"} /\ e.ring \in RingNames \cup {"none"}
    BY <1>4, ThreeRings
  <2> QED BY <1>0, <1>1, <1>4, <2>1, PostKeeps
<1>6. /\ hc["int"].ran \in Nat /\ ring["int"].made \in Nat /\ hc["int"].ran < ring["int"].made
      /\ hc'["int"].ran = hc["int"].ran + 1
  BY <1>2 DEF RanNext
<1>7. stage = READY /\ hc'["int"].ran = ring["int"].made
  BY <1>0, <1>6 DEF IntCourse
<1>8. IntCourse'
  BY <1>1, <1>6, <1>7 DEF IntCourse
<1>9. CmdCourse' /\ Ep0Course'
  BY <1>1, <1>7, CoursesOver
<1>10. StageSound' /\ AnswersMatch'
  BY <1>0, <1>1 DEF StageSound, AnswersMatch
<1> QED BY <1>3, <1>5, <1>8, <1>9, <1>10 DEF UsbInv

\* A port changes.
LEMMA PortKeeps ==
  ASSUME UsbInv, NEW p \in Nat, PortChange(p), UNCHANGED <<driverVars, hc>>
  PROVE  UsbInv'
<1>0. /\ StageSound /\ RingsSound /\ EventsSound /\ CmdCourse /\ Ep0Course /\ IntCourse /\ AnswersMatch
  BY DEF UsbInv
<1> DEFINE e == [type |-> "port", ring |-> "none", n |-> p, ok |-> TRUE]
<1>1. /\ ring' = ring /\ ev' = ev /\ answered' = answered /\ stage' = stage /\ waiting' = waiting
      /\ hc' = hc /\ PostEvent(e)
  BY DEF PortChange, driverVars
<1>2. e.type = "port" /\ e.ring = "none" /\ e.n \in Nat /\ e.ok \in BOOLEAN
  OBVIOUS
<1> HIDE DEF e
<1>3. EventsSound' /\ NowPosted(e)
  <2>1. e.type \in {"none", "cmd", "xfer", "port"} /\ e.ring \in RingNames \cup {"none"}
    BY <1>2
  <2> QED BY <1>0, <1>1, <1>2, <2>1, PostKeeps
<1>4. \A i \in Untaken' :
        \/ i \in Untaken /\ evring'[i] = evring[i]
        \/ evring'[i].type \notin {"cmd", "xfer"} /\ evring'[i].ring # "int"
  BY <1>2, <1>3 DEF NowPosted, Untaken
<1>5. CmdCourse' /\ Ep0Course' /\ IntCourse'
  BY <1>0, <1>1, <1>4, CoursesKept
<1>6. StageSound' /\ AnswersMatch' /\ RingsSound'
  BY <1>0, <1>1 DEF StageSound, AnswersMatch, RingsSound, RingSound
<1> QED BY <1>3, <1>5, <1>6 DEF UsbInv

\* Keys and ticks.
LEMMA StillKeeps ==
  ASSUME UsbInv, UNCHANGED <<driverVars, hc, evring, hcev>>
  PROVE  UsbInv'
<1>0. /\ StageSound /\ RingsSound /\ EventsSound /\ CmdCourse /\ Ep0Course /\ IntCourse /\ AnswersMatch
  BY DEF UsbInv
<1>1. /\ ring' = ring /\ ev' = ev /\ answered' = answered /\ stage' = stage /\ waiting' = waiting
      /\ hc' = hc /\ evring' = evring /\ hcev' = hcev
  BY DEF driverVars
<1>2. EventsSound' /\ Untaken' = Untaken
  BY <1>0, <1>1, EventsStill
<1>3. CmdCourse' /\ Ep0Course' /\ IntCourse'
  BY <1>0, <1>1, <1>2, CoursesKept
<1>4. StageSound' /\ AnswersMatch' /\ RingsSound'
  BY <1>0, <1>1 DEF StageSound, AnswersMatch, RingsSound, RingSound
<1> QED BY <1>2, <1>3, <1>4 DEF UsbInv

\* What poll_keyboard looks at has not been taken.
LEMMA PendingUntaken ==
  ASSUME EventsSound, NEW i \in 0 .. Pending - 1
  PROVE  (ev.deq + i) % EventCap \in Untaken
<1>0. EventTypes /\ EventsWritten /\ EventsAbreast
  BY DEF EventsSound
<1>1. /\ EventCap \in Nat /\ EventCap > 0
      /\ hcev.enq \in Nat /\ hcev.enq < EventCap
      /\ hcev.erdp \in Nat /\ hcev.erdp < EventCap
      /\ hcev.posted \in Nat
      /\ ev.deq \in Nat /\ ev.deq < EventCap
      /\ ev.taken \in Nat
      /\ \A k \in EventSlots : k \in Nat /\ k < EventCap /\ evring[k].num \in Nat
  BY <1>0, EventFields
<1>2. /\ hcev.enq <= hcev.posted /\ ev.taken <= hcev.posted
  BY <1>0, TakesNext DEF EventsWritten
<1>3. i \in Nat /\ i < hcev.posted - ev.taken
  BY <1>1, <1>2 DEF Pending
<1>4. PICK base \in Nat : base = hcev.posted - hcev.enq
  BY <1>1, <1>2
<1>5. \/ ev.deq <= hcev.enq /\ ev.taken = base + ev.deq
      \/ /\ hcev.enq < ev.deq /\ base >= EventCap /\ ev.taken = base - EventCap + ev.deq
  BY <1>0, <1>1, <1>4 DEF EventsAbreast
<1>6. \A k \in EventSlots :
        /\ k < hcev.enq => evring[k].num = base + k + 1
        /\ k >= hcev.enq /\ base # 0 => evring[k].num = base - EventCap + k + 1
  BY <1>0, <1>4 DEF EventsWritten
<1>7. CASE ev.deq + i < EventCap
  <2>1. (ev.deq + i) % EventCap = ev.deq + i /\ ev.deq + i \in EventSlots
    BY <1>1, <1>3, <1>7 DEF EventSlots
  <2>2. evring[ev.deq + i].num > ev.taken
    BY <1>1, <1>3, <1>4, <1>5, <1>6, <2>1
  <2> QED BY <2>1, <2>2 DEF Untaken
<1>8. CASE ev.deq + i >= EventCap
  <2>1. hcev.enq < ev.deq /\ base >= EventCap /\ ev.taken = base - EventCap + ev.deq
    BY <1>1, <1>3, <1>4, <1>5, <1>8
  <2>2. PICK k \in Nat : ev.deq + i = k + EventCap
    <3>1. /\ (ev.deq + i) - EventCap \in Nat
          /\ ev.deq + i = ((ev.deq + i) - EventCap) + EventCap
      BY <1>1, <1>3, <1>8
    <3> QED BY <3>1
  <2>3. k < hcev.enq
    BY <1>1, <1>3, <1>4, <2>1, <2>2
  <2>4. (k + EventCap) % EventCap = k /\ k \in EventSlots
    BY <1>1, <2>3 DEF EventSlots
  <2>5. evring[k].num > ev.taken
    BY <1>1, <1>4, <1>6, <2>1, <2>3, <2>4
  <2> QED BY <2>2, <2>4, <2>5 DEF Untaken
<1> QED BY <1>1, <1>3, <1>7, <1>8

\* poll_keyboard.
LEMMA ReaderKeeps ==
  ASSUME UsbInv, ReaderParks
  PROVE  UsbInv'
<1>0. /\ StageSound /\ RingsSound /\ EventsSound /\ CmdCourse /\ Ep0Course /\ IntCourse /\ AnswersMatch
  BY DEF UsbInv
<1>1. /\ stage = READY /\ stage' = stage /\ waiting' = waiting /\ evring' = evring
      /\ answered' = answered /\ ev' = EventsDrained
      /\ hcev' = [hcev EXCEPT !.erdp = EventsDrained.deq]
  BY DEF ReaderParks
<1>2. EventsSound' /\ Untaken' = {}
  BY <1>0, <1>1, DrainTakes
<1>3. StageSound' /\ AnswersMatch' /\ CmdCourse' /\ Ep0Course'
  BY <1>0, <1>1, CoursesOver DEF StageSound, AnswersMatch
<1>4. CASE ~GotReport
  <2>1. ring' = ring /\ hc' = hc
    BY <1>4 DEF ReaderParks
  <2>2. RingsSound' /\ IntCourse'
    BY <1>0, <1>1, <1>2, <2>1 DEF RingsSound, RingSound, IntCourse
  <2> QED BY <1>2, <1>3, <2>2 DEF UsbInv
<1>5. CASE GotReport
  <2> DEFINE P == Push(ring["int"], "normal")
  <2>1. ring' = [ring EXCEPT !["int"] = P] /\ hc' = [hc EXCEPT !["int"].bell = TRUE]
    BY <1>5 DEF ReaderParks, Rearm, Arm
  <2>2. RingSound("int") /\ hc["int"] \in ConsumerSides
    BY <1>0, ThreeRings DEF RingsSound
  <2>3. hc["int"].ran = ring["int"].made
    <3>1. PICK i \in 0 .. Pending - 1 : evring[(ev.deq + i) % EventCap].ring = "int"
      BY <1>5 DEF GotReport
    <3>2. (ev.deq + i) % EventCap \in Untaken
      BY <1>0, PendingUntaken
    <3> QED BY <1>0, <3>1, <3>2 DEF IntCourse
  <2>4. Issued(ring["int"], hc["int"], KindsOf("int"), 0)
    BY <2>2, <2>3 DEF RingSound, Issued, ConsumerSides
  <2>5. /\ KindsOf("int") \in SUBSET (TrbKinds \ {"link"}) /\ "normal" \in KindsOf("int")
        /\ 0 \in 0 .. 2
    BY DEF KindsOf, TrbKinds
  <2>6. Issued(P, hc["int"], KindsOf("int"), 0 + 1)
    BY <2>2, <2>4, <2>5, OnePush
  <2> HIDE DEF P
  <2>7. HcStays
    BY <1>0, <2>1, ThreeRings, BellStays DEF RingsSound
  <2>8. RingsSound' /\ ring'["int"] = P
    BY <1>0, <2>1, <2>6, <2>7, ThreeRings, RingReplaced
  <2>9. IntCourse'
    <3>1. ring'["int"].made = hc'["int"].ran + 1 /\ hc'["int"].ran \in Nat
      BY <2>2, <2>6, <2>7, <2>8, ThreeRings DEF Issued, HcStays, ConsumerSides
    <3> QED BY <1>1, <1>2, <3>1 DEF IntCourse
  <2> QED BY <1>2, <1>3, <2>8, <2>9 DEF UsbInv
<1> QED BY <1>4, <1>5

LEMMA UsbStarts ==
  ASSUME UsbInit
  PROVE  UsbInv
<1> USE StagesAre DEF StageNumbers
<1>1. /\ stage = 0 /\ waiting = FALSE /\ answered = [want |-> 0, got |-> 0]
      /\ ring = [r \in RingNames |-> NewRing]
      /\ hc = [r \in RingNames |-> [deq |-> 0, ccs |-> TRUE, ran |-> 0, on |-> FALSE,
                                    bell |-> FALSE]]
      /\ evring = [i \in 0 .. EventCap - 1 |->
                     [cycle |-> FALSE, type |-> "none", ring |-> "none", n |-> 0, ok |-> FALSE,
                      num |-> 0]]
      /\ hcev = [enq |-> 0, pcs |-> TRUE, erdp |-> 0, posted |-> 0]
      /\ ev = [deq |-> 0, ccs |-> TRUE, taken |-> 0]
  BY DEF UsbInit
<1>2. RingCap \in Nat /\ RingCap > 4 /\ EventCap \in Nat /\ EventCap > 0
  BY XhciAssumption
<1> DEFINE h == [deq |-> 0, ccs |-> TRUE, ran |-> 0, on |-> FALSE, bell |-> FALSE]
<1>3. /\ NewRing \in ProducerRings /\ NewRing.made = 0 /\ NewRing.enqueue = 0 /\ NewRing.pcs = TRUE
      /\ NewRing.trb[RingCap - 1].kind = "link" /\ NewRing.trb[RingCap - 1].cycle = FALSE
      /\ \A i \in DataSlots : /\ NewRing.trb[i].kind = "none" /\ NewRing.trb[i].n = 0
                              /\ NewRing.trb[i].cycle = FALSE
  <2> DEFINE lk == [NoTrb EXCEPT !.kind = "link"]
             mem == [i \in 0 .. RingCap - 1 |-> IF i = RingCap - 1 THEN lk ELSE NoTrb]
  <2>1. /\ NoTrb \in Trbs /\ lk \in Trbs /\ lk.kind = "link" /\ lk.cycle = FALSE
        /\ NoTrb.kind = "none" /\ NoTrb.n = 0 /\ NoTrb.cycle = FALSE
    BY DEF NoTrb, Trbs, TrbKinds
  <2>2. NewRing = [trb |-> mem, enqueue |-> 0, pcs |-> TRUE, made |-> 0]
    BY DEF NewRing
  <2> HIDE DEF lk
  <2>3. mem \in [0 .. RingCap - 1 -> Trbs]
    BY <2>1
  <2>4. /\ mem[RingCap - 1] = lk /\ \A i \in DataSlots : mem[i] = NoTrb
        /\ 0 \in DataSlots
    BY <1>2 DEF DataSlots
  <2> HIDE DEF mem
  <2> QED BY <2>1, <2>2, <2>3, <2>4 DEF ProducerRings
<1>4. h \in ConsumerSides /\ h.deq = 0 /\ h.ccs = TRUE /\ h.ran = 0
  BY <1>2 DEF ConsumerSides
<1>5. \A r \in RingNames : ring[r] = NewRing /\ hc[r] = h
  BY <1>1
<1>6. RingsSound
  <2>1. ring \in [RingNames -> ProducerRings] /\ hc \in [RingNames -> ConsumerSides]
    BY <1>1, <1>3, <1>4
  <2>2. RingWritten(NewRing)
    BY <1>2, <1>3 DEF RingWritten, DataSlots
  <2> HIDE DEF h
  <2>3. Abreast(NewRing, h)
    <3>1. h.ccs = NewRing.pcs
      BY <1>3, <1>4
    <3>2. h.deq <= NewRing.enqueue /\ h.ran = NewRing.made - NewRing.enqueue + h.deq
      BY <1>3, <1>4
    <3> QED BY <3>1, <3>2 DEF Abreast
  <2>4. \A r \in RingNames : "none" \in KindsOf(r)
    BY DEF KindsOf
  <2> QED BY <1>3, <1>4, <1>5, <2>1, <2>2, <2>3, <2>4 DEF RingsSound, RingSound
<1>7. /\ \A i \in EventSlots : evring[i].num = 0 /\ evring[i].cycle = FALSE
      /\ hcev.enq = 0 /\ hcev.pcs = TRUE /\ hcev.erdp = 0 /\ hcev.posted = 0
      /\ ev.deq = 0 /\ ev.ccs = TRUE /\ ev.taken = 0
  BY <1>1 DEF EventSlots
<1>8. EventTypes
  <2>1. 0 \in EventSlots
    BY <1>2 DEF EventSlots
  <2>2. evring \in [EventSlots -> EventTrbs]
    BY <1>1 DEF EventSlots, EventTrbs
  <2> QED BY <1>1, <2>1, <2>2 DEF EventTypes
<1>9. EventsWritten /\ EventsAbreast
  <2>1. /\ hcev.enq <= hcev.posted /\ hcev.posted - hcev.enq = 0 /\ ev.deq <= hcev.enq
        /\ ev.taken = hcev.posted - hcev.enq + ev.deq /\ hcev.erdp <= ev.deq
        /\ \A i \in EventSlots : ~(i < hcev.enq) /\ evring[i].num = 0
    BY <1>2, <1>7 DEF EventSlots
  <2>2. ev.ccs = hcev.pcs /\ \A i \in EventSlots : evring[i].cycle # hcev.pcs
    BY <1>7
  <2>3. EventsWritten
    BY <2>1, <2>2 DEF EventsWritten
  <2>4. EventsAbreast
    BY <2>1, <2>2 DEF EventsAbreast
  <2> QED BY <2>3, <2>4
<1>10. Untaken = {}
  BY <1>7 DEF Untaken
<1>11. \A r \in RingNames : hc[r].ran = 0 /\ ring[r].made = 0
  BY <1>3, <1>4, <1>5
<1>12. ~AwaitsOn("cmd") /\ ~AwaitsOn("ep0")
  BY <1>1 DEF AwaitsOn
<1>13. CmdCourse /\ Ep0Course /\ IntCourse
  BY <1>1, <1>10, <1>11, <1>12, ThreeRings DEF CmdCourse, Ep0Course, IntCourse, Course, Settled
<1>14. StageSound /\ AnswersMatch
  <2>1. StageSound
    <3>1. stage \in 0 .. 15
      BY <1>1
    <3>2. waiting = FALSE
      BY <1>1
    <3> QED BY <3>1, <3>2 DEF StageSound
  <2>2. answered.want = 0 /\ answered.got = 0
    BY <1>1
  <2> QED BY <2>1, <2>2 DEF AnswersMatch
<1> QED BY <1>6, <1>8, <1>9, <1>13, <1>14 DEF UsbInv, EventsSound

LEMMA UsbSteps ==
  ASSUME UsbInv, [UsbNext]_usbVars
  PROVE  UsbInv'
<1>1. CASE UNCHANGED usbVars
  BY <1>1, StillKeeps DEF usbVars, driverVars
<1>2. CASE \E works \in BOOLEAN :
             Discover(works) \/ ResetController(works) \/ ProgramAndRun(works)
  BY <1>2, BringUpKeeps
<1>3. CASE \E frames \in BOOLEAN : Issue(frames)
  BY <1>3, IssueKeeps
<1>4. CASE \E endpoint, buffer \in BOOLEAN : PollEvent(endpoint, buffer)
  BY <1>4, PollKeeps
<1>5. CASE \E buffer \in BOOLEAN : SpinRunsOut(buffer)
  BY <1>5, SpinKeeps
<1>6. CASE Controller
  BY <1>6, FollowLinkKeeps, RunQuietKeeps, RunLoudKeeps, RunReportKeeps DEF Controller
<1>7. CASE (\E p \in 1 .. Connected : PortReset(p)) \/ HotPlug
  <2>1. PICK p \in Nat : PortChange(p) /\ UNCHANGED <<driverVars, hc>>
    BY <1>7, XhciAssumption DEF PortReset, HotPlug
  <2> QED BY <2>1, PortKeeps
<1>8. CASE (\E k \in Keys : KeyChange(k)) \/ Heartbeat
  <2>1. UNCHANGED <<driverVars, hc, evring, hcev>>
    BY <1>8 DEF KeyChange, Heartbeat
  <2> QED BY <2>1, StillKeeps
<1>9. CASE ReaderParks
  BY <1>9, ReaderKeeps
<1> QED BY <1>1, <1>2, <1>3, <1>4, <1>5, <1>6, <1>7, <1>8, <1>9 DEF UsbNext

\* The slots either side takes for new are new.
LEMMA SoundInStep ==
  ASSUME UsbInv
  PROVE  RingsInStep
<1>1. ASSUME NEW r \in RingNames, NewTrb(r), Trb(r).kind # "link"
      PROVE  Trb(r).n = hc[r].ran + 1
  BY <1>1, ConsumedIs DEF UsbInv, RanNext
<1>2. /\ HasEvent => evring[ev.deq].num = ev.taken + 1
      /\ Pending > 0 => HasEvent
  BY TakesNext DEF UsbInv, EventsSound
<1> QED BY <1>1, <1>2 DEF RingsInStep

\* For every size of the rings, and however the controller, the driver and the
\* ports interleave, the cycle bits of ProducerRing::push and EventRing::poll
\* tell each side exactly the TRBs and events the other has written, across
\* every wrap and every wait that was given up.
THEOREM RingsStayInStep == UsbSpec => []RingsInStep
<1>1. UsbInit => UsbInv
  BY UsbStarts
<1>2. UsbInv /\ [UsbNext]_usbVars => UsbInv'
  BY UsbSteps
<1>3. UsbInv => RingsInStep
  BY SoundInStep
<1> QED BY <1>1, <1>2, <1>3, PTL DEF UsbSpec

\* No command and no control transfer takes for its answer, in poll_event, that
\* of another: not the late one of a transfer that was given up, nor a port
\* event, however many ports were tried and given up before, nor a report.
THEOREM AnswersStayMatched == UsbSpec => []AnswersMatch
<1>1. UsbInit => UsbInv
  BY UsbStarts
<1>2. UsbInv /\ [UsbNext]_usbVars => UsbInv'
  BY UsbSteps
<1>3. UsbInv => AnswersMatch
  BY DEF UsbInv
<1> QED BY <1>1, <1>2, <1>3, PTL DEF UsbSpec

----------------------------------------------------------------------------
(* The block driver's invariant: which chains are published, being served  *)
(* or finished, and who they belong to.                                    *)

\* Indices, and the entries between two of them.
Ind == 0 .. IdxMod - 1
Gap(a, b) == (a - b) % IdxMod
Window(a, b, R) == {R[(b + i) % QSize] : i \in 0 .. Gap(a, b) - 1}
Apart(a, b, R) ==
  \A i, j \in 0 .. Gap(a, b) - 1 : R[(b + i) % QSize] = R[(b + j) % QSize] => i = j

Heads == {ChainHead(s) : s \in BlkSlots}
Published == Window(blkAvail.idx, device.seen, blkAvail.ring)
Finished == Window(blkUsed.idx, last_used, blkUsed.ring)

Live(s) == blkPool.routing[s] # NoReq
Polls == [slot : BlkSlots, id : Nat, frame : BlkFrames \cup {Poison}]

Pools == [routing : [BlkSlots -> Targets \cup {NoReq}], free : Seq(BlkSlots)]
Answers == [target : Targets, status : Nat, served : BOOLEAN]

BlkTypes ==
  /\ blkChain \in [BlkSlots -> [id : Nat \cup {NoReq}, frame : BlkFrames \cup {Poison, NoReq},
                              status : {NoReq, 0, 1}]]
  /\ blkAvail \in [idx : Ind, ring : [0 .. QSize - 1 -> Nat], quiet : BOOLEAN]
  /\ blkUsed \in [idx : Ind, ring : [0 .. QSize - 1 -> Nat]]
  /\ last_used \in Ind
  /\ device \in [seen : Ind, busy : SUBSET BlkSlots]
  /\ reqs \in Nat /\ unread \in [BlkClients -> SUBSET Answers]
  /\ blkIrq \in BOOLEAN /\ draining \in BOOLEAN /\ fault \in BOOLEAN
  /\ poller \in Polls \cup {NoReq} /\ domain \in SUBSET BlkFrames
  /\ tests \in {<<"ramp", "poison", "control">>, <<"poison", "control">>, <<"control">>, <<>>}

\* A slot on the free stack is there once and is not live.
PoolSound(P) ==
  /\ P \in Pools
  /\ \A i \in 1 .. Len(P.free) : P.routing[P.free[i]] = NoReq
  /\ \A i, j \in 1 .. Len(P.free) : P.free[i] = P.free[j] => i = j

\* A published, taken or finished chain is that of a live slot, and is only one of these.
ChainsSound ==
  /\ Published \subseteq Heads /\ Finished \subseteq Heads
  /\ Apart(blkAvail.idx, device.seen, blkAvail.ring)
  /\ Apart(blkUsed.idx, last_used, blkUsed.ring)
  /\ \A s \in BlkSlots :
       /\ ChainHead(s) \in Published \/ ChainHead(s) \in Finished \/ s \in device.busy => Live(s)
       /\ ~(ChainHead(s) \in Published /\ ChainHead(s) \in Finished)
       /\ ~(s \in device.busy /\ ChainHead(s) \in Published \cup Finished)
       /\ ChainHead(s) \in Finished => blkChain[s].status # NoReq

\* The self-tests poll for one request at a time, and end with nothing in flight.
BootSound ==
  /\ tests # <<>> \/ poller # NoReq => \A s \in BlkSlots : Live(s) <=> (poller # NoReq /\ s = poller.slot)
  /\ tests = <<>> => poller = NoReq
  /\ tests # <<>> => ~draining
  /\ tests # <<>> /\ poller = NoReq => ~fault
  /\ poller # NoReq =>
       /\ poller.frame = blkChain[poller.slot].frame
       /\ poller.frame = Poison <=> tests[1] = "poison"
       /\ poller.frame # Poison => poller.frame \in domain
       /\ fault <=> (poller.frame = Poison /\ blkUsed.idx # last_used)

\* At runtime requests ask for an interrupt, and a finished one has it.
Signals ==
  tests = <<>> =>
    /\ (\E s \in BlkSlots : Live(s)) => ~blkAvail.quiet
    /\ blkUsed.idx # last_used => blkIrq \/ draining

BlkCore == BlkTypes /\ PoolSound(blkPool) /\ ChainsSound /\ BootSound /\ Signals

BlkInv == CompletionsRight /\ (~gave_up => BlkCore)

LEMMA DivMod ==
  ASSUME NEW a \in Int, NEW b \in Nat \ {0}
  PROVE  /\ a % b \in 0 .. b - 1 /\ a \div b \in Int
         /\ a = b * (a \div b) + (a % b)
OBVIOUS

\* Quotient and remainder are unique.
LEMMA DivModUnique ==
  ASSUME NEW b \in Nat \ {0}, NEW p \in Int, NEW q \in Int,
         NEW r \in 0 .. b - 1, NEW s \in 0 .. b - 1, b * p + r = b * q + s
  PROVE  r = s
<1>1. ASSUME NEW x \in Int, NEW y \in Int, x < y PROVE b * x + b <= b * y
  <2>1. PICK k \in Nat : y = x + k + 1
    <3>1. y - x - 1 \in Nat /\ y = x + (y - x - 1) + 1
      BY <1>1
    <3> QED BY <3>1
  <2>2. b * y = b * x + b * k + b
    BY <2>1
  <2>3. b * k >= 0
    OBVIOUS
  <2> QED BY <2>2, <2>3
<1>2. ~(p < q) /\ ~(q < p)
  BY <1>1
<1> QED BY <1>2

\* a and a + b * k have the same remainder.
LEMMA ModShift ==
  ASSUME NEW a \in Int, NEW b \in Nat \ {0}, NEW k \in Int
  PROVE  (a + b * k) % b = a % b
<1> DEFINE c == a + b * k
           p == c \div b
           q == a \div b
<1>1. c \in Int /\ c % b \in 0 .. b - 1 /\ p \in Int /\ c = b * p + (c % b)
  BY DivMod
<1>2. a % b \in 0 .. b - 1 /\ q \in Int /\ a = b * q + (a % b)
  BY DivMod
<1>3. b * p + (c % b) = b * (q + k) + (a % b)
  <2> HIDE DEF p, q
  <2> QED BY <1>1, <1>2
<1>4. q + k \in Int
  BY <1>2
<1> HIDE DEF c, p, q
<1>5. c % b = a % b
  BY <1>1, <1>2, <1>3, <1>4, DivModUnique
<1> QED BY <1>5 DEF c

\* A remainder may be taken before or after another summand is added.
LEMMA ModSum ==
  ASSUME NEW a \in Int, NEW b \in Nat \ {0}, NEW d \in Int
  PROVE  ((a % b) + d) % b = (a + d) % b
<1> DEFINE m == a % b
           q == a \div b
           c == m + d
           n == b * q
<1>1. m \in Int /\ q \in Int /\ a = b * q + m
  BY DivMod
<1> HIDE DEF m, q
<1>2. c \in Int /\ n \in Int /\ a + d = c + n
  BY <1>1
<1>3. (c + n) % b = c % b
  <2> HIDE DEF c
  <2> QED BY <1>1, <1>2, ModShift
<1> HIDE DEF c, n
<1> QED BY <1>2, <1>3 DEF c, m

LEMMA ModSmall ==
  ASSUME NEW b \in Nat \ {0}, NEW a \in 0 .. b - 1
  PROVE  a % b = a
<1>1. a \in Int /\ a % b \in 0 .. b - 1 /\ a \div b \in Int /\ a = b * (a \div b) + (a % b)
  BY DivMod
<1>2. b * (a \div b) + (a % b) = b * 0 + a
  BY <1>1
<1> QED BY <1>1, <1>2, DivModUnique

\* A non-empty set of numbers has a least element.
LEMMA LeastExists ==
  ASSUME NEW S \in SUBSET Nat, S # {}
  PROVE  \E s \in S : \A r \in S : s <= r
<1> DEFINE Less == {ss \in Nat \X Nat : ss[1] < ss[2]}
<1>1. IsWellFoundedOn(Less, Nat)
  BY NatLessThanWellFounded, Zenon DEF OpToRel
<1>2. \A x, y \in S : ~(<<y, x>> \in Less) => x <= y
  <2>1. ASSUME NEW x \in S, NEW y \in S, ~(x <= y)
        PROVE  <<y, x>> \in Less
    BY <2>1
  <2> QED BY <2>1
<1> HIDE DEF Less
<1>3. \E x \in S : \A y \in S : ~(<<y, x>> \in Less)
  BY <1>1, WFMin
<1> QED BY <1>2, <1>3

\* The place in the buffer does not depend on where the index wrapped.
LEMMA PlaceWraps ==
  ASSUME NEW a \in Int
  PROVE  (a % IdxMod) % QSize = a % QSize
<1>1. IdxMod \in Nat \ {0} /\ QSize \in Nat \ {0} /\ IdxMod % QSize = 0
  BY QueueAssumption
<1>2. PICK k \in Int : IdxMod = QSize * k
  BY <1>1, DivMod
<1> DEFINE m == a % IdxMod
           q == a \div IdxMod
           n == k * q
           s == QSize * n
<1>3. m \in Int /\ q \in Int /\ a = IdxMod * q + m
  BY <1>1, DivMod
<1> HIDE DEF m, q
<1>4. n \in Int /\ IdxMod * q = s /\ s \in Int
  BY <1>1, <1>2, <1>3
<1> HIDE DEF n
<1>5. (m + s) % QSize = m % QSize
  BY <1>1, <1>3, <1>4, ModShift
<1> HIDE DEF s
<1>6. a = m + s
  BY <1>3, <1>4
<1> QED BY <1>5, <1>6 DEF m

\* How the number of unreaped entries moves with either index.
LEMMA GapSteps ==
  ASSUME NEW t \in Ind, NEW h \in Ind
  PROVE  LET c == Gap(t, h) IN
         /\ c \in 0 .. IdxMod - 1
         /\ (h + c) % QSize = t % QSize
         /\ (Wrap(t + 1) - h) % IdxMod = IF c + 1 = IdxMod THEN 0 ELSE c + 1
         /\ t # h => c > 0 /\ (t - Wrap(h + 1)) % IdxMod = c - 1
<1> DEFINE M == IdxMod
           c == (t - h) % M
<1>1. M \in Nat \ {0} /\ t \in 0 .. M - 1 /\ h \in 0 .. M - 1 /\ t - h \in Int
  BY QueueAssumption DEF Ind
<1>2. c \in 0 .. M - 1
  BY <1>1, DivMod
<1>3. t % M = t /\ h % M = h
  BY <1>1, ModSmall
<1>4. (c + h) % M = t
  <2>1. (c + h) % M = ((t - h) + h) % M
    BY <1>1, ModSum
  <2>2. (t - h) + h = t
    BY <1>1
  <2> QED BY <1>3, <2>1, <2>2
<1>5. (h + c) % QSize = t % QSize
  <2>1. h + c \in Int /\ h + c = c + h
    BY <1>1, <1>2
  <2>2. ((h + c) % M) % QSize = (h + c) % QSize
    BY <2>1, PlaceWraps
  <2> QED BY <1>4, <2>1, <2>2
<1>6. \A x \in 0 .. M - 1 : x % M = x
  BY <1>1, ModSmall
<1>7. M % M = 0
  <2>1. (0 + M * 1) % M = 0 % M
    BY <1>1, ModShift
  <2>2. 0 % M = 0 /\ 0 + M * 1 = M
    BY <1>1, <1>6
  <2> QED BY <2>1, <2>2
<1>8. (Wrap(t + 1) - h) % M = (c + 1) % M
  <2>1. (((t + 1) % M) + (0 - h)) % M = ((t + 1) + (0 - h)) % M
    <3>1. t + 1 \in Int /\ 0 - h \in Int
      BY <1>1
    <3> QED BY <1>1, <3>1, ModSum
  <2>2. (c + 1) % M = ((t - h) + 1) % M
    BY <1>1, ModSum
  <2>3. (t + 1) + (0 - h) = (t - h) + 1
    BY <1>1
  <2>4. (t + 1) % M \in Int
    BY <1>1, DivMod
  <2>5. Wrap(t + 1) - h = ((t + 1) % M) + (0 - h)
    <3>1. \A x \in Int : x - h = x + (0 - h)
      BY <1>1
    <3> QED BY <2>4, <3>1 DEF Wrap
  <2> QED BY <2>1, <2>2, <2>3, <2>5
<1>9. (c + 1) % M = IF c + 1 = M THEN 0 ELSE c + 1
  <2>1. c + 1 # M => c + 1 \in 0 .. M - 1
    BY <1>1, <1>2
  <2> HIDE DEF c
  <2> QED BY <1>6, <1>7, <2>1
<1>10. ASSUME t # h PROVE c > 0 /\ (t - Wrap(h + 1)) % M = c - 1
  <2>1. c # 0
    <3>1. ASSUME c = 0 PROVE FALSE
      <4>1. (0 + h) % M = t
        BY <1>4, <3>1
      <4>2. 0 + h = h
        BY <1>1
      <4> QED BY <1>3, <1>10, <4>1, <4>2
    <3> QED BY <3>1
  <2>2. c > 0 /\ c - 1 \in 0 .. M - 1
    <3> HIDE DEF c
    <3> QED BY <1>1, <1>2, <2>1
  <2>3. (t - Wrap(h + 1)) % M = ((t - h) - 1) % M
    <3>1. PICK k \in Int : (h + 1) % M = (h + 1) + M * k
      <4>1. h + 1 \in Int
        BY <1>1
      <4>2. /\ (h + 1) % M \in 0 .. M - 1 /\ (h + 1) \div M \in Int
            /\ h + 1 = M * ((h + 1) \div M) + ((h + 1) % M)
        BY <1>1, <4>1, DivMod
      <4> DEFINE q == (h + 1) \div M
                 x == (h + 1) % M
      <4> HIDE DEF q, x
      <4>3. q \in Int /\ x \in Int /\ h + 1 = M * q + x
        BY <1>1, <4>2 DEF q, x
      <4>4. x = (h + 1) + M * (0 - q) /\ 0 - q \in Int
        BY <1>1, <4>3
      <4> QED BY <4>4 DEF x
    <3> DEFINE y == (h + 1) % M
               z == (t - h) - 1
    <3> HIDE DEF y
    <3>2. t - y = z + M * (0 - k) /\ 0 - k \in Int /\ z \in Int
      BY <1>1, <3>1 DEF y
    <3> HIDE DEF z
    <3>3. (z + M * (0 - k)) % M = z % M
      BY <1>1, <3>2, ModShift
    <3> QED BY <3>2, <3>3 DEF y, z, Wrap
  <2>4. (c + (0 - 1)) % M = ((t - h) + (0 - 1)) % M
    <3>1. 0 - 1 \in Int
      OBVIOUS
    <3> QED BY <1>1, <3>1, ModSum
  <2>5. c + (0 - 1) = c - 1 /\ (t - h) + (0 - 1) = (t - h) - 1
    <3> HIDE DEF c
    <3> QED BY <1>1, <1>2
  <2>6. (c - 1) % M = c - 1
    BY <1>6, <2>2
  <2> HIDE DEF c
  <2> QED BY <2>2, <2>3, <2>4, <2>5, <2>6 DEF c
<1> HIDE DEF c
<1>11. /\ c \in 0 .. M - 1
       /\ (h + c) % QSize = t % QSize
       /\ (Wrap(t + 1) - h) % M = IF c + 1 = M THEN 0 ELSE c + 1
       /\ t # h => c > 0 /\ (t - Wrap(h + 1)) % M = c - 1
  BY <1>2, <1>5, <1>8, <1>9, <1>10
<1> QED BY <1>11 DEF Gap, c

\* Fewer than QSize places apart is not the same place in the buffer.
LEMMA PlacesDiffer ==
  ASSUME NEW a \in Int, NEW k \in 1 .. QSize - 1
  PROVE  (a + k) % QSize # a % QSize
<1> DEFINE i == a + k
<1>1. QSize \in Nat \ {0} /\ i \in Int /\ i = a + k
  BY QueueAssumption
<1> HIDE DEF i
<1>2. SUFFICES ASSUME i % QSize = a % QSize PROVE FALSE
  BY DEF i
<1>3. PICK p \in Int, q \in Int, x \in 0 .. QSize - 1 :
        i = QSize * p + x /\ a = QSize * q + x
  <2>1. /\ i % QSize \in 0 .. QSize - 1 /\ i \div QSize \in Int
        /\ i = QSize * (i \div QSize) + (i % QSize)
    BY <1>1, DivMod
  <2>2. /\ a % QSize \in 0 .. QSize - 1 /\ a \div QSize \in Int
        /\ a = QSize * (a \div QSize) + (a % QSize)
    BY <1>1, DivMod
  <2> QED BY <1>2, <2>1, <2>2
<1>4. QSize * p + 0 = QSize * q + k
  BY <1>1, <1>3
<1>5. 0 \in 0 .. QSize - 1 /\ k \in 0 .. QSize - 1
  BY <1>1
<1>6. 0 = k
  BY <1>1, <1>4, <1>5, DivModUnique
<1> QED BY <1>6

----------------------------------------------------------------------------
(* The split virtqueue: heads and slots, and what lies between two indices. *)

LEMMA QueueSizes ==
  /\ QSize \in Nat /\ QSize > 0 /\ IdxMod \in Nat /\ IdxMod >= QSize
  /\ QSize \div DescPerReq \in Nat /\ QSize \div DescPerReq < QSize
  /\ \A s \in BlkSlots : /\ s \in Nat /\ s < QSize \div DescPerReq
                         /\ (QSize \div DescPerReq) + 1 < QSize
                         /\ ChainHead(s) \in Nat /\ ChainHead(s) \div DescPerReq = s
                         /\ ChainHead(s) % DescPerReq = 0
<1>1. /\ QSize \in Nat /\ QSize > 0 /\ IdxMod \in Nat /\ IdxMod > 0 /\ IdxMod % QSize = 0
  BY QueueAssumption
<1>2. IdxMod >= QSize
  <2>1. ASSUME IdxMod < QSize PROVE FALSE
    <3>1. IdxMod \in 0 .. QSize - 1 /\ QSize \in Nat \ {0}
      BY <1>1, <2>1
    <3>2. IdxMod % QSize = IdxMod
      BY <3>1, ModSmall
    <3> QED BY <1>1, <3>2
  <2> QED BY <1>1, <2>1
<1>3. PICK d \in Int, m \in Int :
        0 <= m /\ m <= 2 /\ QSize = 3 * d + m /\ d = QSize \div DescPerReq
  <2>1. DescPerReq = 3 /\ 3 \in Nat \ {0} /\ QSize \in Int
    BY <1>1 DEF DescPerReq
  <2>2. QSize % 3 \in 0 .. 3 - 1 /\ QSize \div 3 \in Int /\ QSize = 3 * (QSize \div 3) + (QSize % 3)
    BY <2>1, DivMod
  <2>3. QSize % 3 \in Int /\ 0 <= QSize % 3 /\ QSize % 3 <= 2
    BY <2>2
  <2> QED BY <2>1, <2>2, <2>3
<1>4. d \in Nat /\ d < QSize
  <2>1. QSize = 3 * d + m /\ QSize > 0 /\ QSize \in Nat /\ 0 <= m /\ m <= 2
    BY <1>1, <1>3
  <2> QED BY ONLY <2>1, d \in Int, m \in Int
<1>5. ASSUME NEW s \in BlkSlots
      PROVE  /\ s \in Nat /\ s < d /\ d + 1 < QSize
             /\ ChainHead(s) \in Nat /\ ChainHead(s) \div DescPerReq = s
             /\ ChainHead(s) % DescPerReq = 0
  <2>1. s \in 0 .. d - 1
    BY <1>3 DEF BlkSlots
  <2>2. s \in Nat /\ s < d /\ d + 1 < QSize
    BY <1>3, <1>4, <2>1
  <2>3. ChainHead(s) = s * 3
    BY DEF ChainHead, DescPerReq
  <2>4. s * 3 \in Nat /\ (s * 3) \div 3 = s /\ (s * 3) % 3 = 0
    BY <2>2
  <2> QED BY <2>2, <2>3, <2>4 DEF DescPerReq
<1> QED BY <1>1, <1>2, <1>3, <1>4, <1>5

LEMMA HeadsTell ==
  /\ \A s \in BlkSlots : SlotOf(ChainHead(s)) = s /\ Demux(ChainHead(s)) = s
  /\ \A s, t \in BlkSlots : ChainHead(s) = ChainHead(t) => s = t
  /\ Heads \subseteq Nat
<1>1. ASSUME NEW s \in BlkSlots PROVE SlotOf(ChainHead(s)) = s /\ Demux(ChainHead(s)) = s
  <2>1. ChainHead(s) \div DescPerReq = s /\ ChainHead(s) % DescPerReq = 0
    BY QueueSizes
  <2> QED BY <2>1 DEF SlotOf, Demux
<1>2. ASSUME NEW s \in BlkSlots, NEW t \in BlkSlots, ChainHead(s) = ChainHead(t) PROVE s = t
  <2>1. ChainHead(s) \div DescPerReq = s /\ ChainHead(t) \div DescPerReq = t
    BY QueueSizes
  <2> QED BY <1>2, <2>1
<1>3. Heads \subseteq Nat
  BY QueueSizes DEF Heads
<1> QED BY <1>1, <1>2, <1>3

\* One place on.
LEMMA PlaceNext ==
  ASSUME NEW b \in Ind, NEW i \in Nat
  PROVE  (Wrap(b + 1) + i) % QSize = (b + (i + 1)) % QSize
<1> DEFINE x == (b + 1) % IdxMod
<1>1. QSize \in Nat \ {0} /\ IdxMod \in Nat \ {0} /\ b \in Int /\ b + 1 \in Int /\ i \in Int
  BY QueueSizes DEF Ind
<1>2. x \in Int
  BY <1>1, DivMod
<1>3. x % QSize = (b + 1) % QSize
  BY <1>1, PlaceWraps
<1> HIDE DEF x
<1>4. ((x % QSize) + i) % QSize = (x + i) % QSize
  BY <1>1, <1>2, ModSum
<1>5. (((b + 1) % QSize) + i) % QSize = ((b + 1) + i) % QSize
  BY <1>1, ModSum
<1>6. (b + 1) + i = b + (i + 1)
  BY <1>1
<1>7. (x + i) % QSize = (b + (i + 1)) % QSize
  BY <1>3, <1>4, <1>5, <1>6
<1> QED BY <1>7 DEF x, Wrap

\* Two places of a window no longer than the queue are different.
LEMMA PlacesApart ==
  ASSUME NEW b \in Ind, NEW i \in Nat, NEW j \in Nat, i < j, j - i < QSize
  PROVE  (b + i) % QSize # (b + j) % QSize
<1>1. b + i \in Int /\ j - i \in 1 .. QSize - 1 /\ (b + i) + (j - i) = b + j
  BY QueueSizes DEF Ind
<1> DEFINE a == b + i
           k == j - i
<1> HIDE DEF a, k
<1>2. a \in Int /\ k \in 1 .. QSize - 1 /\ a + k = b + j
  BY <1>1 DEF a, k
<1>3. (a + k) % QSize # a % QSize
  BY <1>2, PlacesDiffer
<1> QED BY <1>2, <1>3 DEF a

Buffers == [0 .. QSize - 1 -> Nat]

LEMMA PlaceIn ==
  ASSUME NEW a \in Int
  PROVE  a % QSize \in 0 .. QSize - 1
BY QueueSizes, DivMod

\* A head is published, or put in the used ring.
Appended(a, b, R, Q, h) ==
  /\ Wrap(a + 1) \in Ind /\ Q \in Buffers
  /\ Window(Wrap(a + 1), b, Q) = Window(a, b, R) \cup {h}
  /\ Apart(a, b, R) /\ h \notin Window(a, b, R) => Apart(Wrap(a + 1), b, Q)
  /\ Wrap(a + 1) # b

LEMMA WindowPush ==
  ASSUME NEW a \in Ind, NEW b \in Ind, NEW R \in Buffers, NEW h \in Nat,
         Gap(a, b) + 1 < QSize
  PROVE  Appended(a, b, R, [R EXCEPT ![a % QSize] = h], h)
<1> DEFINE c == Gap(a, b)
           Q == [R EXCEPT ![a % QSize] = h]
           a1 == Wrap(a + 1)
<1>1. /\ c \in 0 .. IdxMod - 1 /\ (b + c) % QSize = a % QSize
      /\ (a1 - b) % IdxMod = IF c + 1 = IdxMod THEN 0 ELSE c + 1
  BY GapSteps
<1>2. QSize \in Nat /\ IdxMod \in Nat /\ IdxMod >= QSize /\ c \in Nat /\ c + 1 < QSize
  BY <1>1, QueueSizes
<1>3. Gap(a1, b) = c + 1
  <2> HIDE DEF c
  <2> QED BY <1>1, <1>2 DEF Gap
<1>4. a % QSize \in 0 .. QSize - 1 /\ a1 \in Ind /\ b \in Int /\ a + 1 \in Int
  <2>1. a + 1 \in Int /\ b \in Int /\ a \in Int /\ IdxMod \in Nat \ {0}
    BY QueueSizes DEF Ind
  <2>2. (a + 1) % IdxMod \in 0 .. IdxMod - 1
    BY <2>1, DivMod
  <2> QED BY <2>1, <2>2, PlaceIn DEF Ind, Wrap
<1>5. Q \in Buffers /\ Q[(b + c) % QSize] = h
  BY <1>1, <1>4 DEF Buffers
<1>6. ASSUME NEW i \in 0 .. c - 1 PROVE Q[(b + i) % QSize] = R[(b + i) % QSize]
  <2> HIDE DEF c
  <2>1. i \in Nat /\ i < c /\ c - i < QSize /\ b + i \in Int
    BY <1>2, <1>4
  <2>2. (b + i) % QSize # (b + c) % QSize
    BY <1>2, <2>1, PlacesApart
  <2>3. (b + i) % QSize \in 0 .. QSize - 1
    BY <2>1, PlaceIn
  <2> QED BY <1>1, <1>4, <2>2, <2>3 DEF Buffers
<1> HIDE DEF Q, c, a1
<1>7. /\ 0 .. c - 1 \subseteq 0 .. c /\ c \in 0 .. c
      /\ \A i \in 0 .. c : i \in 0 .. c - 1 \/ i = c
      /\ (c + 1) - 1 = c
  BY <1>2
<1>8. Window(a1, b, Q) = Window(a, b, R) \cup {h}
  <2>1. Window(a1, b, Q) = {Q[(b + i) % QSize] : i \in 0 .. c}
    BY <1>3, <1>7 DEF Window
  <2>2. Window(a, b, R) = {R[(b + i) % QSize] : i \in 0 .. c - 1}
    BY DEF Window, c
  <2> QED BY <1>5, <1>6, <1>7, <2>1, <2>2
<1>9. ASSUME Apart(a, b, R), h \notin Window(a, b, R) PROVE Apart(a1, b, Q)
  <2>1. \A i, j \in 0 .. c - 1 : R[(b + i) % QSize] = R[(b + j) % QSize] => i = j
    BY <1>9 DEF Apart, c
  <2>2. \A i \in 0 .. c - 1 : R[(b + i) % QSize] # h
    BY <1>9 DEF Window, c
  <2>3. ASSUME NEW i \in 0 .. c, NEW j \in 0 .. c, Q[(b + i) % QSize] = Q[(b + j) % QSize]
        PROVE  i = j
    BY <1>5, <1>6, <1>7, <2>1, <2>2, <2>3
  <2> QED BY <1>3, <1>7, <2>3 DEF Apart
<1>10. a1 # b
  <2>1. ASSUME a1 = b PROVE FALSE
    <3>1. Gap(a1, b) = 0 % IdxMod
      BY <1>4, <2>1 DEF Gap
    <3>2. 0 % IdxMod = 0
      <4>1. 0 \in 0 .. IdxMod - 1 /\ IdxMod \in Nat \ {0}
        BY QueueSizes
      <4> QED BY <4>1, ModSmall
    <3> QED BY <1>2, <1>3, <3>1, <3>2
  <2> QED BY <2>1
<1>11. Appended(a, b, R, Q, h)
  BY <1>4, <1>5, <1>8, <1>9, <1>10 DEF Appended, a1
<1> QED BY <1>11 DEF Q

\* The oldest entry is taken.
Removed(a, b, R) ==
  /\ Wrap(b + 1) \in Ind /\ R[b % QSize] \in Window(a, b, R)
  /\ Window(a, Wrap(b + 1), R) = Window(a, b, R) \ {R[b % QSize]}
  /\ Apart(a, Wrap(b + 1), R)

LEMMA WindowPop ==
  ASSUME NEW a \in Ind, NEW b \in Ind, NEW R \in Buffers, a # b, Apart(a, b, R)
  PROVE  Removed(a, b, R)
<1> DEFINE c == Gap(a, b)
           b1 == Wrap(b + 1)
<1>1. c \in 0 .. IdxMod - 1 /\ c > 0 /\ (a - b1) % IdxMod = c - 1
  BY GapSteps
<1>2. Gap(a, b1) = c - 1
  BY <1>1 DEF Gap
<1>3. c \in Nat /\ c > 0 /\ b \in Int
  BY <1>1, QueueSizes DEF Ind
<1>4. b1 \in Ind
  <2>1. b + 1 \in Int /\ IdxMod \in Nat \ {0}
    BY QueueSizes DEF Ind
  <2>2. (b + 1) % IdxMod \in 0 .. IdxMod - 1
    BY <2>1, DivMod
  <2> QED BY <2>2 DEF Ind, Wrap
<1>5. \A i \in Nat : (b1 + i) % QSize = (b + (i + 1)) % QSize
  BY PlaceNext
<1>6. (b + 0) % QSize = b % QSize
  BY <1>3
<1> HIDE DEF c, b1
<1>7. /\ 0 \in 0 .. c - 1
      /\ \A i \in 0 .. (c - 1) - 1 : i \in Nat /\ i + 1 \in 0 .. c - 1 /\ i + 1 # 0
      /\ \A i \in 0 .. c - 1 : i # 0 => i - 1 \in 0 .. (c - 1) - 1 /\ (i - 1) + 1 = i
      /\ \A i, j \in 0 .. (c - 1) - 1 : i + 1 = j + 1 => i = j
  BY <1>3
<1>8. \A i, j \in 0 .. c - 1 : R[(b + i) % QSize] = R[(b + j) % QSize] => i = j
  BY DEF Apart, c
<1>9. Window(a, b, R) = {R[(b + i) % QSize] : i \in 0 .. c - 1}
  BY DEF Window, c
<1>10. R[b % QSize] \in Window(a, b, R)
  BY <1>6, <1>7, <1>9
<1>11. Window(a, b1, R) = {R[(b + (i + 1)) % QSize] : i \in 0 .. (c - 1) - 1}
  <2>1. Window(a, b1, R) = {R[(b1 + i) % QSize] : i \in 0 .. (c - 1) - 1}
    BY <1>2 DEF Window
  <2>2. \A i \in 0 .. (c - 1) - 1 : R[(b1 + i) % QSize] = R[(b + (i + 1)) % QSize]
    BY <1>5, <1>7
  <2> QED BY <2>1, <2>2
<1>12. Window(a, b1, R) = Window(a, b, R) \ {R[b % QSize]}
  <2>1. ASSUME NEW x \in Window(a, b1, R) PROVE x \in Window(a, b, R) /\ x # R[b % QSize]
    <3>1. PICK i \in 0 .. (c - 1) - 1 : x = R[(b + (i + 1)) % QSize]
      BY <1>11, <2>1
    <3> QED BY <1>6, <1>7, <1>8, <1>9, <3>1
  <2>2. ASSUME NEW x \in Window(a, b, R), x # R[b % QSize] PROVE x \in Window(a, b1, R)
    <3>1. PICK i \in 0 .. c - 1 : x = R[(b + i) % QSize]
      BY <1>9, <2>2
    <3>2. i - 1 \in 0 .. (c - 1) - 1 /\ (i - 1) + 1 = i
      BY <1>6, <1>7, <2>2, <3>1
    <3> QED BY <1>11, <3>1, <3>2
  <2> QED BY <2>1, <2>2
<1>13. Apart(a, b1, R)
  <2>1. ASSUME NEW i \in 0 .. (c - 1) - 1, NEW j \in 0 .. (c - 1) - 1,
               R[(b1 + i) % QSize] = R[(b1 + j) % QSize]
        PROVE  i = j
    <3>1. i \in Nat /\ j \in Nat /\ i + 1 \in 0 .. c - 1 /\ j + 1 \in 0 .. c - 1
      BY <1>7
    <3>2. R[(b + (i + 1)) % QSize] = R[(b + (j + 1)) % QSize]
      BY <1>5, <2>1, <3>1
    <3>3. i + 1 = j + 1
      BY <1>8, <3>1, <3>2
    <3> QED BY <1>7, <3>3
  <2> QED BY <1>2, <2>1 DEF Apart
<1> QED BY <1>4, <1>10, <1>12, <1>13 DEF Removed, b1

\* No more chains are on their way than there are slots.
LEMMA WindowShort ==
  ASSUME NEW a \in Ind, NEW b \in Ind, NEW R \in Buffers, Apart(a, b, R), Window(a, b, R) \subseteq Heads
  PROVE  Gap(a, b) <= QSize \div DescPerReq
<1> DEFINE c == Gap(a, b)
           d == QSize \div DescPerReq
           f == [i \in 0 .. c - 1 |-> R[(b + i) % QSize] \div DescPerReq]
<1>1. c \in Nat /\ d \in Nat
  BY GapSteps, QueueSizes
<1>2. ASSUME c > d PROVE FALSE
  <2>1. \A i \in 0 .. c - 1 : R[(b + i) % QSize] \in Heads
    BY DEF Window
  <2>2. \A i \in 0 .. c - 1 : \E s \in BlkSlots : R[(b + i) % QSize] = ChainHead(s) /\ f[i] = s
    BY <2>1, QueueSizes DEF Heads
  <2>3. f \in [0 .. c - 1 -> BlkSlots]
    BY <2>2
  <2>4. BlkSlots = 0 .. d - 1
    BY DEF BlkSlots
  <2> HIDE DEF c, d
  <2>5. /\ IsFiniteSet(0 .. c - 1) /\ Cardinality(0 .. c - 1) = c
        /\ IsFiniteSet(BlkSlots) /\ Cardinality(BlkSlots) = d
    <3>1. 0 \in Int /\ c - 1 \in Int /\ d - 1 \in Int
      BY <1>1
    <3>2. /\ IsFiniteSet(0 .. c - 1) /\ Cardinality(0 .. c - 1) = IF 0 > c - 1 THEN 0 ELSE (c - 1) - 0 + 1
          /\ IsFiniteSet(0 .. d - 1) /\ Cardinality(0 .. d - 1) = IF 0 > d - 1 THEN 0 ELSE (d - 1) - 0 + 1
      BY <3>1, FS_Interval
    <3> QED BY <1>1, <2>4, <3>2
  <2> HIDE DEF f
  <2>6. PICK i, j \in 0 .. c - 1 : i # j /\ f[i] = f[j]
    <3>1. Cardinality(BlkSlots) < Cardinality(0 .. c - 1)
      BY <1>1, <1>2, <2>5
    <3> QED BY <2>3, <2>5, <3>1, FS_PigeonHole
  <2>7. R[(b + i) % QSize] = R[(b + j) % QSize]
    BY <2>2, <2>6
  <2> QED BY <2>6, <2>7 DEF Apart, c
<1> HIDE DEF c, d
<1>3. c <= d
  BY <1>1, <1>2
<1> QED BY <1>3 DEF c, d

----------------------------------------------------------------------------
(* The pool of slots, and the drain of the used ring.                      *)

\* Slot s, live in P, is at rest in Q, and nothing else has changed.
Freed(P, Q, s) ==
  /\ PoolSound(Q) /\ Q.routing[s] = NoReq
  /\ \A t \in BlkSlots : t # s => Q.routing[t] = P.routing[t]

LEMMA CompleteFrees ==
  ASSUME NEW P, PoolSound(P), NEW s \in BlkSlots, P.routing[s] # NoReq
  PROVE  Freed(P, Complete(P, s), s)
<1> DEFINE R == [P.routing EXCEPT ![s] = NoReq]
           F == Append(P.free, s)
           Q == [routing |-> R, free |-> F]
<1>1. P.routing \in [BlkSlots -> Targets \cup {NoReq}] /\ P.free \in Seq(BlkSlots)
  BY DEF PoolSound, Pools
<1>2. s # NoReq
  BY QueueAssumption, QueueSizes
<1>3. Complete(P, s) = Q
  BY <1>2 DEF Complete
<1>4. /\ R \in [BlkSlots -> Targets \cup {NoReq}] /\ R[s] = NoReq
      /\ \A t \in BlkSlots : t # s => R[t] = P.routing[t]
  BY <1>1
<1>5. /\ F \in Seq(BlkSlots) /\ Len(F) = Len(P.free) + 1 /\ F[Len(F)] = s /\ Len(P.free) \in Nat
      /\ \A i \in 1 .. Len(P.free) : F[i] = P.free[i] /\ P.free[i] \in BlkSlots
  BY <1>1
<1>6. Q.routing = R /\ Q.free = F /\ Q \in Pools
  BY <1>4, <1>5 DEF Pools
<1> DEFINE n == Len(P.free)
           m == Len(F)
<1> HIDE DEF R, F, Q, n, m
<1>7. n \in Nat /\ m = n + 1 /\ \A i \in 1 .. m : i \in 1 .. n \/ i = m
  BY <1>5 DEF n, m
<1>8. /\ \A i \in 1 .. n : P.routing[P.free[i]] = NoReq /\ P.free[i] # s
      /\ \A i, j \in 1 .. n : P.free[i] = P.free[j] => i = j
  BY DEF PoolSound, n
<1>9. \A i \in 1 .. m : R[F[i]] = NoReq
  BY <1>4, <1>5, <1>7, <1>8 DEF n, m
<1>10. \A i, j \in 1 .. m : F[i] = F[j] => i = j
  BY <1>5, <1>7, <1>8 DEF n, m
<1>11. PoolSound(Q)
  BY <1>6, <1>9, <1>10 DEF PoolSound, m
<1>12. Freed(P, Q, s)
  BY <1>4, <1>6, <1>11 DEF Freed
<1> QED BY <1>3, <1>12

\* Inflights::submit takes a slot at rest.
Taken(Q, s, target) ==
  /\ s \in BlkSlots /\ blkPool.routing[s] = NoReq
  /\ PoolSound(Q) /\ Q.routing[s] = target
  /\ \A t \in BlkSlots : t # s => Q.routing[t] = blkPool.routing[t]

LEMMA SubmitTakes ==
  ASSUME PoolSound(blkPool), blkPool.free # <<>>, NEW target \in Targets
  PROVE  Taken(Submit(target), Top, target)
<1> DEFINE s == Top
           L == Len(blkPool.free)
           R == [blkPool.routing EXCEPT ![s] = target]
           F == SubSeq(blkPool.free, 1, L - 1)
           Q == [routing |-> R, free |-> F]
<1>1. blkPool.routing \in [BlkSlots -> Targets \cup {NoReq}] /\ blkPool.free \in Seq(BlkSlots)
  BY DEF PoolSound, Pools
<1>2. /\ L \in Nat /\ L > 0 /\ s = blkPool.free[L]
      /\ \A i \in 1 .. L : blkPool.free[i] \in BlkSlots
  BY <1>1, EmptySeq, LenProperties DEF Top
<1>3. /\ F \in Seq(BlkSlots) /\ Len(F) = L - 1
      /\ \A i \in 1 .. L - 1 : F[i] = blkPool.free[i]
  BY <1>1, <1>2, SubSeqProperties
<1>4. Submit(target) = Q
  BY DEF Submit
<1> HIDE DEF s, L, F
<1>5. s \in BlkSlots /\ blkPool.routing[s] = NoReq
  BY <1>2 DEF PoolSound, L
<1>6. /\ R \in [BlkSlots -> Targets \cup {NoReq}] /\ R[s] = target
      /\ \A t \in BlkSlots : t # s => R[t] = blkPool.routing[t]
  BY <1>1, <1>5
<1> HIDE DEF R
<1>7. Q.routing = R /\ Q.free = F /\ Q \in Pools
  BY <1>3, <1>6 DEF Pools
<1> HIDE DEF Q
<1>8. /\ \A i \in 1 .. L : blkPool.routing[blkPool.free[i]] = NoReq
      /\ \A i, j \in 1 .. L : blkPool.free[i] = blkPool.free[j] => i = j
  BY DEF PoolSound, L
<1>9. \A i \in 1 .. L - 1 : i \in 1 .. L /\ i # L
  BY <1>2
<1>10. L \in 1 .. L
  BY <1>2
<1>11. \A i \in 1 .. L - 1 : R[F[i]] = NoReq
  BY <1>2, <1>3, <1>6, <1>8, <1>9, <1>10
<1>12. \A i, j \in 1 .. L - 1 : F[i] = F[j] => i = j
  BY <1>3, <1>8, <1>9
<1>13. PoolSound(Q)
  BY <1>3, <1>7, <1>11, <1>12 DEF PoolSound
<1>14. Taken(Q, s, target)
  BY <1>5, <1>6, <1>7, <1>13 DEF Taken
<1> QED BY <1>4, <1>14 DEF s

\* What is finished and not yet consumed.
LEMMA GapMeets ==
  ASSUME NEW a \in Ind, NEW b \in Ind
  PROVE  /\ Wrap(b + Gap(a, b)) = a
         /\ Wrap(a + IdxMod - b) = Gap(a, b)
         /\ Gap(a, b) = 0 <=> a = b
<1>1. IdxMod \in Nat \ {0} /\ a \in 0 .. IdxMod - 1 /\ b \in 0 .. IdxMod - 1
  BY QueueSizes DEF Ind
<1>2. a - b \in Int /\ (a - b) + b = a /\ b \in Int /\ a \in Int
  BY <1>1
<1> DEFINE c == (a - b) % IdxMod
<1>3. (c + b) % IdxMod = ((a - b) + b) % IdxMod /\ c \in 0 .. IdxMod - 1
  BY <1>1, <1>2, ModSum, DivMod
<1>4. a % IdxMod = a /\ b % IdxMod = b
  BY <1>1, ModSmall
<1>5. (c + b) % IdxMod = a
  BY <1>2, <1>3, <1>4
<1> HIDE DEF c
<1>6. c \in Int /\ b + c = c + b
  BY <1>1, <1>3
<1>7. Wrap(b + c) = a
  BY <1>5, <1>6 DEF Wrap
<1>8. Wrap(a + IdxMod - b) = c
  <2> DEFINE d == a - b
  <2>1. a + IdxMod - b = d + IdxMod * 1
    BY <1>1
  <2>2. d \in Int /\ 1 \in Int
    BY <1>2
  <2> HIDE DEF d
  <2>3. (d + IdxMod * 1) % IdxMod = d % IdxMod
    BY <1>1, <2>2, ModShift
  <2> QED BY <2>1, <2>3 DEF Wrap, c, d
<1>9. c = 0 <=> a = b
  <2>1. ASSUME c = 0 PROVE a = b
    <3>1. 0 + b = b
      BY <1>1
    <3> QED BY <1>4, <1>5, <2>1, <3>1
  <2>2. ASSUME a = b PROVE c = 0
    <3>1. a - b = 0
      BY <1>1, <2>2
    <3>2. 0 % IdxMod = 0
      BY <1>1, ModSmall
    <3> QED BY <3>1, <3>2 DEF c
  <2> QED BY <2>1, <2>2
<1> QED BY <1>7, <1>8, <1>9 DEF c, Gap

LEMMA UnseenIs ==
  ASSUME blkUsed.idx \in Ind, last_used \in Ind
  PROVE  LET c == Gap(blkUsed.idx, last_used)
         IN /\ c \in Nat /\ Len(Unseen) = c
            /\ \A i \in 1 .. c : Unseen[i] = blkUsed.ring[(last_used + (i - 1)) % QSize]
            /\ Unseen = <<>> <=> blkUsed.idx = last_used
            /\ Wrap(last_used + Len(Unseen)) = blkUsed.idx
<1> DEFINE c == Gap(blkUsed.idx, last_used)
<1>1. c \in Nat
  BY GapSteps
<1>2. /\ Wrap(blkUsed.idx + IdxMod - last_used) = c /\ Wrap(last_used + c) = blkUsed.idx
      /\ c = 0 <=> blkUsed.idx = last_used
  BY GapMeets
<1> HIDE DEF c
<1>3. Unseen = [i \in 1 .. c |-> blkUsed.ring[Wrap(last_used + i - 1) % QSize]]
  BY <1>2 DEF Unseen
<1>4. Len(Unseen) = c
  BY <1>1, <1>3
<1>5. ASSUME NEW i \in 1 .. c PROVE Unseen[i] = blkUsed.ring[(last_used + (i - 1)) % QSize]
  <2>1. last_used + i - 1 \in Int /\ last_used + i - 1 = last_used + (i - 1)
    BY <1>1, QueueSizes DEF Ind
  <2>2. Wrap(last_used + i - 1) % QSize = (last_used + (i - 1)) % QSize
    BY <2>1, PlaceWraps DEF Wrap
  <2> QED BY <1>3, <2>2
<1>6. Unseen = <<>> <=> c = 0
  BY <1>1, <1>3, <1>4
<1>7. /\ c \in Nat /\ Len(Unseen) = c
      /\ \A i \in 1 .. c : Unseen[i] = blkUsed.ring[(last_used + (i - 1)) % QSize]
      /\ Unseen = <<>> <=> blkUsed.idx = last_used
      /\ Wrap(last_used + Len(Unseen)) = blkUsed.idx
  BY <1>1, <1>2, <1>4, <1>5, <1>6
<1> QED BY <1>7 DEF c

\* The heads to be drained, one per finished chain.
LEMMA UnseenFinished ==
  ASSUME blkUsed.idx \in Ind, last_used \in Ind,
         Apart(blkUsed.idx, last_used, blkUsed.ring), Finished \subseteq Heads
  PROVE  /\ Len(Unseen) \in Nat
         /\ \A i \in 1 .. Len(Unseen) : \E s \in BlkSlots : Unseen[i] = ChainHead(s)
         /\ \A i \in 1 .. Len(Unseen) : Unseen[i] \in Finished
         /\ \A x \in Finished : \E i \in 1 .. Len(Unseen) : Unseen[i] = x
         /\ \A i, j \in 1 .. Len(Unseen) : Unseen[i] = Unseen[j] => i = j
<1> DEFINE c == Gap(blkUsed.idx, last_used)
           Cell(k) == blkUsed.ring[(last_used + k) % QSize]
<1>1. /\ c \in Nat /\ Len(Unseen) = c
      /\ \A i \in 1 .. c : Unseen[i] = Cell(i - 1)
  BY UnseenIs
<1>2. /\ \A k \in 0 .. c - 1 : Cell(k) \in Finished
      /\ \A x \in Finished : \E k \in 0 .. c - 1 : x = Cell(k)
      /\ \A k, l \in 0 .. c - 1 : Cell(k) = Cell(l) => k = l
  BY DEF Finished, Window, Apart
<1> HIDE DEF c, Cell
<1>3. /\ \A i \in 1 .. c : i - 1 \in 0 .. c - 1
      /\ \A k \in 0 .. c - 1 : k + 1 \in 1 .. c /\ (k + 1) - 1 = k
      /\ \A i, j \in 1 .. c : i - 1 = j - 1 => i = j
  BY <1>1
<1>4. \A i \in 1 .. c : Unseen[i] \in Finished
  BY <1>1, <1>2, <1>3
<1>5. ASSUME NEW x \in Finished PROVE \E i \in 1 .. c : Unseen[i] = x
  <2>1. PICK k \in 0 .. c - 1 : x = Cell(k)
    BY <1>2
  <2>2. k + 1 \in 1 .. c /\ Unseen[k + 1] = Cell((k + 1) - 1) /\ (k + 1) - 1 = k
    BY ONLY <1>1, <1>3, <2>1
  <2> QED BY ONLY <2>1, <2>2
<1>6. \A i, j \in 1 .. c : Unseen[i] = Unseen[j] => i = j
  BY <1>1, <1>2, <1>3
<1>7. \A i \in 1 .. c : \E s \in BlkSlots : Unseen[i] = ChainHead(s)
  BY <1>4 DEF Heads
<1> QED BY <1>1, <1>4, <1>5, <1>6, <1>7

\* One completion of drain_completions.
DrainStep(prev, head) ==
  LET slot == Demux(head)
  IN IF slot = NoReq THEN prev
     ELSE IF prev.pool.routing[slot] = NoReq THEN prev
     ELSE [pool |-> Complete(prev.pool, slot),
           out |-> Append(prev.out,
                     [target |-> prev.pool.routing[slot],
                      status |-> IF blkChain[slot].status = BLK_OK THEN BLK_OK ELSE BLK_E_DEV,
                      served |-> blkChain[slot].status # NoReq])]

DrainCourse(g, n) ==
  g = [k \in 0 .. n |-> IF k = 0 THEN [pool |-> blkPool, out |-> <<>>]
                        ELSE DrainStep(g[k - 1], Unseen[k])]

LEMMA DrainCourseExists ==
  ASSUME NEW n \in Nat
  PROVE  \E g : DrainCourse(g, n)
<1> DEFINE Bad == {k \in Nat : ~ \E g : DrainCourse(g, k)}
           base == [pool |-> blkPool, out |-> <<>>]
<1>1. SUFFICES ASSUME Bad # {} PROVE FALSE
  OBVIOUS
<1>2. PICK m \in Bad : \A k \in Bad : m <= k
  BY <1>1, LeastExists
<1>3. m \in Nat /\ ~ \E g : DrainCourse(g, m)
  BY <1>2
<1>4. CASE m = 0
  <2> DEFINE g == [i \in 0 .. 0 |-> base]
  <2>1. DrainCourse(g, 0)
    BY DEF DrainCourse
  <2> QED BY <1>3, <1>4, <2>1
<1>5. CASE m # 0
  <2>1. m - 1 \in Nat /\ m - 1 \notin Bad
    BY <1>2, <1>3, <1>5
  <2>2. PICK g : DrainCourse(g, m - 1)
    BY <2>1
  <2> DEFINE h == [i \in 0 .. m |-> IF i = m THEN DrainStep(g[m - 1], Unseen[m]) ELSE g[i]]
  <2>3. ASSUME NEW i \in 0 .. m
        PROVE  h[i] = IF i = 0 THEN base ELSE DrainStep(h[i - 1], Unseen[i])
    <3>1. CASE i = m
      BY <1>3, <1>5, <3>1
    <3>2. CASE i # m
      <4>1. i \in 0 .. m - 1 /\ h[i] = g[i]
        BY <1>3, <3>2
      <4>2. g[i] = IF i = 0 THEN base ELSE DrainStep(g[i - 1], Unseen[i])
        BY <2>2, <4>1 DEF DrainCourse
      <4>3. i # 0 => i - 1 \in 0 .. m /\ i - 1 # m /\ h[i - 1] = g[i - 1]
        BY <1>3, <4>1
      <4> QED BY <4>1, <4>2, <4>3
    <3> QED BY <3>1, <3>2
  <2>4. h = [i \in 0 .. m |-> h[i]]
    OBVIOUS
  <2> HIDE DEF h
  <2>5. DrainCourse(h, m)
    BY <2>3, <2>4 DEF DrainCourse
  <2> QED BY <1>3, <2>5
<1> QED BY <1>4, <1>5

LEMMA DrainedIs ==
  ASSUME Len(Unseen) \in Nat
  PROVE  \E g : DrainCourse(g, Len(Unseen)) /\ Drained = g[Len(Unseen)]
<1> DEFINE f == CHOOSE g : DrainCourse(g, Len(Unseen))
<1>1. DrainCourse(f, Len(Unseen))
  BY DrainCourseExists
<1>2. Drained = f[Len(Unseen)]
  BY DEF Drained, DrainCourse, DrainStep
<1> QED BY <1>1, <1>2

\* After the first n completions.
DrainedTo(D, n) ==
  /\ PoolSound(D.pool) /\ D.out \in Seq(Answers)
  /\ \A k \in 1 .. Len(D.out) : D.out[k].served
  /\ \A s \in BlkSlots :
       D.pool.routing[s] = IF \E i \in 1 .. n : Unseen[i] = ChainHead(s) THEN NoReq
                           ELSE blkPool.routing[s]

LEMMA DrainOne ==
  ASSUME NEW D, NEW n \in Nat, DrainedTo(D, n), NEW s \in BlkSlots, Unseen[n + 1] = ChainHead(s),
         \A i \in 1 .. n : Unseen[i] # ChainHead(s), Live(s), blkChain[s].status # NoReq
  PROVE  DrainedTo(DrainStep(D, Unseen[n + 1]), n + 1)
<1> DEFINE a == [target |-> D.pool.routing[s],
                 status |-> IF blkChain[s].status = BLK_OK THEN BLK_OK ELSE BLK_E_DEV,
                 served |-> blkChain[s].status # NoReq]
           P == Complete(D.pool, s)
           E == [pool |-> P, out |-> Append(D.out, a)]
<1>1. D.pool.routing[s] = blkPool.routing[s] /\ D.pool.routing[s] # NoReq
  BY DEF DrainedTo, Live
<1>2. s # NoReq /\ Demux(ChainHead(s)) = s
  BY HeadsTell, QueueAssumption, QueueSizes
<1>3. DrainStep(D, Unseen[n + 1]) = E
  BY <1>1, <1>2 DEF DrainStep
<1>4. Freed(D.pool, P, s)
  BY <1>1, CompleteFrees DEF DrainedTo
<1>5. a \in Answers /\ a.served
  <2>1. D.pool.routing[s] \in Targets
    BY <1>1 DEF DrainedTo, PoolSound, Pools
  <2>2. (blkChain[s].status # NoReq) = TRUE
    OBVIOUS
  <2>3. (IF blkChain[s].status = BLK_OK THEN BLK_OK ELSE BLK_E_DEV) \in Nat
    BY DEF BLK_OK, BLK_E_DEV
  <2> QED BY <2>1, <2>2, <2>3 DEF Answers
<1> HIDE DEF a, P
<1>6. /\ Append(D.out, a) \in Seq(Answers)
      /\ \A k \in 1 .. Len(Append(D.out, a)) : Append(D.out, a)[k].served
  <2> DEFINE o == D.out
  <2>1. o \in Seq(Answers) /\ \A k \in 1 .. Len(o) : o[k].served
    BY DEF DrainedTo
  <2> HIDE DEF o
  <2>2. /\ Append(o, a) \in Seq(Answers) /\ Len(o) \in Nat /\ Len(Append(o, a)) = Len(o) + 1
        /\ Append(o, a)[Len(o) + 1] = a /\ \A k \in 1 .. Len(o) : Append(o, a)[k] = o[k]
    BY <1>5, <2>1
  <2>3. \A k \in 1 .. Len(Append(o, a)) : k \in 1 .. Len(o) \/ k = Len(o) + 1
    BY <2>2
  <2> QED BY <1>5, <2>1, <2>2, <2>3 DEF o
<1>7. ASSUME NEW t \in BlkSlots
      PROVE  P.routing[t] = IF \E i \in 1 .. n + 1 : Unseen[i] = ChainHead(t) THEN NoReq
                            ELSE blkPool.routing[t]
  <2>1. \A i \in 1 .. n + 1 : i \in 1 .. n \/ i = n + 1
    OBVIOUS
  <2>2. n + 1 \in 1 .. n + 1 /\ 1 .. n \subseteq 1 .. n + 1
    OBVIOUS
  <2>3. CASE t = s
    BY <1>4, <2>2, <2>3 DEF Freed
  <2>4. CASE t # s
    <3>1. Unseen[n + 1] # ChainHead(t)
      BY <2>4, HeadsTell
    <3>2. P.routing[t] = D.pool.routing[t]
      BY <1>4, <2>4 DEF Freed
    <3> QED BY <2>1, <2>2, <3>1, <3>2 DEF DrainedTo
  <2> QED BY <2>3, <2>4
<1>8. E.pool = P /\ E.out = Append(D.out, a)
  OBVIOUS
<1> HIDE DEF E
<1>9. DrainedTo(E, n + 1)
  BY <1>4, <1>6, <1>7, <1>8 DEF DrainedTo, Freed
<1> QED BY <1>3, <1>9

\* drain_completions frees exactly the finished slots, and hands on what the
\* device has answered.
LEMMA DrainFrees ==
  ASSUME BlkTypes, PoolSound(blkPool), ChainsSound
  PROVE  DrainedTo(Drained, Len(Unseen))
<1>1. blkUsed.idx \in Ind /\ last_used \in Ind
  BY DEF BlkTypes
<1>2. /\ Len(Unseen) \in Nat
      /\ \A i \in 1 .. Len(Unseen) : \E s \in BlkSlots : Unseen[i] = ChainHead(s)
      /\ \A i \in 1 .. Len(Unseen) : Unseen[i] \in Finished
      /\ \A i, j \in 1 .. Len(Unseen) : Unseen[i] = Unseen[j] => i = j
  BY <1>1, UnseenFinished DEF ChainsSound
<1>3. PICK g : DrainCourse(g, Len(Unseen)) /\ Drained = g[Len(Unseen)]
  BY <1>2, DrainedIs
<1> DEFINE N == Len(Unseen)
           Bad == {n \in 0 .. N : ~DrainedTo(g[n], n)}
<1> HIDE DEF N
<1>4. SUFFICES ASSUME Bad # {} PROVE FALSE
  BY <1>2, <1>3 DEF N
<1>5. N \in Nat
  BY <1>2 DEF N
<1>6. PICK n \in Bad : \A k \in Bad : n <= k
  <2>1. Bad \in SUBSET Nat
    BY <1>5
  <2> QED BY <1>4, <2>1, LeastExists
<1>7. n \in 0 .. N /\ n \in Nat /\ ~DrainedTo(g[n], n)
  BY <1>5, <1>6
<1>8. g[0] = [pool |-> blkPool, out |-> <<>>]
  <2>1. 0 \in 0 .. N
    BY <1>5
  <2> QED BY <1>3, <2>1 DEF DrainCourse, N
<1>9. DrainedTo(g[0], 0)
  <2>1. g[0].pool = blkPool /\ g[0].out = <<>>
    BY <1>8
  <2>2. \A s \in BlkSlots : ~ \E i \in 1 .. 0 : Unseen[i] = ChainHead(s)
    OBVIOUS
  <2>3. g[0].out \in Seq(Answers) /\ \A k \in 1 .. Len(g[0].out) : g[0].out[k].served
    BY <2>1
  <2> QED BY <2>1, <2>2, <2>3 DEF DrainedTo
<1>10. n # 0
  BY <1>7, <1>9
<1>11. PICK m \in Nat : n = m + 1
  <2>1. n - 1 \in Nat /\ n = (n - 1) + 1
    BY <1>7, <1>10
  <2> QED BY <2>1
<1>12. m \in 0 .. N /\ m + 1 \in 1 .. N /\ m + 1 \in 0 .. N /\ ~(n <= m) /\ (m + 1) - 1 = m
       /\ \A i \in 1 .. m : i \in 1 .. N /\ i # m + 1
  BY <1>5, <1>7, <1>11
<1>13. DrainedTo(g[m], m)
  BY <1>6, <1>12
<1>14. g[m + 1] = DrainStep(g[m], Unseen[m + 1])
  BY <1>3, <1>7, <1>11, <1>12 DEF DrainCourse, N
<1>15. PICK s \in BlkSlots : Unseen[m + 1] = ChainHead(s)
  BY <1>2, <1>12 DEF N
<1>16. ChainHead(s) \in Finished
  BY <1>2, <1>12, <1>15 DEF N
<1>17. Live(s) /\ blkChain[s].status # NoReq
  BY <1>16 DEF ChainsSound
<1>18. \A i \in 1 .. m : Unseen[i] # ChainHead(s)
  BY <1>2, <1>12, <1>15 DEF N
<1>19. DrainedTo(DrainStep(g[m], Unseen[m + 1]), m + 1)
  BY <1>13, <1>15, <1>17, <1>18, DrainOne
<1> QED BY <1>7, <1>11, <1>14, <1>19

----------------------------------------------------------------------------
(* The block driver: every step.                                           *)

LEMMA BlkFields ==
  ASSUME BlkTypes
  PROVE  /\ blkAvail.idx \in Ind /\ blkAvail.ring \in Buffers /\ blkAvail.quiet \in BOOLEAN
         /\ blkUsed.idx \in Ind /\ blkUsed.ring \in Buffers /\ last_used \in Ind
         /\ device.seen \in Ind /\ device.busy \subseteq BlkSlots
BY DEF BlkTypes, Buffers

\* An empty used ring has nothing unseen.
LEMMA NoneUnseen ==
  ASSUME NEW u, NEW l \in Ind, u.idx = l
  PROVE  LET n == Wrap(u.idx + IdxMod - l)
         IN [i \in 1 .. n |-> u.ring[Wrap(l + i - 1) % QSize]] = <<>>
<1> DEFINE n == Wrap(u.idx + IdxMod - l)
<1>1. n = 0
  <2>1. Gap(l, l) = 0 /\ Wrap(l + IdxMod - l) = Gap(l, l)
    BY GapMeets
  <2> QED BY <2>1
<1> HIDE DEF n
<1>2. [i \in 1 .. n |-> u.ring[Wrap(l + i - 1) % QSize]] = <<>>
  BY <1>1
<1> QED BY <1>2 DEF n

LEMMA SignalsSuffice ==
  ASSUME last_used' \in Ind, Signals', ~gave_up'
  PROVE  CompletionSignalled'
<1>1. ASSUME Runtime', Unseen' # <<>> PROVE (blkIrq \/ draining)'
  <2>1. blkUsed'.idx # last_used'
    BY <1>1, NoneUnseen DEF Unseen
  <2> QED BY <1>1, <2>1 DEF Signals, Runtime
<1> QED BY <1>1 DEF CompletionSignalled

\* Nothing live, nothing finished.
LEMMA FinishedLive ==
  ASSUME BlkTypes, ChainsSound, blkUsed.idx # last_used
  PROVE  \E s \in BlkSlots : ChainHead(s) \in Finished /\ Live(s)
<1>1. Removed(blkUsed.idx, last_used, blkUsed.ring)
  BY BlkFields, WindowPop DEF ChainsSound
<1>2. blkUsed.ring[last_used % QSize] \in Finished
  BY <1>1 DEF Removed, Finished
<1>3. PICK s \in BlkSlots : ChainHead(s) \in Finished
  BY <1>2 DEF ChainsSound, Heads
<1> QED BY <1>3 DEF ChainsSound

LEMMA RoomThere ==
  ASSUME NEW a \in Ind, NEW b \in Ind, NEW R \in Buffers, Apart(a, b, R), Window(a, b, R) \subseteq Heads,
         NEW s \in BlkSlots
  PROVE  Gap(a, b) + 1 < QSize
<1>1. Gap(a, b) \in Nat
  BY GapSteps, QueueSizes
<1>2. Gap(a, b) <= QSize \div DescPerReq
  BY WindowShort
<1>3. (QSize \div DescPerReq) + 1 < QSize /\ QSize \div DescPerReq \in Nat /\ QSize \in Nat
  BY QueueSizes
<1> QED BY <1>1, <1>2, <1>3

\* post_request on the slot of submit.
LEMMA PostPublishes ==
  ASSUME BlkTypes, PoolSound(blkPool), ChainsSound, blkPool.free # <<>>,
         NEW target \in Targets, NEW frame \in BlkFrames \cup {Poison}, NEW quiet \in BOOLEAN,
         NEW skip \in BOOLEAN, skip \/ frame \in BlkFrames,
         blkPool' = Submit(target), PostRequest(Top, reqs + 1, frame, quiet, skip),
         blkUsed' = blkUsed, last_used' = last_used, device' = device
  PROVE  /\ PoolSound(blkPool') /\ ChainsSound'
         /\ blkAvail' \in [idx : Ind, ring : [0 .. QSize - 1 -> Nat], quiet : BOOLEAN]
         /\ blkAvail'.quiet = quiet
         /\ blkChain' \in [BlkSlots -> [id : Nat \cup {NoReq}, frame : BlkFrames \cup {Poison, NoReq},
                                      status : {NoReq, 0, 1}]]
         /\ reqs' \in Nat /\ domain' \in SUBSET BlkFrames
         /\ ~skip => frame \in domain'
         /\ \E s \in BlkSlots : s = Top /\ blkChain'[s].frame = frame
                                /\ Taken(blkPool', s, target)
<1>1. PICK s : s = Top
  OBVIOUS
<1>2. Taken(blkPool', s, target)
  BY <1>1, SubmitTakes
<1>3. s \in BlkSlots /\ ~Live(s)
  BY <1>2 DEF Taken, Live
<1> DEFINE h == ChainHead(s)
           R == blkAvail.ring
           Q == [R EXCEPT ![blkAvail.idx % QSize] = h]
           a == blkAvail.idx
           a1 == Wrap(a + 1)
           x == [id |-> reqs + 1, frame |-> frame, status |-> NoReq]
<1>4. /\ a \in Ind /\ R \in Buffers /\ device.seen \in Ind /\ h \in Nat
      /\ reqs \in Nat /\ blkUsed.idx \in Ind
  BY <1>3, BlkFields, QueueSizes DEF BlkTypes
<1>5. Appended(a, device.seen, R, Q, h)
  <2>1. Gap(a, device.seen) + 1 < QSize
    BY <1>3, <1>4, RoomThere DEF ChainsSound, Published
  <2> QED BY <1>4, <2>1, WindowPush
<1>6. blkAvail' = [idx |-> a1, quiet |-> quiet, ring |-> Q] /\ blkChain' = [blkChain EXCEPT ![s] = x]
      /\ reqs' = reqs + 1 /\ domain' = IF skip THEN domain ELSE domain \cup {frame}
  BY <1>1 DEF PostRequest, MapDma
<1>7. h \notin Published
  BY <1>3 DEF ChainsSound
<1>8. x \in [id : Nat \cup {NoReq}, frame : BlkFrames \cup {Poison, NoReq}, status : {NoReq, 0, 1}]
      /\ x.frame = frame
  BY <1>4
<1> HIDE DEF x, Q, a1
<1>9. /\ a1 \in Ind /\ Q \in Buffers /\ Window(a1, device.seen, Q) = Published \cup {h}
      /\ Apart(a1, device.seen, Q)
  BY <1>5, <1>7 DEF Appended, ChainsSound, Published, a1
<1>10. /\ blkAvail' \in [idx : Ind, ring : [0 .. QSize - 1 -> Nat], quiet : BOOLEAN]
       /\ blkAvail'.quiet = quiet /\ blkAvail'.idx = a1 /\ blkAvail'.ring = Q
  BY <1>6, <1>9 DEF Buffers
<1>11. /\ blkChain' \in [BlkSlots -> [id : Nat \cup {NoReq}, frame : BlkFrames \cup {Poison, NoReq},
                                    status : {NoReq, 0, 1}]]
       /\ blkChain'[s] = x /\ \A t \in BlkSlots : t # s => blkChain'[t] = blkChain[t]
  BY <1>3, <1>6, <1>8 DEF BlkTypes
<1>12. reqs' \in Nat /\ domain' \in SUBSET BlkFrames /\ (~skip => frame \in domain')
  BY <1>4, <1>6 DEF BlkTypes
<1>13. Published' = Published \cup {h} /\ Finished' = Finished
  BY <1>9, <1>10 DEF Published, Finished
<1>14. \A t \in BlkSlots : (Live(t) => Live(t)') /\ (t = s => Live(t)')
  BY <1>2, QueueAssumption DEF Live, Taken
<1>15. ChainsSound'
  <2>1. h \in Heads
    BY <1>3 DEF Heads
  <2>2. Published' \subseteq Heads /\ Finished' \subseteq Heads
    BY <1>13, <2>1 DEF ChainsSound
  <2>3. Apart(blkAvail.idx, device.seen, blkAvail.ring)' /\ Apart(blkUsed.idx, last_used, blkUsed.ring)'
    BY <1>9, <1>10 DEF ChainsSound
  <2>4. ASSUME NEW t \in BlkSlots
        PROVE  /\ ChainHead(t) \in Published' \/ ChainHead(t) \in Finished' \/ t \in device'.busy => Live(t)'
               /\ ~(ChainHead(t) \in Published' /\ ChainHead(t) \in Finished')
               /\ ~(t \in device'.busy /\ ChainHead(t) \in Published' \cup Finished')
               /\ ChainHead(t) \in Finished' => blkChain'[t].status # NoReq
    <3>1. ChainHead(t) = h => t = s
      BY <1>3, HeadsTell
    <3>2. t = s => ChainHead(t) \notin Finished /\ t \notin device.busy
      BY <1>3 DEF ChainsSound
    <3> QED BY <1>11, <1>13, <1>14, <3>1, <3>2 DEF ChainsSound
  <2> QED BY <2>2, <2>3, <2>4 DEF ChainsSound
<1>16. blkChain'[s].frame = frame
  BY <1>8, <1>11
<1> QED BY <1>1, <1>2, <1>3, <1>10, <1>11, <1>12, <1>15, <1>16 DEF Taken

\* What the invariant says of a step after which the boot goes on as before.
LEMMA BootKept ==
  ASSUME BootSound, tests' = tests, poller' = poller, draining' = draining, blkPool' = blkPool,
         domain' = domain, blkUsed' = blkUsed, last_used' = last_used, fault' = fault,
         blkChain' = blkChain
  PROVE  BootSound'
BY DEF BootSound, Live

\* The device takes a chain.
LEMMA TakeKeepsBlk ==
  ASSUME BlkCore, CompletionsRight, ~gave_up, DeviceTake
  PROVE  BlkInv'
<1>0. BlkTypes /\ PoolSound(blkPool) /\ ChainsSound /\ BootSound /\ Signals
  BY DEF BlkCore
<1>1. /\ blkPool' = blkPool /\ blkChain' = blkChain /\ blkAvail' = blkAvail /\ blkUsed' = blkUsed
      /\ last_used' = last_used /\ blkIrq' = blkIrq /\ draining' = draining /\ fault' = fault
      /\ poller' = poller /\ domain' = domain /\ tests' = tests /\ unread' = unread /\ parked' = parked
      /\ verdict' = verdict /\ gave_up' = gave_up /\ reqs' = reqs
  BY DEF DeviceTake, bootVars, poolVars, queueVars, clientVars
<1> DEFINE h == blkAvail.ring[device.seen % QSize]
<1>2. /\ device.seen # blkAvail.idx
      /\ device' = [seen |-> Wrap(device.seen + 1), busy |-> device.busy \cup {h \div DescPerReq}]
  BY DEF DeviceTake
<1>3. Removed(blkAvail.idx, device.seen, blkAvail.ring)
  BY <1>0, <1>2, BlkFields, WindowPop DEF ChainsSound
<1> HIDE DEF h
<1>4. /\ Wrap(device.seen + 1) \in Ind /\ h \in Published
      /\ Window(blkAvail.idx, Wrap(device.seen + 1), blkAvail.ring) = Published \ {h}
      /\ Apart(blkAvail.idx, Wrap(device.seen + 1), blkAvail.ring)
  BY <1>3 DEF Removed, Published, h
<1>5. PICK s \in BlkSlots : h = ChainHead(s)
  BY <1>0, <1>4 DEF ChainsSound, Heads
<1>6. h \div DescPerReq = s
  BY <1>5, QueueSizes
<1>7. /\ device'.seen = Wrap(device.seen + 1) /\ device'.busy = device.busy \cup {s}
      /\ device' \in [seen : Ind, busy : SUBSET BlkSlots]
  BY <1>0, <1>2, <1>4, <1>6, BlkFields
<1>8. Published' = Published \ {h} /\ Finished' = Finished
  BY <1>1, <1>4, <1>7 DEF Published, Finished
<1>9. BlkTypes'
  BY <1>0, <1>1, <1>7 DEF BlkTypes
<1>10. ChainsSound'
  <2>1. Published' \subseteq Heads /\ Finished' \subseteq Heads
    BY <1>0, <1>8 DEF ChainsSound
  <2>2. Apart(blkAvail.idx, device.seen, blkAvail.ring)' /\ Apart(blkUsed.idx, last_used, blkUsed.ring)'
    BY <1>0, <1>1, <1>4, <1>7 DEF ChainsSound
  <2>3. ASSUME NEW t \in BlkSlots
        PROVE  /\ ChainHead(t) \in Published' \/ ChainHead(t) \in Finished' \/ t \in device'.busy => Live(t)'
               /\ ~(ChainHead(t) \in Published' /\ ChainHead(t) \in Finished')
               /\ ~(t \in device'.busy /\ ChainHead(t) \in Published' \cup Finished')
               /\ ChainHead(t) \in Finished' => blkChain'[t].status # NoReq
    <3>1. ChainHead(t) = h <=> t = s
      BY <1>5, HeadsTell
    <3>2. Live(t)' = Live(t)
      BY <1>1 DEF Live
    <3> QED BY <1>0, <1>1, <1>4, <1>7, <1>8, <3>1, <3>2 DEF ChainsSound
  <2> QED BY <2>1, <2>2, <2>3 DEF ChainsSound
<1>11. BootSound'
  BY <1>0, <1>1, BootKept
<1>12. Signals' /\ PoolSound(blkPool')
  BY <1>0, <1>1 DEF Signals, Live
<1>13. CompletionsRight'
  <2>1. last_used' \in Ind /\ ~gave_up'
    BY <1>1, <1>9 DEF BlkTypes
  <2>2. CompletionSignalled'
    BY <1>12, <2>1, SignalsSuffice
  <2>3. AnswersServed' /\ FaultControl'
    BY <1>1 DEF CompletionsRight, AnswersServed, FaultControl
  <2> QED BY <2>2, <2>3 DEF CompletionsRight
<1> QED BY <1>9, <1>10, <1>11, <1>12, <1>13 DEF BlkInv, BlkCore

\* The device serves a chain it has taken.
LEMMA ServeKeepsBlk ==
  ASSUME BlkCore, CompletionsRight, ~gave_up, NEW s \in BlkSlots, NEW st \in {BLK_OK, 1},
         DeviceServe(s, st)
  PROVE  BlkInv'
<1>0. BlkTypes /\ PoolSound(blkPool) /\ ChainsSound /\ BootSound /\ Signals
  BY DEF BlkCore
<1>1. /\ blkPool' = blkPool /\ blkAvail' = blkAvail
      /\ last_used' = last_used /\ draining' = draining
      /\ poller' = poller /\ domain' = domain /\ tests' = tests /\ unread' = unread /\ parked' = parked
      /\ verdict' = verdict /\ gave_up' = gave_up /\ reqs' = reqs
  BY DEF DeviceServe, bootVars, poolVars, clientVars
<1> DEFINE h == ChainHead(s)
           R == blkUsed.ring
           a == blkUsed.idx
           Q == [R EXCEPT ![a % QSize] = h]
           a1 == Wrap(a + 1)
           x == [blkChain[s] EXCEPT !.status = st]
           frame == blkChain[s].frame
<1>2. /\ s \in device.busy /\ device' = [device EXCEPT !.busy = @ \ {s}]
      /\ blkUsed' = [idx |-> a1, ring |-> Q] /\ blkChain' = [blkChain EXCEPT ![s] = x]
      /\ blkIrq' = (blkIrq \/ ~blkAvail.quiet) /\ fault' = (fault \/ frame \notin domain)
  BY DEF DeviceServe
<1>3. Live(s) /\ h \notin Published /\ h \notin Finished
  BY <1>0, <1>2 DEF ChainsSound
<1>4. a \in Ind /\ R \in Buffers /\ last_used \in Ind /\ h \in Nat
  BY <1>0, BlkFields, QueueSizes
<1>5. Appended(a, last_used, R, Q, h)
  <2>1. Gap(a, last_used) + 1 < QSize
    BY <1>0, <1>4, RoomThere DEF ChainsSound, Finished
  <2> QED BY <1>4, <2>1, WindowPush
<1>6. /\ x \in [id : Nat \cup {NoReq}, frame : BlkFrames \cup {Poison, NoReq}, status : {NoReq, 0, 1}]
      /\ x.frame = frame /\ x.status = st
  BY <1>0 DEF BlkTypes, BLK_OK
<1> HIDE DEF Q, a1, x, frame
<1>7. /\ a1 \in Ind /\ Q \in Buffers /\ Window(a1, last_used, Q) = Finished \cup {h}
      /\ Apart(a1, last_used, Q) /\ a1 # last_used
  BY <1>0, <1>3, <1>5 DEF Appended, ChainsSound, Finished, a1
<1>8. blkUsed' \in [idx : Ind, ring : [0 .. QSize - 1 -> Nat]] /\ blkUsed'.idx = a1 /\ blkUsed'.ring = Q
  BY <1>2, <1>7 DEF Buffers
<1>9. /\ blkChain' \in [BlkSlots -> [id : Nat \cup {NoReq}, frame : BlkFrames \cup {Poison, NoReq},
                                   status : {NoReq, 0, 1}]]
      /\ blkChain'[s] = x /\ \A t \in BlkSlots : t # s => blkChain'[t] = blkChain[t]
  BY <1>0, <1>2, <1>6 DEF BlkTypes
<1>10. /\ device'.seen = device.seen /\ device'.busy = device.busy \ {s}
       /\ device' \in [seen : Ind, busy : SUBSET BlkSlots]
  BY <1>0, <1>2 DEF BlkTypes
<1>11. Published' = Published /\ Finished' = Finished \cup {h}
  BY <1>1, <1>7, <1>8, <1>10 DEF Published, Finished
<1>12. st # NoReq
  BY QueueAssumption DEF BLK_OK
<1>13. blkIrq' \in BOOLEAN /\ fault' \in BOOLEAN
  BY <1>2
<1>14. BlkTypes'
  BY <1>0, <1>1, <1>8, <1>9, <1>10, <1>13 DEF BlkTypes
<1>15. ChainsSound'
  <2>0. h \in Heads
    BY DEF Heads
  <2>1. Published' \subseteq Heads /\ Finished' \subseteq Heads
    BY <1>0, <1>11, <2>0 DEF ChainsSound
  <2>2. Apart(blkAvail.idx, device.seen, blkAvail.ring)' /\ Apart(blkUsed.idx, last_used, blkUsed.ring)'
    BY <1>0, <1>1, <1>7, <1>8, <1>10 DEF ChainsSound
  <2>3. ASSUME NEW t \in BlkSlots
        PROVE  /\ ChainHead(t) \in Published' \/ ChainHead(t) \in Finished' \/ t \in device'.busy => Live(t)'
               /\ ~(ChainHead(t) \in Published' /\ ChainHead(t) \in Finished')
               /\ ~(t \in device'.busy /\ ChainHead(t) \in Published' \cup Finished')
               /\ ChainHead(t) \in Finished' => blkChain'[t].status # NoReq
    <3>1. ChainHead(t) = h <=> t = s
      BY HeadsTell
    <3>2. Live(t)' = Live(t)
      BY <1>1 DEF Live
    <3> QED BY <1>0, <1>3, <1>6, <1>9, <1>10, <1>11, <1>12, <3>1, <3>2 DEF ChainsSound
  <2> QED BY <2>1, <2>2, <2>3 DEF ChainsSound
<1>16. BootSound'
  <2>1. \A t \in BlkSlots : Live(t)' = Live(t)
    BY <1>1 DEF Live
  <2>2. ASSUME poller # NoReq
        PROVE  /\ poller.frame = blkChain'[poller.slot].frame
               /\ fault' <=> (poller.frame = Poison /\ blkUsed'.idx # last_used)
    <3>1. poller.slot = s /\ poller.frame = frame
      BY <1>0, <1>3, <2>2 DEF BootSound, frame
    <3>2. poller.frame = Poison => frame \notin domain
      BY <1>0, <3>1, QueueAssumption DEF Poison, BlkTypes
    <3>3. poller.frame # Poison => frame \in domain /\ ~fault
      BY <1>0, <2>2, <3>1 DEF BootSound
    <3>4. blkUsed'.idx # last_used
      BY <1>7, <1>8
    <3> QED BY <1>2, <1>6, <1>9, <3>1, <3>2, <3>3, <3>4
  <2>3. tests # <<>> => poller # NoReq
    BY <1>0, <1>3 DEF BootSound
  <2> QED BY <1>0, <1>1, <2>1, <2>2, <2>3 DEF BootSound
<1>17. Signals' /\ PoolSound(blkPool')
  <2>1. tests = <<>> => blkIrq'
    BY <1>0, <1>2, <1>3 DEF Signals
  <2> QED BY <1>0, <1>1, <2>1 DEF Signals, Live
<1>18. CompletionsRight'
  <2>1. last_used' \in Ind /\ ~gave_up'
    BY <1>1, <1>14 DEF BlkTypes
  <2>2. CompletionSignalled'
    BY <1>17, <2>1, SignalsSuffice
  <2>3. AnswersServed' /\ FaultControl'
    BY <1>1 DEF CompletionsRight, AnswersServed, FaultControl
  <2> QED BY <2>2, <2>3 DEF CompletionsRight
<1> QED BY <1>14, <1>15, <1>16, <1>17, <1>18 DEF BlkInv, BlkCore

\* A self-test posts its read.
LEMMA PollStartKeepsBlk ==
  ASSUME BlkCore, CompletionsRight, ~gave_up, NEW f \in BlkFrames, PollStart(f)
  PROVE  BlkInv'
<1>0. BlkTypes /\ PoolSound(blkPool) /\ ChainsSound /\ BootSound /\ Signals
  BY DEF BlkCore
<1>1. /\ blkUsed' = blkUsed /\ device' = device /\ blkIrq' = blkIrq /\ fault' = fault
      /\ last_used' = last_used /\ draining' = draining /\ tests' = tests
      /\ unread' = unread /\ parked' = parked /\ verdict' = verdict /\ gave_up' = gave_up
  BY DEF PollStart, blkDeviceVars, clientVars
<1>2. PICK poison : poison = (tests[1] = "poison") /\ poison \in BOOLEAN
  OBVIOUS
<1>3. PICK frame \in BlkFrames \cup {Poison} : frame = IF poison THEN Poison ELSE f
  OBVIOUS
<1>4. PICK target : target = [ring |-> "poll", ud |-> reqs + 1]
  OBVIOUS
<1>5. /\ tests # <<>> /\ poller = NoReq /\ blkPool.free # <<>>
      /\ blkPool' = Submit(target) /\ PostRequest(Top, reqs + 1, frame, TRUE, poison)
      /\ poller' = [slot |-> Top, id |-> reqs + 1, frame |-> frame]
  BY <1>2, <1>3, <1>4 DEF PollStart
<1>6. target \in Targets
  BY <1>0, <1>4 DEF Targets, BlkTypes
<1>7. /\ PoolSound(blkPool') /\ ChainsSound'
      /\ blkAvail' \in [idx : Ind, ring : [0 .. QSize - 1 -> Nat], quiet : BOOLEAN]
      /\ blkChain' \in [BlkSlots -> [id : Nat \cup {NoReq}, frame : BlkFrames \cup {Poison, NoReq},
                                      status : {NoReq, 0, 1}]]
      /\ reqs' \in Nat /\ domain' \in SUBSET BlkFrames
      /\ ~poison => frame \in domain'
      /\ \E s \in BlkSlots : s = Top /\ blkChain'[s].frame = frame
                             /\ Taken(blkPool', s, target)
  <2>1. poison \/ frame \in BlkFrames
    BY <1>3
  <2> QED BY <1>0, <1>1, <1>2, <1>3, <1>5, <1>6, <2>1, PostPublishes
<1>8. PICK s \in BlkSlots : s = Top /\ blkChain'[s].frame = frame /\ Taken(blkPool', s, target)
  BY <1>7
<1>9. poller' \in Polls /\ poller'.slot = s /\ poller'.frame = frame /\ poller' # NoReq
  <2>1. reqs \in Nat
    BY <1>0 DEF BlkTypes
  <2>2. poller' \in Polls /\ poller'.slot = s /\ poller'.frame = frame
    BY <1>5, <1>8, <2>1 DEF Polls
  <2>3. poller' \in [slot : Nat, id : Nat, frame : BlkFrames \cup {"poison"}]
    BY <2>2, QueueSizes DEF Polls, Poison
  <2> QED BY <2>2, <2>3, QueueAssumption
<1>10. BlkTypes'
  BY <1>0, <1>1, <1>7, <1>9 DEF BlkTypes
<1>11. \A t \in BlkSlots : Live(t)' <=> t = s
  <2>1. \A t \in BlkSlots : ~Live(t)
    BY <1>0, <1>5 DEF BootSound
  <2> QED BY <1>6, <1>8, <2>1, QueueAssumption DEF Live, Taken
<1>12. blkUsed.idx = last_used
  BY <1>0, <1>5, FinishedLive DEF BootSound
<1>13. BootSound'
  <2>1. ~fault /\ ~draining
    BY <1>0, <1>5 DEF BootSound
  <2>2. frame = Poison <=> tests[1] = "poison"
    BY <1>2, <1>3, QueueAssumption DEF Poison
  <2>3. frame # Poison => frame \in domain'
    BY <1>2, <1>7, <2>2
  <2> QED BY <1>1, <1>5, <1>8, <1>9, <1>11, <1>12, <2>1, <2>2, <2>3 DEF BootSound
<1>14. Signals'
  BY <1>1, <1>5 DEF Signals
<1>15. CompletionsRight'
  <2>1. last_used' \in Ind /\ ~gave_up'
    BY <1>1, <1>10 DEF BlkTypes
  <2>2. CompletionSignalled'
    BY <1>14, <2>1, SignalsSuffice
  <2>3. AnswersServed' /\ FaultControl'
    BY <1>1 DEF CompletionsRight, AnswersServed, FaultControl
  <2> QED BY <2>2, <2>3 DEF CompletionsRight
<1> QED BY <1>7, <1>10, <1>13, <1>14, <1>15 DEF BlkInv, BlkCore

\* After a drain the used ring is empty, and its chains are no longer live.
LEMMA ConsumeSettles ==
  ASSUME BlkTypes, PoolSound(blkPool), ChainsSound, Consume,
         blkChain' = blkChain, blkAvail' = blkAvail, blkUsed' = blkUsed, device' = device
  PROVE  /\ last_used' = blkUsed.idx /\ last_used' \in Ind
         /\ PoolSound(blkPool') /\ ChainsSound'
         /\ \A s \in BlkSlots : Live(s)' <=> (Live(s) /\ ChainHead(s) \notin Finished)
<1>1. blkUsed.idx \in Ind /\ last_used \in Ind
  BY BlkFields
<1>2. last_used' = blkUsed.idx
  BY <1>1, UnseenIs DEF Consume
<1>3. DrainedTo(Drained, Len(Unseen))
  BY DrainFrees
<1>4. /\ \A i \in 1 .. Len(Unseen) : Unseen[i] \in Finished
      /\ \A x \in Finished : \E i \in 1 .. Len(Unseen) : Unseen[i] = x
  BY <1>1, UnseenFinished DEF ChainsSound
<1>5. PICK P : P = Drained.pool
  OBVIOUS
<1>6. /\ PoolSound(P)
      /\ \A s \in BlkSlots : P.routing[s] = IF \E i \in 1 .. Len(Unseen) : Unseen[i] = ChainHead(s)
                                            THEN NoReq ELSE blkPool.routing[s]
  BY <1>3, <1>5 DEF DrainedTo
<1>7. \A s \in BlkSlots : P.routing[s] = IF ChainHead(s) \in Finished THEN NoReq ELSE blkPool.routing[s]
  BY <1>4, <1>6
<1>8. blkPool' = P
  BY <1>5 DEF Consume
<1>9. \A s \in BlkSlots : Live(s)' <=> (Live(s) /\ ChainHead(s) \notin Finished)
  BY <1>7, <1>8 DEF Live
<1>10. Gap(blkUsed.idx, blkUsed.idx) = 0
  BY <1>1, GapMeets
<1>11. Finished' = {} /\ Apart(blkUsed.idx, last_used, blkUsed.ring)' /\ Published' = Published
  BY <1>2, <1>10 DEF Finished, Published, Window, Apart
<1>12. ChainsSound'
  <2>1. Apart(blkAvail.idx, device.seen, blkAvail.ring)'
    BY DEF ChainsSound
  <2>2. ASSUME NEW t \in BlkSlots
        PROVE  /\ ChainHead(t) \in Published' \/ ChainHead(t) \in Finished' \/ t \in device'.busy => Live(t)'
               /\ ~(ChainHead(t) \in Published' /\ ChainHead(t) \in Finished')
               /\ ~(t \in device'.busy /\ ChainHead(t) \in Published' \cup Finished')
               /\ ChainHead(t) \in Finished' => blkChain'[t].status # NoReq
    BY <1>9, <1>11 DEF ChainsSound
  <2> QED BY <1>11, <2>1, <2>2 DEF ChainsSound
<1> QED BY <1>1, <1>2, <1>6, <1>8, <1>9, <1>12

\* A self-test sees its answer.
LEMMA PollSeesKeepsBlk ==
  ASSUME BlkCore, CompletionsRight, ~gave_up, PollSees
  PROVE  BlkInv'
<1>0. BlkTypes /\ PoolSound(blkPool) /\ ChainsSound /\ BootSound /\ Signals
  BY DEF BlkCore
<1>1. PICK r : r = IF Drained.out = <<>> THEN NoAnswer ELSE Drained.out[1]
  OBVIOUS
<1>2. poller # NoReq /\ blkUsed.idx # last_used /\ Consume /\ gave_up' = gave_up /\ PollEnds(r)
  BY <1>1 DEF PollSees
<1>3. /\ blkChain' = blkChain /\ blkAvail' = blkAvail /\ domain' = domain /\ reqs' = reqs
      /\ blkUsed' = blkUsed /\ device' = device /\ blkIrq' = blkIrq /\ unread' = unread /\ parked' = parked
      /\ draining' = draining
      /\ fault' = FALSE /\ poller' = NoReq /\ tests' = Tail(tests)
      /\ verdict' = [test |-> tests[1], status |-> r.status, served |-> r.served, fault |-> fault]
  BY <1>2 DEF PollEnds, queueVars, clientVars
<1>4. /\ last_used' = blkUsed.idx /\ last_used' \in Ind
      /\ PoolSound(blkPool') /\ ChainsSound'
      /\ \A s \in BlkSlots : Live(s)' <=> (Live(s) /\ ChainHead(s) \notin Finished)
  BY <1>0, <1>2, <1>3, ConsumeSettles
<1>5. PICK s \in BlkSlots : ChainHead(s) \in Finished /\ Live(s)
  BY <1>0, <1>2, FinishedLive
<1>6. \A t \in BlkSlots : ~Live(t)'
  BY <1>0, <1>2, <1>4, <1>5 DEF BootSound
<1>7. tests # <<>>
  BY <1>0, <1>2 DEF BootSound
<1>8. Tail(tests) \in {<<"ramp", "poison", "control">>, <<"poison", "control">>, <<"control">>, <<>>}
  <2>1. CASE tests = <<"ramp", "poison", "control">>
    BY <2>1
  <2>2. CASE tests = <<"poison", "control">>
    BY <2>2
  <2>3. CASE tests = <<"control">>
    BY <2>3
  <2> QED BY <1>0, <1>7, <2>1, <2>2, <2>3 DEF BlkTypes
<1>9. BlkTypes'
  BY <1>0, <1>3, <1>4, <1>8 DEF BlkTypes
<1>10. BootSound'
  <2>1. ~draining
    BY <1>0, <1>7 DEF BootSound
  <2> QED BY <1>3, <1>6, <2>1 DEF BootSound
<1>11. Signals'
  BY <1>3, <1>4, <1>6 DEF Signals
<1>12. CompletionsRight'
  <2>1. ~gave_up'
    BY <1>2
  <2>2. CompletionSignalled'
    BY <1>4, <1>11, <2>1, SignalsSuffice
  <2>3. r.served
    <3>1. DrainedTo(Drained, Len(Unseen))
      BY <1>0, DrainFrees
    <3>2. PICK o : o = Drained.out
      OBVIOUS
    <3>3. o \in Seq(Answers) /\ \A k \in 1 .. Len(o) : o[k].served
      BY <3>1, <3>2 DEF DrainedTo
    <3>4. o # <<>> => 1 \in 1 .. Len(o)
      BY <3>3
    <3> QED BY <1>1, <3>2, <3>3, <3>4 DEF NoAnswer
  <2>4. verdict'.served = r.served /\ verdict'.fault = fault /\ verdict'.test = tests[1]
    BY <1>3
  <2>5. AnswersServed'
    BY <1>3, <2>3, <2>4 DEF CompletionsRight, AnswersServed
  <2>6. fault <=> tests[1] = "poison"
    BY <1>0, <1>2 DEF BootSound
  <2>7. FaultControl'
    BY <2>4, <2>6 DEF FaultControl
  <2> QED BY <2>2, <2>5, <2>7 DEF CompletionsRight
<1> QED BY <1>4, <1>9, <1>10, <1>11, <1>12 DEF BlkInv, BlkCore

\* A self-test gives up; nothing is waiting in the used ring.
LEMMA PollTimesOutKeepsBlk ==
  ASSUME BlkCore, CompletionsRight, ~gave_up, PollTimesOut
  PROVE  BlkInv'
<1>1. /\ blkUsed.idx = last_used /\ gave_up' = TRUE /\ last_used' = last_used /\ blkUsed' = blkUsed
      /\ unread' = unread
      /\ verdict' = [test |-> tests[1], status |-> NoAnswer.status, served |-> NoAnswer.served,
                     fault |-> fault]
  BY DEF PollTimesOut, PollEnds, clientVars
<1>2. last_used \in Ind
  BY DEF BlkCore, BlkTypes
<1>3. Unseen' = <<>>
  BY <1>1, <1>2, NoneUnseen DEF Unseen
<1>4. verdict'.served
  BY <1>1 DEF NoAnswer
<1>5. AnswersServed'
  BY <1>1, <1>4 DEF CompletionsRight, AnswersServed
<1> QED BY <1>1, <1>3, <1>5 DEF BlkInv, CompletionsRight, CompletionSignalled, FaultControl

\* Steps of the clients that leave the queue alone.
LEMMA ClientKeepsBlk ==
  ASSUME BlkCore, CompletionsRight, ~gave_up, NEW c \in BlkClients,
         (\E f \in BlkFrames : TakeFrame(c, f) \/ GiveFrame(c, f)) \/ Park(c) \/ Reap(c)
  PROVE  BlkInv'
<1>0. BlkTypes /\ PoolSound(blkPool) /\ ChainsSound /\ BootSound /\ Signals
  BY DEF BlkCore
<1>1. /\ blkPool' = blkPool /\ blkAvail' = blkAvail /\ blkUsed' = blkUsed /\ blkChain' = blkChain
      /\ last_used' = last_used /\ draining' = draining /\ blkIrq' = blkIrq /\ device' = device
      /\ poller' = poller /\ domain' = domain /\ tests' = tests /\ fault' = fault
      /\ verdict' = verdict /\ gave_up' = gave_up /\ reqs' = reqs
  BY DEF TakeFrame, GiveFrame, Park, Reap, bootVars, poolVars, queueVars, blkDeviceVars
<1>2. unread' = unread \/ unread' = [unread EXCEPT ![c] = {}]
  BY DEF TakeFrame, GiveFrame, Park, Reap, clientVars
<1>3. unread \in [BlkClients -> SUBSET Answers]
  BY <1>0 DEF BlkTypes
<1>4. /\ unread' \in [BlkClients -> SUBSET Answers]
      /\ \A d \in BlkClients : unread'[d] \subseteq unread[d]
  BY <1>2, <1>3
<1>5. BlkTypes'
  BY <1>0, <1>1, <1>4 DEF BlkTypes
<1>6. Published' = Published /\ Finished' = Finished /\ \A s \in BlkSlots : Live(s)' = Live(s)
  BY <1>1 DEF Published, Finished, Live
<1>7. ChainsSound'
  BY <1>0, <1>1, <1>6 DEF ChainsSound
<1>8. BootSound' /\ PoolSound(blkPool')
  BY <1>0, <1>1, BootKept
<1>9. Signals'
  BY <1>0, <1>1 DEF Signals, Live
<1>10. CompletionsRight'
  <2>1. last_used' \in Ind /\ ~gave_up'
    BY <1>1, <1>5 DEF BlkTypes
  <2>2. CompletionSignalled'
    BY <1>9, <2>1, SignalsSuffice
  <2>3. AnswersServed' /\ FaultControl'
    BY <1>1, <1>4 DEF CompletionsRight, AnswersServed, FaultControl
  <2> QED BY <2>2, <2>3 DEF CompletionsRight
<1> QED BY <1>5, <1>7, <1>8, <1>9, <1>10 DEF BlkInv, BlkCore

\* A client posts a request.
LEMMA RingPostKeepsBlk ==
  ASSUME BlkCore, CompletionsRight, ~gave_up, NEW c \in BlkClients, NEW f \in BlkFrames, RingPost(c, f)
  PROVE  BlkInv'
<1>0. BlkTypes /\ PoolSound(blkPool) /\ ChainsSound /\ BootSound /\ Signals
  BY DEF BlkCore
<1>1. /\ blkUsed' = blkUsed /\ device' = device /\ blkIrq' = blkIrq /\ fault' = fault
      /\ last_used' = last_used /\ draining' = draining /\ tests' = tests /\ poller' = poller
      /\ unread' = unread /\ parked' = parked /\ verdict' = verdict /\ gave_up' = gave_up
  BY DEF RingPost, blkDeviceVars, clientVars, bootVars
<1>2. PICK target : target = [ring |-> c, ud |-> reqs + 1]
  OBVIOUS
<1>3. /\ tests = <<>> /\ poller = NoReq /\ blkPool.free # <<>>
      /\ blkPool' = Submit(target) /\ PostRequest(Top, reqs + 1, f, FALSE, FALSE)
  BY <1>2 DEF RingPost, Runtime
<1>4. target \in Targets
  BY <1>0, <1>2 DEF Targets, BlkTypes
<1>5. /\ PoolSound(blkPool') /\ ChainsSound'
      /\ blkAvail' \in [idx : Ind, ring : [0 .. QSize - 1 -> Nat], quiet : BOOLEAN]
      /\ blkAvail'.quiet = FALSE
      /\ blkChain' \in [BlkSlots -> [id : Nat \cup {NoReq}, frame : BlkFrames \cup {Poison, NoReq},
                                      status : {NoReq, 0, 1}]]
      /\ reqs' \in Nat /\ domain' \in SUBSET BlkFrames
  BY <1>0, <1>1, <1>3, <1>4, PostPublishes
<1>6. BlkTypes'
  BY <1>0, <1>1, <1>5 DEF BlkTypes
<1>7. BootSound'
  BY <1>1, <1>3 DEF BootSound
<1>8. Signals'
  BY <1>0, <1>1, <1>5 DEF Signals
<1>9. CompletionsRight'
  <2>1. last_used' \in Ind /\ ~gave_up'
    BY <1>1, <1>6 DEF BlkTypes
  <2>2. CompletionSignalled'
    BY <1>8, <2>1, SignalsSuffice
  <2>3. AnswersServed' /\ FaultControl'
    BY <1>1 DEF CompletionsRight, AnswersServed, FaultControl
  <2> QED BY <2>2, <2>3 DEF CompletionsRight
<1> QED BY <1>5, <1>6, <1>7, <1>8, <1>9 DEF BlkInv, BlkCore

\* complete_irq acknowledges the interrupt: it is about to drain.
LEMMA IrqAckKeepsBlk ==
  ASSUME BlkCore, CompletionsRight, ~gave_up, IrqAck
  PROVE  BlkInv'
<1>0. BlkTypes /\ PoolSound(blkPool) /\ ChainsSound /\ BootSound /\ Signals
  BY DEF BlkCore
<1>1. /\ blkPool' = blkPool /\ blkAvail' = blkAvail /\ blkUsed' = blkUsed /\ blkChain' = blkChain
      /\ last_used' = last_used /\ device' = device
      /\ poller' = poller /\ domain' = domain /\ tests' = tests /\ fault' = fault
      /\ verdict' = verdict /\ gave_up' = gave_up /\ reqs' = reqs /\ unread' = unread
      /\ blkIrq' = FALSE /\ draining' = TRUE /\ tests = <<>> /\ poller = NoReq
  BY DEF IrqAck, Runtime, bootVars, poolVars, queueVars, clientVars
<1>2. BlkTypes'
  BY <1>0, <1>1 DEF BlkTypes
<1>3. Published' = Published /\ Finished' = Finished /\ \A s \in BlkSlots : Live(s)' = Live(s)
  BY <1>1 DEF Published, Finished, Live
<1>4. ChainsSound'
  BY <1>0, <1>1, <1>3 DEF ChainsSound
<1>5. BootSound' /\ PoolSound(blkPool')
  BY <1>0, <1>1 DEF BootSound
<1>6. Signals'
  BY <1>0, <1>1 DEF Signals, Live
<1>7. CompletionsRight'
  <2>1. CompletionSignalled'
    BY <1>1 DEF CompletionSignalled
  <2>2. AnswersServed' /\ FaultControl'
    BY <1>1 DEF CompletionsRight, AnswersServed, FaultControl
  <2> QED BY <2>1, <2>2 DEF CompletionsRight
<1> QED BY <1>2, <1>4, <1>5, <1>6, <1>7 DEF BlkInv, BlkCore

\* complete_irq drains the used ring.
LEMMA IrqDrainKeepsBlk ==
  ASSUME BlkCore, CompletionsRight, ~gave_up, IrqDrain
  PROVE  BlkInv'
<1>0. BlkTypes /\ PoolSound(blkPool) /\ ChainsSound /\ BootSound /\ Signals
  BY DEF BlkCore
<1>1. PICK o : o = Drained.out
  OBVIOUS
<1> DEFINE to(c) == {o[i] : i \in {j \in 1 .. Len(o) : o[j].target.ring = c}}
<1>2. /\ draining /\ Consume /\ draining' = FALSE
      /\ unread' = [c \in BlkClients |-> unread[c] \cup to(c)]
      /\ blkChain' = blkChain /\ blkAvail' = blkAvail /\ domain' = domain /\ reqs' = reqs
      /\ blkUsed' = blkUsed /\ device' = device /\ blkIrq' = blkIrq /\ fault' = fault
      /\ tests' = tests /\ poller' = poller /\ gave_up' = gave_up /\ verdict' = verdict
  BY <1>1 DEF IrqDrain, bootVars, queueVars, blkDeviceVars
<1>3. /\ last_used' = blkUsed.idx /\ last_used' \in Ind
      /\ PoolSound(blkPool') /\ ChainsSound'
      /\ \A s \in BlkSlots : Live(s)' <=> (Live(s) /\ ChainHead(s) \notin Finished)
  BY <1>0, <1>2, ConsumeSettles
<1>4. o \in Seq(Answers) /\ \A k \in 1 .. Len(o) : o[k].served
  <2>1. DrainedTo(Drained, Len(Unseen))
    BY <1>0, DrainFrees
  <2> QED BY <1>1, <2>1 DEF DrainedTo
<1>5. tests = <<>> /\ poller = NoReq
  BY <1>0, <1>2 DEF BootSound
<1>6. ASSUME NEW c \in BlkClients
      PROVE  to(c) \subseteq Answers /\ \A u \in to(c) : u.served /\ u.target.ring = c
  BY <1>4
<1> HIDE DEF to
<1>7. unread \in [BlkClients -> SUBSET Answers]
  BY <1>0 DEF BlkTypes
<1>8. /\ unread' \in [BlkClients -> SUBSET Answers]
      /\ \A c \in BlkClients : unread'[c] = unread[c] \cup to(c)
  BY <1>2, <1>6, <1>7
<1>9. BlkTypes'
  BY <1>0, <1>2, <1>3, <1>8 DEF BlkTypes
<1>10. BootSound'
  BY <1>2, <1>5 DEF BootSound
<1>11. Signals'
  BY <1>0, <1>2, <1>3 DEF Signals
<1>12. CompletionsRight'
  <2>1. ~gave_up'
    BY <1>2
  <2>2. CompletionSignalled'
    BY <1>3, <1>11, <2>1, SignalsSuffice
  <2>3. AnswersServed'
    BY <1>2, <1>6, <1>8 DEF CompletionsRight, AnswersServed
  <2>4. FaultControl'
    BY <1>2 DEF CompletionsRight, FaultControl
  <2> QED BY <2>2, <2>3, <2>4 DEF CompletionsRight
<1> QED BY <1>3, <1>9, <1>10, <1>11, <1>12 DEF BlkInv, BlkCore

LEMMA BlkStarts ==
  ASSUME BlkInit PROVE BlkInv
<1>1. 0 \in Ind /\ Gap(0, 0) = 0
  <2>1. 0 \in Ind
    BY QueueSizes DEF Ind
  <2> QED BY <2>1, GapMeets
<1>2. QSize \in Nat /\ QSize > 0 /\ QSize \div DescPerReq \in Nat
  BY QueueSizes
<1> DEFINE n == Cardinality(BlkSlots)
<1>3. n = QSize \div DescPerReq
  <2>1. PICK d : d = QSize \div DescPerReq /\ d \in Nat
    BY <1>2
  <2>2. BlkSlots = 0 .. d - 1
    BY <2>1 DEF BlkSlots
  <2>3. Cardinality(0 .. d - 1) = IF 0 > d - 1 THEN 0 ELSE (d - 1) - 0 + 1
    <3>1. d - 1 \in Int /\ 0 \in Int
      BY <2>1
    <3> QED BY ONLY <3>1, FS_Interval
  <2> QED BY <2>1, <2>2, <2>3
<1> HIDE DEF n
<1>4. n \in Nat /\ BlkSlots = 0 .. n - 1
  BY <1>2, <1>3 DEF BlkSlots
<1> DEFINE F == [i \in 1 .. n |-> i - 1]
           Z == [s \in BlkSlots |-> NoReq]
<1>5. F \in Seq(BlkSlots) /\ Len(F) = n /\ \A i \in 1 .. n : F[i] = i - 1
  BY <1>4
<1> HIDE DEF F, Z
<1>6. blkPool = [routing |-> Z, free |-> F]
  BY DEF BlkInit, F, Z, n
<1>7. Z \in [BlkSlots -> Targets \cup {NoReq}] /\ \A s \in BlkSlots : Z[s] = NoReq
  BY DEF Z
<1>8. blkPool.routing = Z /\ blkPool.free = F /\ blkPool \in Pools
  BY <1>5, <1>6, <1>7 DEF Pools
<1>9. PoolSound(blkPool)
  <2>1. \A i \in 1 .. Len(blkPool.free) : blkPool.routing[blkPool.free[i]] = NoReq
    BY <1>4, <1>5, <1>7, <1>8
  <2>2. \A i, j \in 1 .. Len(blkPool.free) : blkPool.free[i] = blkPool.free[j] => i = j
    BY <1>4, <1>5, <1>8
  <2> QED BY <1>8, <2>1, <2>2 DEF PoolSound
<1>10. \A s \in BlkSlots : ~Live(s)
  BY <1>7, <1>8 DEF Live
<1>11. BlkTypes
  <2>1. [i \in 0 .. QSize - 1 |-> 0] \in [0 .. QSize - 1 -> Nat]
    BY <1>2
  <2> DEFINE A == [i \in 0 .. QSize - 1 |-> 0]
  <2> HIDE DEF A
  <2>2. blkAvail = [idx |-> 0, ring |-> A, quiet |-> FALSE] /\ blkUsed = [idx |-> 0, ring |-> A]
    BY DEF BlkInit, A
  <2>3. A \in [0 .. QSize - 1 -> Nat]
    BY <2>1 DEF A
  <2>4. /\ blkAvail \in [idx : Ind, ring : [0 .. QSize - 1 -> Nat], quiet : BOOLEAN]
        /\ blkUsed \in [idx : Ind, ring : [0 .. QSize - 1 -> Nat]]
    BY <1>1, <2>2, <2>3
  <2>5. blkChain \in [BlkSlots -> [id : Nat \cup {NoReq}, frame : BlkFrames \cup {Poison, NoReq},
                                 status : {NoReq, 0, 1}]]
    BY DEF BlkInit
  <2>6. device \in [seen : Ind, busy : SUBSET BlkSlots] /\ last_used \in Ind /\ reqs \in Nat
        /\ unread \in [BlkClients -> SUBSET Answers]
    BY <1>1 DEF BlkInit
  <2> QED BY <2>4, <2>5, <2>6 DEF BlkTypes, BlkInit
<1>12. Published = {} /\ Finished = {} /\ device.busy = {}
  BY <1>1 DEF BlkInit, Published, Finished, Window
<1>13. Apart(blkAvail.idx, device.seen, blkAvail.ring) /\ Apart(blkUsed.idx, last_used, blkUsed.ring)
  BY <1>1 DEF BlkInit, Apart
<1>14. ChainsSound
  BY <1>12, <1>13 DEF ChainsSound
<1>15. BootSound /\ Signals
  BY <1>10 DEF BlkInit, BootSound, Signals
<1>16. CompletionsRight
  BY DEF BlkInit, CompletionsRight, AnswersServed, CompletionSignalled, FaultControl, Runtime
<1> QED BY <1>9, <1>11, <1>14, <1>15, <1>16 DEF BlkInv, BlkCore

\* Each request is answered, once the device has served it, with its own answer,
\* in whatever order the device finishes them, and no completion is left without
\* a signal: drain_completions, complete_irq and the polled self-tests of
\* virtio_blk.rs, for every queue size and every modulus of the ring indices.
THEOREM CompletionsStayRight == BlkSpec => []CompletionsRight
<1>1. BlkInit => BlkInv
  BY BlkStarts
<1>2. BlkInv /\ [BlkNext]_blkVars => BlkInv'
  <2>1. ASSUME BlkInv, BlkNext PROVE BlkInv'
    <3>1. BlkCore /\ CompletionsRight /\ ~gave_up
      BY <2>1 DEF BlkInv, BlkNext
    <3>2. CASE DeviceStep
      BY <3>1, <3>2, TakeKeepsBlk, ServeKeepsBlk DEF DeviceStep
    <3>3. CASE \E f \in BlkFrames : PollStart(f)
      BY <3>1, <3>3, PollStartKeepsBlk
    <3>4. CASE PollSees \/ PollTimesOut
      BY <3>1, <3>4, PollSeesKeepsBlk, PollTimesOutKeepsBlk
    <3>5. CASE \E c \in BlkClients, f \in BlkFrames : TakeFrame(c, f) \/ GiveFrame(c, f) \/ RingPost(c, f)
      BY <3>1, <3>5, ClientKeepsBlk, RingPostKeepsBlk
    <3>6. CASE IrqAck \/ IrqDrain
      BY <3>1, <3>6, IrqAckKeepsBlk, IrqDrainKeepsBlk
    <3>7. CASE \E c \in BlkClients : Park(c) \/ Reap(c)
      BY <3>1, <3>7, ClientKeepsBlk
    <3> QED BY <2>1, <3>2, <3>3, <3>4, <3>5, <3>6, <3>7 DEF BlkNext
  <2>2. ASSUME BlkInv, UNCHANGED blkVars PROVE BlkInv'
    <3>1. /\ blkPool' = blkPool /\ blkAvail' = blkAvail /\ blkUsed' = blkUsed /\ blkChain' = blkChain
          /\ last_used' = last_used /\ draining' = draining /\ blkIrq' = blkIrq /\ device' = device
          /\ poller' = poller /\ domain' = domain /\ tests' = tests /\ fault' = fault
          /\ verdict' = verdict /\ gave_up' = gave_up /\ reqs' = reqs /\ unread' = unread
      BY <2>2 DEF blkVars, bootVars, poolVars, queueVars, blkDeviceVars, clientVars
    <3>2. CompletionsRight'
      BY <2>2, <3>1 DEF BlkInv, CompletionsRight, AnswersServed, CompletionSignalled, FaultControl,
                        Runtime, Unseen
    <3>3. ASSUME BlkCore PROVE BlkCore'
      <4>1. BlkTypes' /\ PoolSound(blkPool')
        BY <3>1, <3>3 DEF BlkCore, BlkTypes
      <4>2. Published' = Published /\ Finished' = Finished /\ \A s \in BlkSlots : Live(s)' = Live(s)
        BY <3>1 DEF Published, Finished, Live
      <4>3. ChainsSound'
        BY <3>1, <3>3, <4>2 DEF BlkCore, ChainsSound
      <4>4. BootSound' /\ Signals'
        BY <3>1, <3>3, BootKept DEF BlkCore, Signals, Live
      <4> QED BY <4>1, <4>3, <4>4 DEF BlkCore
    <3> QED BY <2>2, <3>1, <3>2, <3>3 DEF BlkInv
  <2> QED BY <2>1, <2>2
<1>3. BlkInv => CompletionsRight
  BY DEF BlkInv
<1> QED BY <1>1, <1>2, <1>3, PTL DEF BlkSpec

=============================================================================
