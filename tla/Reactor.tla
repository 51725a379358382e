------------------------------ MODULE Reactor ------------------------------
(***************************************************************************)
(* The executor of the library OS over one kernel ring: futures for block  *)
(* reads and event streams, the table of reaped completions, block_on.     *)
(* libos/src/ring.rs, kernel-bridged mode.                                 *)
(*                                                                         *)
(* The kernel's side (drain, event delivery, answers) is what Rings models *)
(* in full, reduced here to what one program sees of it.  A completion     *)
(* queue is the sequence of its unreaped entries; entries CqLen apart      *)
(* share a buffer cell.                                                    *)
(***************************************************************************)
EXTENDS Naturals, Sequences, FiniteSets

CONSTANTS
  Streams,    \* the cookies of the event streams, 1 .. n
  CqLen,      \* ENTRIES of the completion queue
  TableLen,   \* CAP: entries of the done table
  PoolLen,    \* the device's request pool
  MaxUd,      \* bound: cookies ever drawn
  MaxInput    \* bound: events ever produced

ASSUME ReactorAssumption ==
  /\ Cardinality(Streams) \in Nat /\ Streams = 1 .. Cardinality(Streams)
  /\ {CqLen, TableLen, PoolLen, MaxUd, MaxInput} \subseteq Nat \ {0}

VARIABLES
  next_ud,     \* the cookie source
  armed,       \* the streams whose EVENT_SUB has been pushed
  fut,         \* the future block_on drives: its children, any or all of them
  at,          \* where the program is: idle, poll, submit, wait, reap, report
  sq,          \* submissions not yet drained
  cq,          \* completions not yet reaped
  done,        \* completions reaped and not yet taken
  lost,        \* drops and undelivered, as counted and as last reported
  subscribed,  \* the kernel's subscriptions
  in_flight,   \* reads with the device
  skipped,     \* stream |-> the kernel's count of events dropped since the last queued
  input,       \* events produced so far
  heard        \* stream |-> the number of the last event the program consumed

reactorAllVars == <<next_ud, armed, fut, at, sq, cq, done, lost, subscribed, in_flight,
                    skipped, input, heard>>

kernelSide == <<subscribed, in_flight, skipped, input>>

NoFut == [any |-> FALSE, kids |-> <<>>]

ReactorInit ==
  /\ next_ud = Cardinality(Streams) + 1
  /\ armed = {} /\ fut = NoFut /\ at = "idle"
  /\ sq = <<>> /\ cq = <<>> /\ done = <<>>
  /\ lost = [drops |-> 0, undelivered |-> 0, reported |-> <<0, 0>>]
  /\ subscribed = {} /\ in_flight = {}
  /\ skipped = [s \in Streams |-> 0]
  /\ input = 0
  /\ heard = [s \in Streams |-> 0]

----------------------------------------------------------------------------
(* Futures.                                                                *)

\* read or write: a new cookie, nothing pushed before the first poll.
ReadKid(u) == [ud |-> u, want |-> 1, count |-> 0, posted |-> FALSE]

\* next (n = 1) and collect of a stream.
EventKid(s, n) == [ud |-> s, want |-> n, count |-> 0, posted |-> TRUE]

Start(any, kids, drawn) ==
  /\ at = "idle" /\ next_ud + drawn <= MaxUd + 1
  /\ fut' = [any |-> any, kids |-> kids]
  /\ next_ud' = next_ud + drawn
  /\ at' = "poll"
  /\ UNCHANGED <<armed, sq, cq, done, lost, kernelSide, heard>>

\* join of n reads; read alone is n = 1.
BlockOnJoin(n) == Start(FALSE, [i \in 1 .. n |-> ReadKid(next_ud + i - 1)], n)

\* next or collect of one stream.
BlockOnCollect(s, n) == Start(FALSE, <<EventKid(s, n)>>, 0)

\* join2 of a read and a collect.
BlockOnJoin2(s, n) == Start(FALSE, <<ReadKid(next_ud), EventKid(s, n)>>, 1)

\* select2 of two streams.
BlockOnSelect2(a, b) == Start(TRUE, <<EventKid(a, 1), EventKid(b, 1)>>, 0)

\* The staged completions of a cookie.
Staged(u) == {i \in 1 .. Len(done) : done[i].ud = u}

Lesser(a, b) == IF a <= b THEN a ELSE b

\* How many completions a poll of the child takes: collect drains what there is.
Takes(kid) == Lesser(Cardinality(Staged(kid.ud)), kid.want - kid.count)

Ready(kid) == kid.count = kid.want

\* Whether the poll of the future polls child k: an unfinished one, and under
\* select2 only when those before it are not ready.
Polled(k) ==
  /\ ~Ready(fut.kids[k])
  /\ fut.any => \A j \in 1 .. k - 1 : Takes(fut.kids[j]) = 0

PolledKids == {k \in 1 .. Len(fut.kids) : Polled(k)}

\* Mutant: take searches from the end of the table.
TakenNewest(k) ==
  {i \in Staged(fut.kids[k].ud) :
     Cardinality({j \in Staged(fut.kids[k].ud) : j >= i}) <= Takes(fut.kids[k])}

\* take, as often as the child asks: its oldest staged completions.
Taken(k) ==
  {i \in Staged(fut.kids[k].ud) :
     Cardinality({j \in Staged(fut.kids[k].ud) : j <= i}) <= Takes(fut.kids[k])}

AllTaken == UNION {Taken(k) : k \in PolledKids}

\* The order-preserving removal: the i-th entry of those that are left.
WithoutTaken ==
  LET kept == (1 .. Len(done)) \ AllTaken
      Nth(i) == CHOOSE k \in kept : Cardinality({j \in kept : j <= k}) = i
  IN [i \in 1 .. Cardinality(kept) |-> done[Nth(i)]]

\* What a first poll pushes: a read's entry, a stream's EVENT_SUB.
Push(k) ==
  LET kid == fut.kids[k]
  IN IF k \notin PolledKids THEN <<>>
     ELSE IF kid.ud \in Streams \ armed THEN <<[op |-> "SUB", ud |-> kid.ud]>>
     ELSE IF ~kid.posted THEN <<[op |-> "READ", ud |-> kid.ud]>> ELSE <<>>

\* A future has at most three children.
Pushed ==
  LET p(k) == IF k <= Len(fut.kids) THEN Push(k) ELSE <<>>
  IN p(1) \o p(2) \o p(3)

PolledFut ==
  [any  |-> fut.any,
   kids |-> [k \in 1 .. Len(fut.kids) |->
     IF Polled(k) THEN [fut.kids[k] EXCEPT !.posted = TRUE, !.count = @ + Takes(fut.kids[k])]
     ELSE fut.kids[k]]]

FutReady(f) ==
  IF f.any THEN \E k \in 1 .. Len(f.kids) : Ready(f.kids[k])
  ELSE \A k \in 1 .. Len(f.kids) : Ready(f.kids[k])

\* The last event of stream s among those taken.
HeardOf(s) ==
  LET T == {i \in AllTaken : done[i].ud = s}
  IN IF T = {} THEN heard[s] ELSE done[CHOOSE i \in T : \A j \in T : j <= i].n

\* poll of the whole future.
PollFuture ==
  /\ at = "poll"
  /\ sq' = sq \o Pushed
  /\ armed' = armed \cup {s \in Streams : \E k \in PolledKids : fut.kids[k].ud = s}
  /\ done' = WithoutTaken
  /\ heard' = [s \in Streams |-> HeardOf(s)]
  /\ fut' = IF FutReady(PolledFut) THEN NoFut ELSE PolledFut
  /\ at' = IF FutReady(PolledFut) THEN "idle" ELSE "submit"
  /\ UNCHANGED <<next_ud, cq, lost, kernelSide>>

----------------------------------------------------------------------------
(* The kernel's drain, and the loop of block_on.                           *)

\* How much of queue q is drained before the request pool is full.
DrainLen(q) ==
  LET fits(n) == Cardinality({i \in 1 .. n : q[i].op = "READ"})
                   + Cardinality(in_flight) <= PoolLen
  IN CHOOSE n \in 0 .. Len(q) : fits(n) /\ (n < Len(q) => ~fits(n + 1))

Named(q, op) == {q[i].ud : i \in {j \in 1 .. Len(q) : q[j].op = op}}

\* Stream s after the entries of q: the last one that names it decides.
SubscribedAfter(q, s) ==
  LET J == {j \in 1 .. Len(q) : q[j].op # "READ" /\ q[j].ud = s}
  IN IF J = {} THEN s \in subscribed
     ELSE q[CHOOSE j \in J : \A k \in J : k <= j].op = "SUB"

\* Mutant: what the request pool has no room for is dropped from the queue.
DrainAll(q, n) ==
  /\ in_flight' = in_flight \cup Named(SubSeq(q, 1, n), "READ")
  /\ subscribed' = {s \in Streams : SubscribedAfter(q, s)}
  /\ skipped' = [s \in Streams |-> IF s \in Named(q, "SUB") THEN 0 ELSE skipped[s]]
  /\ sq' = <<>>

\* ring_submit: the queue is drained in order, as far as the pool allows; a new
\* subscription starts with nothing dropped.
Drain(q, n) ==
  LET taken == SubSeq(q, 1, n)
  IN /\ in_flight' = in_flight \cup Named(taken, "READ")
     /\ subscribed' = {s \in Streams : SubscribedAfter(taken, s)}
     /\ skipped' = [s \in Streams |-> IF s \in Named(taken, "SUB") THEN 0 ELSE skipped[s]]
     /\ sq' = SubSeq(q, n + 1, Len(q))

\* The doorbell: everything pushed so far.
Submit ==
  /\ at = "submit"
  /\ Drain(sq, DrainLen(sq))
  /\ at' = "wait"
  /\ UNCHANGED <<next_ud, armed, fut, cq, done, lost, input, heard>>

\* ring_wait returns when there is something to reap.
Wait ==
  /\ at = "wait" /\ cq # <<>>
  /\ at' = "reap"
  /\ UNCHANGED <<next_ud, armed, fut, sq, cq, done, lost, kernelSide, heard>>

\* reap, an entry at a time: it moves into the table, or finds no room and is
\* counted; a drop flag is counted either way.  The queue fills up meanwhile.
ReapOne ==
  /\ at = "reap" /\ cq # <<>>
  /\ done' = IF Len(done) < TableLen THEN Append(done, Head(cq)) ELSE done
  /\ lost' = [lost EXCEPT !.drops = @ + (IF Head(cq).dropped THEN 1 ELSE 0),
                          !.undelivered = @ + (IF Len(done) < TableLen THEN 0 ELSE 1)]
  /\ cq' = Tail(cq)
  /\ UNCHANGED <<next_ud, armed, fut, at, sq, kernelSide, heard>>

\* The tail, read once more, says that the queue is empty.
ReapDone ==
  /\ at = "reap" /\ cq = <<>>
  /\ at' = "report"
  /\ UNCHANGED <<next_ud, armed, fut, sq, cq, done, lost, kernelSide, heard>>

ReportLosses ==
  /\ at = "report"
  /\ lost' = [lost EXCEPT !.reported = <<lost.drops, lost.undelivered>>]
  /\ at' = "poll"
  /\ UNCHANGED <<next_ud, armed, fut, sq, cq, done, kernelSide, heard>>

\* cancel: pushed and submitted at once; what is staged or queued stays.
CancelStream(s) ==
  LET q == Append(sq, [op |-> "CANCEL", ud |-> s])
  IN /\ at = "idle" /\ s \in armed
     /\ armed' = armed \ {s}
     /\ Drain(q, DrainLen(q))
     /\ UNCHANGED <<next_ud, fut, at, cq, done, lost, input, heard>>

----------------------------------------------------------------------------
(* Input and answers, at any time.                                         *)

Event(s) ==
  /\ input < MaxInput
  /\ input' = input + 1
  /\ IF s \notin subscribed THEN UNCHANGED <<cq, skipped>>
     ELSE IF Len(cq) >= CqLen
     THEN skipped' = [skipped EXCEPT ![s] = @ + 1] /\ UNCHANGED cq
     ELSE /\ cq' = Append(cq, [ud |-> s, n |-> input + 1, dropped |-> skipped[s] > 0])
          /\ skipped' = [skipped EXCEPT ![s] = 0]
  /\ UNCHANGED <<next_ud, armed, fut, at, sq, done, lost, subscribed, in_flight, heard>>

\* post_completion looks at no room: a full queue's cell is written over.
Answer(u) ==
  LET e == [ud |-> u, n |-> 0, dropped |-> FALSE]
      lapped == Len(cq) - CqLen + 1
  IN /\ u \in in_flight
     /\ in_flight' = in_flight \ {u}
     /\ cq' = Append(IF Len(cq) >= CqLen THEN [cq EXCEPT ![lapped] = e] ELSE cq, e)
     /\ UNCHANGED <<next_ud, armed, fut, at, sq, done, lost, subscribed, skipped, input, heard>>

----------------------------------------------------------------------------
ProgramStarts ==
  \/ \E n \in 1 .. PoolLen + 1 : BlockOnJoin(n)
  \/ \E s \in Streams, n \in 1 .. 2 : BlockOnCollect(s, n) \/ BlockOnJoin2(s, n)
  \/ \E a, b \in Streams : a # b /\ BlockOnSelect2(a, b)
  \/ \E s \in Streams : CancelStream(s)

ExecutorStep == PollFuture \/ Submit \/ Wait \/ ReapOne \/ ReapDone \/ ReportLosses

ReactorNext ==
  \/ ProgramStarts
  \/ PollFuture \/ Submit \/ Wait \/ ReapOne \/ ReapDone \/ ReportLosses
  \/ \E s \in Streams : Event(s)
  \/ \E u \in in_flight : Answer(u)

\* The program runs on; the device answers every request.
ReactorFairness ==
  /\ WF_reactorAllVars(ExecutorStep)
  /\ WF_reactorAllVars(\E u \in in_flight : Answer(u))

ReactorSpec == ReactorInit /\ [][ReactorNext]_reactorAllVars /\ ReactorFairness

----------------------------------------------------------------------------
(* Properties.                                                             *)

\* What is on its way to the program, oldest first.
OnTheWay == done \o cq

\* A stream is heard in the order it happened and nothing twice, whatever is
\* joined, selected, cancelled and armed again in between: the loser of a
\* select2 keeps its event, and keeps its place.
StreamHeardInOrder ==
  \A s \in Streams, j \in 1 .. Len(OnTheWay) : OnTheWay[j].ud = s =>
    /\ OnTheWay[j].n > heard[s]
    /\ \A i \in 1 .. j - 1 : OnTheWay[i].ud = s => OnTheWay[i].n < OnTheWay[j].n

\* block_on of reads returns, or an answer it waits for was discarded and the
\* discard has been counted: more reads than the device takes at once, other
\* streams' events in the same queue, in any order.
ReadsReturnOrCounted ==
  (at = "poll" /\ \A k \in 1 .. Len(fut.kids) : fut.kids[k].ud \notin Streams)
    ~> (at = "idle" \/ lost.undelivered > 0)

=============================================================================
