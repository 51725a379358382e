-------------------------------- MODULE Xhci --------------------------------
(***************************************************************************)
(* The USB keyboard: kernel/src/xhci.rs.  Bring-up of the controller,      *)
(* enumeration of one boot keyboard over command and control rings, the    *)
(* interrupt endpoint's reports turned into scancodes, and the place in    *)
(* the scheduler's idle path where it is polled.                           *)
(*                                                                         *)
(* The controller (external) reads the producer rings and writes the event *)
(* ring in memory it shares with the driver; both sides know what is new   *)
(* by the cycle bit of a slot alone.                                       *)
(***************************************************************************)
EXTENDS Naturals, Sequences, FiniteSets, SequencesExt

CONSTANTS
  RingCap,        \* slots of a producer ring, the link included
  EventCap,       \* slots of the event ring
  Modifiers,      \* keys of the report's modifier byte
  PlainKeys,      \* keys with a one-byte code
  ExtendedKeys,   \* keys with an 0xE0 prefix
  OutLen,         \* bytes decode_report may emit for one report
  Connected,      \* root ports with a device, numbered as the scan meets them
  HeartbeatOn,    \* DISPLAY_HEARTBEAT of the interactive build
  MaxPortEvents,  \* bound: port events no reset has asked for
  MaxKeyChanges,  \* bound: key transitions
  MaxRepeats      \* bound: reports of a keyboard that repeats the one before

\* A ring (256 slots in the source) holds a control transfer, a free slot and
\* the link.
ASSUME XhciAssumption ==
  /\ RingCap \in Nat \ (0 .. 4) /\ EventCap \in Nat \ {0} /\ OutLen \in Nat
  /\ Connected \in Nat /\ HeartbeatOn \in BOOLEAN

VARIABLES
  stage,       \* where init is: a request's number, or a name below
  waiting,     \* the driver is in poll_event
  port,        \* the port enumerated, 0 when no event came
  tried,       \* the port the scan has come to
  ring,        \* ring |-> its memory, enqueue index, producer cycle state, pushes
  hc,          \* ring |-> the controller's dequeue index, cycle, runs; on, doorbell
  evring,      \* the event ring's memory
  hcev,        \* the controller's side of it, and ERDP
  ev,          \* the driver's side: dequeue index, CCS, events taken
  answered,    \* the request last answered and the one whose event was taken
  keys,        \* the keys down
  sent,        \* the keyboard's last report
  report,      \* the report buffer
  lastReport,  \* prev_report
  heardKeys,   \* the keys a reader of the event stream takes to be down
  sched,       \* the reader: "run", or "idle" with its core in idle_until_runnable
  resetting,   \* ports whose reset is under way
  extra,       \* port events of no reset so far
  changes,     \* key transitions so far
  repeats      \* repeated reports so far

driverVars == <<stage, waiting, port, tried, ring, ev, answered>>
plugVars == <<resetting, extra>>
keyVars == <<keys, sent, report, lastReport, heardKeys, sched, changes, repeats>>
usbVars == <<driverVars, hc, evring, hcev, plugVars, keyVars>>

Keys == Modifiers \cup PlainKeys \cup ExtendedKeys
RingNames == {"cmd", "ep0", "int"}

----------------------------------------------------------------------------
(* Rings and TRBs.                                                         *)

NoTrb == [kind |-> "none", n |-> 0, cycle |-> FALSE]

\* ProducerRing::new: zeroed slots, the last one a link that toggles.
NewRing ==
  [trb |-> [i \in 0 .. RingCap - 1 |->
              IF i = RingCap - 1 THEN [NoTrb EXCEPT !.kind = "link"] ELSE NoTrb],
   enqueue |-> 0, pcs |-> TRUE, made |-> 0]

\* ProducerRing::push, reaching the link: arm it, wrap, toggle.
LinkWrap(r) == [r EXCEPT !.trb[RingCap - 1].cycle = r.pcs, !.enqueue = 0, !.pcs = ~r.pcs]

\* ProducerRing::push.
Push(r, kind) ==
  LET put == [r EXCEPT !.trb[r.enqueue] = [kind |-> kind, n |-> r.made + 1, cycle |-> r.pcs],
                       !.enqueue = @ + 1, !.made = @ + 1]
  IN IF put.enqueue = RingCap - 1 THEN LinkWrap(put) ELSE put

PushAll(r, kinds) ==
  LET after[n \in 0 .. Len(kinds)] ==
        IF n = 0 THEN r ELSE Push(after[n - 1], kinds[n])
  IN after[Len(kinds)]

\* EventRing::poll: the slot is new if its cycle is the consumer's.
HasEvent == evring[ev.deq].cycle = ev.ccs

\* Mutant: the cycle state is not toggled at the wrap.
AdvancedNoToggle == [deq |-> (ev.deq + 1) % EventCap, ccs |-> ev.ccs, taken |-> ev.taken + 1]

Advanced ==
  [deq |-> (ev.deq + 1) % EventCap,
   ccs |-> IF ev.deq + 1 = EventCap THEN ~ev.ccs ELSE ev.ccs,
   taken |-> ev.taken + 1]

\* The controller (external) appends an event; it stops one short of ERDP.
EventRoom == (hcev.enq + 1) % EventCap # hcev.erdp

PostEvent(e) ==
  /\ EventRoom
  /\ evring' = [evring EXCEPT ![hcev.enq] =
                  [cycle |-> hcev.pcs, type |-> e.type, ring |-> e.ring, n |-> e.n,
                   ok |-> e.ok, num |-> hcev.posted + 1]]
  /\ hcev' = [hcev EXCEPT !.enq = (@ + 1) % EventCap, !.posted = @ + 1,
                !.pcs = IF hcev.enq + 1 = EventCap THEN ~@ ELSE @]

----------------------------------------------------------------------------
(* Enumeration.                                                            *)

\* A request: the ring it goes to, the TRBs it pushes, the event it waits for.
Command(kind) == [ring |-> "cmd", trbs |-> <<kind>>, want |-> "cmd"]
EnableSlot    == Command("enable")
AddressDevice == Command("address")

\* control_in; a request without data has no data stage.
ControlIn(data) ==
  [ring |-> "ep0", want |-> "xfer",
   trbs |-> IF data THEN <<"setup", "data", "status">> ELSE <<"setup", "status">>]

\* Device descriptor, configuration descriptor, SET_CONFIGURATION.
DescribeDevice == <<ControlIn(TRUE), ControlIn(TRUE), ControlIn(FALSE)>>

\* SET_PROTOCOL, SET_IDLE, Configure Endpoint.
ConfigureInterruptEndpoint ==
  <<ControlIn(FALSE), ControlIn(FALSE), Command("configure")>>

\* What init asks for, in order.
Request == <<EnableSlot, AddressDevice>> \o DescribeDevice \o ConfigureInterruptEndpoint

ADDRESS == 2
CONFIGURATION == 4
SET_IDLE == 7
PORT == 9     \* the wait for the port reset
READY == 10   \* reports are read
DEAF == 11    \* the endpoint is configured, without a report buffer
OFF == 12     \* enumeration has ended early
PANIC == 13
START == 0
RESET == 14   \* found and mapped
RUN == 15     \* reset

InRequests == stage \in 1 .. Len(Request)
Wanted == IF stage = PORT THEN "port" ELSE Request[stage].want

\* init: the controller is found on the bus and its registers mapped, or not.
Discover(works) ==
  /\ stage = START
  /\ stage' = IF works THEN RESET ELSE OFF
  /\ UNCHANGED <<waiting, port, tried, ring, hc, evring, hcev, ev, answered, plugVars, keyVars>>

\* reset: halt, reset and become ready, each within its spins.
ResetController(works) ==
  /\ stage = RESET
  /\ stage' = IF works THEN RUN ELSE OFF
  /\ UNCHANGED <<waiting, port, tried, ring, hc, evring, hcev, ev, answered, plugVars, keyVars>>

\* The next port with a device is reset.
ResetPort == tried' = tried + 1 /\ resetting' = resetting \cup {tried + 1}

\* program_and_run: the rings, any allocation of which may fail, then Run; the
\* first connected port is reset and awaited.
ProgramAndRun(works) ==
  /\ stage = RUN
  /\ IF works /\ Connected > 0
     THEN stage' = PORT /\ waiting' = TRUE /\ ResetPort
     ELSE /\ stage' = IF works THEN 1 ELSE OFF
          /\ waiting' = FALSE /\ UNCHANGED <<tried, resetting>>
  /\ hc' = IF works THEN [hc EXCEPT !["cmd"].on = TRUE] ELSE hc
  /\ UNCHANGED <<port, ring, evring, hcev, ev, answered, extra, keyVars>>

\* A request is pushed and its doorbell rung.  address_device computes the
\* port's register from port - 1: with no port the checked subtraction panics.
\* It also takes frames, as the other steps with an allocation do.
Issue(frames) ==
  /\ InRequests /\ ~waiting
  /\ LET q == Request[stage]
     IN IF stage = ADDRESS /\ port = 0
        THEN stage' = PANIC /\ UNCHANGED <<waiting, ring, hc>>
        ELSE IF ~frames THEN stage' = OFF /\ UNCHANGED <<waiting, ring, hc>>
        ELSE /\ ring' = [ring EXCEPT ![q.ring] = PushAll(@, q.trbs)]
             /\ hc' = [hc EXCEPT ![q.ring].bell = TRUE]
             /\ waiting' = TRUE
             /\ UNCHANGED stage
  /\ UNCHANGED <<port, tried, evring, hcev, ev, answered, plugVars, keyVars>>

\* arm_report_read.
Arm == ring' = [ring EXCEPT !["int"] = Push(@, "normal")]

\* After a request: the next one; set-up of the endpoint arms the first read if
\* its buffer could be had.  A failure ends enumeration, except of SET_IDLE.
Following(ok, endpoint, buffer) ==
  IF stage = PORT THEN 1
  ELSE IF ~ok /\ stage # SET_IDLE THEN OFF
  ELSE IF stage = CONFIGURATION /\ ~endpoint THEN OFF
  ELSE IF stage = Len(Request) THEN IF buffer THEN READY ELSE DEAF
  ELSE stage + 1

Proceed(ok, endpoint, buffer) ==
  /\ waiting' = FALSE
  /\ stage' = Following(ok, endpoint, buffer)
  /\ IF stage' = READY THEN Arm /\ hc' = [hc EXCEPT !["int"].bell = TRUE]
     ELSE UNCHANGED <<ring, hc>>

\* Mutant: any event ends the wait.
IsWantedAny(e) == TRUE

IsWanted(e) == e.type = Wanted

\* poll_event: events of other types are drained; the wanted one ends the wait,
\* and ERDP moves up.  The event that ends the wait for a port is taken for the
\* port the scan has come to, whichever port it names.
PollEvent(endpoint, buffer) ==
  LET e == evring[ev.deq]
  IN /\ waiting /\ HasEvent
     /\ ev' = Advanced
     /\ IF IsWanted(e)
        THEN /\ Proceed(e.ok, endpoint, buffer)
             /\ port' = IF stage = PORT THEN tried ELSE port
             /\ answered' = IF stage = PORT THEN answered
                            ELSE [want |-> ring[Request[stage].ring].made, got |-> e.n]
             /\ hcev' = [hcev EXCEPT !.erdp = Advanced.deq]
        ELSE UNCHANGED <<stage, waiting, port, ring, hc, answered, hcev>>
     /\ UNCHANGED <<tried, evring, plugVars, keyVars>>

\* poll_event gives up; the scan goes on with the next connected port.
SpinRunsOut(buffer) ==
  /\ waiting /\ ~HasEvent
  /\ IF stage = PORT /\ tried < Connected
     THEN ResetPort /\ UNCHANGED <<stage, waiting, ring, hc>>
     ELSE Proceed(FALSE, TRUE, buffer) /\ UNCHANGED <<tried, resetting>>
  /\ hcev' = [hcev EXCEPT !.erdp = ev.deq]
  /\ UNCHANGED <<port, evring, ev, answered, extra, keyVars>>

----------------------------------------------------------------------------
(* The controller and the keyboard (external).                             *)

Trb(r) == ring[r].trb[hc[r].deq]
NewTrb(r) == hc[r].on /\ hc[r].bell /\ Trb(r).cycle = hc[r].ccs

Consumed(r) == [hc EXCEPT ![r].deq = @ + 1, ![r].ran = Trb(r).n]

\* A link with toggle.
FollowLink(r) ==
  /\ NewTrb(r) /\ Trb(r).kind = "link"
  /\ hc' = [hc EXCEPT ![r].deq = 0, ![r].ccs = ~@]
  /\ UNCHANGED <<driverVars, evring, hcev, plugVars, keyVars>>

\* A stage of a control transfer that raises no event.
RunQuiet(r) ==
  /\ NewTrb(r) /\ Trb(r).kind \in {"setup", "data"}
  /\ hc' = Consumed(r)
  /\ UNCHANGED <<driverVars, evring, hcev, plugVars, keyVars>>

\* A command or a status stage.  Address Device starts EP0, Configure Endpoint
\* the interrupt ring, each at the dequeue pointer and cycle of its context;
\* a stalled control endpoint stays halted.
RunLoud(r, ok) ==
  /\ NewTrb(r) /\ Trb(r).kind \in {"enable", "address", "configure", "status"}
  /\ PostEvent([type |-> IF r = "cmd" THEN "cmd" ELSE "xfer", ring |-> r,
                n |-> Trb(r).n, ok |-> ok])
  /\ hc' = [Consumed(r) EXCEPT
              !["ep0"].on = IF Trb(r).kind = "address" THEN ok
                            ELSE IF r = "ep0" THEN ok ELSE @,
              !["int"].on = IF Trb(r).kind = "configure" THEN ok ELSE @]
  /\ UNCHANGED <<driverVars, plugVars, keyVars>>

\* SET_IDLE, the last control transfer, has succeeded; enumeration goes on
\* without it, and then the keyboard repeats itself.
IdleSet == hc["ep0"].on /\ hc["ep0"].ran = ring["ep0"].made

\* An armed read completes with the next report: a change, or a repetition.
RunReport ==
  /\ NewTrb("int") /\ Trb("int").kind = "normal"
  /\ IF keys # sent THEN UNCHANGED repeats
     ELSE ~IdleSet /\ repeats < MaxRepeats /\ repeats' = repeats + 1
  /\ PostEvent([type |-> "xfer", ring |-> "int", n |-> Trb("int").n, ok |-> TRUE])
  /\ hc' = Consumed("int")
  /\ report' = keys /\ sent' = keys
  /\ UNCHANGED <<driverVars, keys, lastReport, heardKeys, sched, changes, plugVars>>

PortChange(p) == PostEvent([type |-> "port", ring |-> "none", n |-> p, ok |-> TRUE])

\* The reset of port p is done.
PortReset(p) ==
  /\ p \in resetting
  /\ PortChange(p)
  /\ resetting' = resetting \ {p}
  /\ UNCHANGED <<driverVars, hc, extra, keyVars>>

\* A hot plug, on a port the scan does not come to.
HotPlug ==
  /\ stage \notin {START, RESET, RUN, OFF, PANIC} /\ extra < MaxPortEvents
  /\ PortChange(0)
  /\ extra' = extra + 1
  /\ UNCHANGED <<driverVars, hc, resetting, keyVars>>

KeyChange(k) ==
  /\ changes < MaxKeyChanges /\ stage = READY
  /\ keys' = IF k \in keys THEN keys \ {k} ELSE keys \cup {k}
  /\ changes' = changes + 1
  /\ UNCHANGED <<driverVars, hc, evring, hcev, sent, report, lastReport, heardKeys, sched, repeats,
                 plugVars>>

----------------------------------------------------------------------------
(* Reports to scancodes, and where they are polled.                        *)

\* usage_to_set1, modifier_to_set1: the bytes of a transition.
Bytes(k, down) ==
  IF k \in ExtendedKeys THEN <<[key |-> "E0", down |-> TRUE], [key |-> k, down |-> down]>>
  ELSE <<[key |-> k, down |-> down]>>

BytesOf(set, down) ==
  FlattenSeq([i \in 1 .. Cardinality(set) |-> Bytes(SetToSeq(set)[i], down)])

\* decode_report: modifiers, then releases, then presses, up to OutLen bytes.
DecodeReport(was, now) ==
  LET up == was \ now
      down == now \ was
      all == BytesOf(up \cap Modifiers, FALSE) \o BytesOf(down \cap Modifiers, TRUE)
             \o BytesOf(up \ Modifiers, FALSE) \o BytesOf(down \ Modifiers, TRUE)
  IN SubSeq(all, 1, IF Len(all) < OutLen THEN Len(all) ELSE OutLen)

\* What a reader of the stream makes of it.
Heard(down, byte) ==
  IF byte.key = "E0" THEN down
  ELSE IF byte.down THEN down \cup {byte.key} ELSE down \ {byte.key}

\* The number of events the controller has posted and the driver not taken.
Pending == hcev.posted - ev.taken

\* poll_keyboard's loop: take every event; was one of them a report?
EventsDrained ==
  [deq |-> (ev.deq + Pending) % EventCap, taken |-> ev.taken + Pending,
   ccs |-> IF ev.deq + Pending >= EventCap THEN ~ev.ccs ELSE ev.ccs]

GotReport ==
  \E i \in 0 .. Pending - 1 :
    LET e == evring[(ev.deq + i) % EventCap] IN e.type = "xfer" /\ e.ring = "int"

\* Mutant: the next read is not armed.
RearmNot == UNCHANGED <<ring, hc>>

\* The end of poll_keyboard: arm_report_read again.
Rearm == Arm /\ hc' = [hc EXCEPT !["int"].bell = TRUE]

\* The reader blocks; the scheduler, with nothing else to run, polls the
\* keyboard once and enters idle_until_runnable, which resumes the reader if
\* the poll has woken it and otherwise halts without polling again.
ReaderParks ==
  /\ stage = READY /\ sched = "run"
  /\ ev' = EventsDrained /\ hcev' = [hcev EXCEPT !.erdp = EventsDrained.deq]
  /\ IF GotReport
     THEN /\ heardKeys' = FoldLeft(Heard, heardKeys, DecodeReport(lastReport, report))
          /\ lastReport' = report
          /\ sched' = IF DecodeReport(lastReport, report) = <<>> THEN "idle" ELSE "run"
          /\ Rearm
     ELSE /\ sched' = "idle"
          /\ UNCHANGED <<heardKeys, lastReport, ring, hc>>
  /\ UNCHANGED <<stage, waiting, port, tried, evring, answered, keys, sent, report, changes,
                 repeats, plugVars>>

\* A tick ends the halt; the heartbeat's mouse packet wakes the reader.
Heartbeat ==
  /\ sched = "idle" /\ HeartbeatOn
  /\ sched' = "run"
  /\ UNCHANGED <<driverVars, hc, evring, hcev, keys, sent, report, lastReport, heardKeys, changes,
                 repeats, plugVars>>

----------------------------------------------------------------------------
UsbInit ==
  /\ stage = START /\ waiting = FALSE /\ port = 0 /\ tried = 0 /\ resetting = {}
  /\ ring = [r \in RingNames |-> NewRing]
  /\ hc = [r \in RingNames |-> [deq |-> 0, ccs |-> TRUE, ran |-> 0, on |-> FALSE,
                                bell |-> FALSE]]
  /\ evring = [i \in 0 .. EventCap - 1 |->
                 [cycle |-> FALSE, type |-> "none", ring |-> "none", n |-> 0, ok |-> FALSE,
                  num |-> 0]]
  /\ hcev = [enq |-> 0, pcs |-> TRUE, erdp |-> 0, posted |-> 0]
  /\ ev = [deq |-> 0, ccs |-> TRUE, taken |-> 0]
  /\ answered = [want |-> 0, got |-> 0]
  /\ keys = {} /\ sent = {} /\ report = {} /\ lastReport = {} /\ heardKeys = {}
  /\ sched = "run" /\ extra = 0 /\ changes = 0 /\ repeats = 0

Controller ==
  \/ \E r \in RingNames : FollowLink(r) \/ RunQuiet(r) \/ \E ok \in BOOLEAN : RunLoud(r, ok)
  \/ RunReport

UsbNext ==
  \/ \E works \in BOOLEAN :
       Discover(works) \/ ResetController(works) \/ ProgramAndRun(works)
  \/ \E frames \in BOOLEAN : Issue(frames)
  \/ \E endpoint, buffer \in BOOLEAN : PollEvent(endpoint, buffer)
  \/ \E buffer \in BOOLEAN : SpinRunsOut(buffer)
  \/ Controller
  \/ \E p \in 1 .. Connected : PortReset(p)
  \/ HotPlug
  \/ \E k \in Keys : KeyChange(k)
  \/ ReaderParks
  \/ Heartbeat

\* The controller serves what its doorbells announce; the reader, once it has
\* read its events, waits for more; the timer ticks.
UsbFairness ==
  /\ WF_usbVars(Controller)
  /\ WF_usbVars(ReaderParks)
  /\ WF_usbVars(Heartbeat)

UsbSpec == UsbInit /\ [][UsbNext]_usbVars /\ UsbFairness

----------------------------------------------------------------------------
(* Properties.                                                             *)

\* Across every wrap, the slots either side takes to be new are the ones the
\* other side wrote, each once and in order: TRBs of the three rings at the
\* controller, events at the driver.
RingsInStep ==
  /\ \A r \in RingNames :
       NewTrb(r) /\ Trb(r).kind # "link" => Trb(r).n = hc[r].ran + 1
  /\ HasEvent => evring[ev.deq].num = ev.taken + 1
  /\ Pending > 0 => HasEvent

\* The event that ends the wait of a command or of a control transfer is the
\* answer to that request, with late answers to a request that was given up,
\* port events and reports in between (poll_event matches the type alone).
AnswersMatch == answered.want = answered.got

\* Once the keys rest, the event stream says what is down: no key sticks and
\* none is lost.
KeysReachReader == <>[](stage = READY => heardKeys = keys)

=============================================================================
