---------------------------- MODULE SimplePublish ---------------------------
(***************************************************************************)
(* The main loop of the SAM C21 example (samc21_xplained_pro, main.c) with *)
(* what surrounds the state machine there: the watchdog, the clock that    *)
(* wraps around, the payload it sends and the inbox it drains.  The        *)
(* Nucleo's loop is the same without a watchdog.                           *)
(*                                                                         *)
(* Of the state machine it keeps the timing: one scheduled event, the      *)
(* condition of the loop of a call, and what interrupts do to both.  What  *)
(* the events and callbacks decide is left open; QslFsm has it.            *)
(*                                                                         *)
(* The unit of time is DN_FSM_RUN_INTERVAL_MS.  The clock is compared with *)
(* the true ages of what it measures.                                      *)
(***************************************************************************)
EXTENDS Inbox, Clock, PayloadLimit

CONSTANTS
  Delays,           \* DN_CMD_PERIOD_MS, DN_SERIAL_RESPONSE_TIMEOUT_MS, 0
  SendTimeout,      \* DN_SEND_TIMEOUT_MS
  ConnectTimeout,   \* DN_CONNECT_TIMEOUT_S
  DataPeriod,       \* DATA_PERIOD_MS
  WatchdogWarning,  \* WATCHDOG_WARNING_MS
  SrcPortArgs, DestPortArgs, PayloadSizes,  \* what the application passes
  EmptyMessages     \* the messages whose payload is empty

ASSUME LoopAssumption ==
  /\ Delays \subseteq Nat /\ SendTimeout \in Nat /\ ConnectTimeout \in Nat
  /\ DataPeriod \in Nat /\ WatchdogWarning \in Nat
  /\ SrcPortArgs \subseteq Ports /\ DestPortArgs \subseteq Ports
  /\ PayloadSizes \subseteq Nat /\ EmptyMessages \subseteq 1 .. MaxArrivals

ASSUME TimesFitClock ==
  /\ SendTimeout + 1 < ClockSize /\ ConnectTimeout + 1 < ClockSize
  /\ \A d \in Delays : d + 1 < ClockSize

ASSUME FoodLasts == DataPeriod < WatchdogWarning /\ 1 < WatchdogWarning

VARIABLES
  pc,            \* where the application is
  api,           \* the API call it is in
  connected,     \* the state is CONNECTED (or SENDING)
  waiting,       \* the state is one the loop of the call waits in
  srcPort,       \* dn_fsm_vars.srcPort
  packet,        \* payloadSize, destPort and the source port of a send, if any
  now,           \* dn_time_ms()
  cmdStart,      \* cmdStart_ms
  passed,        \* timePassed_ms in dn_fsm_run; 0 outside
  event,         \* fsmArmed, fsmEventScheduled_ms and fsmDelay_ms
  cmdAge, eventAge,  \* history: the true times since cmdStart and event
  rescheduled,   \* history: the event was scheduled since passed was taken
  food           \* the time since the watchdog was fed

loopVars == <<pc, api, connected, waiting, srcPort, packet>>
timeVars == <<now, cmdStart, passed, event, cmdAge, eventAge, rescheduled, food>>
appVars == <<loopVars, timeVars, inboxVars>>

None == "none"

CmdLimit == IF api = "connect" THEN ConnectTimeout ELSE SendTimeout

Unarmed == [armed |-> FALSE, scheduled |-> 0, delay |-> 0]

-----------------------------------------------------------------------------
(* Time. *)

Feed == food' = 0

AtMost(n, bound) == IF n > bound THEN bound ELSE n

\* dn_sleep_ms, and the watchdog's own count.
Sleep(d, sinceFood) ==
  /\ now' = Later(now, d)
  /\ food' = sinceFood + d
  /\ cmdAge' = IF api = None THEN 0 ELSE AtMost(cmdAge + d, CmdLimit + 2)
  /\ eventAge' = IF event.armed THEN AtMost(eventAge + d, event.delay + 2) ELSE 0
  /\ UNCHANGED <<cmdStart, event>>

NoTime == UNCHANGED <<now, cmdStart, cmdAge>>

\* The thread is not between the read of the clock and the test of the event.
NotTesting == UNCHANGED <<passed, rescheduled>>

\* Fault: the time the event is due is stored, and may leave 32 bits.
ScheduleDeadline(d) ==
  /\ event' = [armed |-> TRUE, scheduled |-> now + d, delay |-> d]
  /\ eventAge' = 0

\* Fault: the wrong time is stored.
ScheduleLate(d) ==
  /\ event' = [armed |-> TRUE, scheduled |-> Later(now, 1), delay |-> d]
  /\ eventAge' = 0

Schedule(d) ==
  /\ event' = [armed |-> TRUE, scheduled |-> now, delay |-> d]
  /\ eventAge' = 0

\* The time it was scheduled at stays; a delay is looked at only when armed.
Cancel ==
  /\ event' = [event EXCEPT !.armed = FALSE, !.delay = 0]
  /\ eventAge' = 0

-----------------------------------------------------------------------------
(* The main loop, and the API calls it makes. *)

Top ==
  /\ pc = "top"
  /\ Feed
  /\ pc' = IF connected THEN "send" ELSE "connect"
  /\ NoTime /\ NotTesting
  /\ UNCHANGED <<api, connected, waiting, srcPort, packet, event, eventAge,
                 inboxVars>>

StartLoop(a) ==
  /\ pc' = "test" /\ api' = a
  /\ cmdStart' = now /\ cmdAge' = 0 /\ NotTesting
  /\ UNCHANGED <<now, food, inboxVars>>

\* A late answer may have connected meanwhile; then there is nothing to do.
BeginConnect(port) ==
  /\ pc = "connect"
  /\ StartLoop("connect")
  /\ waiting' = ~connected
  /\ \/ connected /\ UNCHANGED <<srcPort, event, eventAge>>
     \/ /\ ~connected
        /\ srcPort' = IF port = 0 THEN DefaultPort ELSE port
        /\ \E d \in Delays : Schedule(d)
  /\ UNCHANGED <<connected, packet>>

Accepted(size, dest) == connected /\ size <= GetPayloadLimit(dest, srcPort)

BeginSend(size, dest) ==
  /\ pc = "send" /\ Accepted(size, dest)
  /\ packet' = {[size |-> size, dest |-> DestPortOf(dest), src |-> srcPort]}
  /\ StartLoop("send")
  /\ waiting' = TRUE
  /\ Schedule(0)
  /\ UNCHANGED <<connected, srcPort>>

SendRefused(size, dest) ==
  /\ pc = "send" /\ ~Accepted(size, dest)
  /\ pc' = "drain"
  /\ UNCHANGED <<api, connected, waiting, srcPort, packet, timeVars, inboxVars>>

Leave ==
  /\ pc' = IF api = "send" THEN "drain" ELSE "top"
  /\ api' = None /\ packet' = {} /\ waiting' = FALSE
  /\ cmdStart' = 0 /\ cmdAge' = 0 /\ NotTesting
  /\ UNCHANGED <<srcPort, now, food, inboxVars>>

\* Fault: the loop of a call does not feed the watchdog.
LoopGoesOnUnfed ==
  /\ pc = "test" /\ waiting /\ Elapsed(now, cmdStart) <= CmdLimit
  /\ pc' = "run"
  /\ UNCHANGED <<api, connected, waiting, srcPort, packet, timeVars, inboxVars>>

LoopGoesOn ==
  /\ pc = "test" /\ waiting /\ Elapsed(now, cmdStart) <= CmdLimit
  /\ Feed
  /\ pc' = "run"
  /\ NoTime /\ NotTesting
  /\ UNCHANGED <<api, connected, waiting, srcPort, packet, event, eventAge,
                 inboxVars>>

LoopEnds ==
  /\ pc = "test" /\ ~waiting
  /\ Leave
  /\ UNCHANGED <<connected, event, eventAge>>

\* A connect that times out has failed; a send that does has failed too, but
\* the connection stays.
LoopTimesOut ==
  /\ pc = "test" /\ waiting /\ Elapsed(now, cmdStart) > CmdLimit
  /\ Leave
  /\ Cancel
  /\ connected' = (api = "send")

\* dn_fsm_run takes the elapsed time, whether or not an event is armed...
RunTakesTime ==
  /\ pc = "run" /\ pc' = "due"
  /\ passed' = Elapsed(now, event.scheduled) /\ rescheduled' = FALSE
  /\ NoTime
  /\ UNCHANGED <<api, connected, waiting, srcPort, packet, event, eventAge, food,
                 inboxVars>>

\* ...and then looks at the event, which an interrupt may have replaced.
Due == event.armed /\ passed > event.delay

Tested == pc = "due" /\ pc' = "test" /\ passed' = 0 /\ rescheduled' = FALSE

\* A due event may issue a command and schedule its timeout, or be the timeout,
\* which ends a send or starts a connect over.
RunEvent ==
  /\ Due /\ Tested
  /\ \/ Cancel /\ waiting' \in {waiting, FALSE}
     \/ \E d \in Delays : Schedule(d) /\ UNCHANGED waiting
  /\ NoTime
  /\ UNCHANGED <<api, connected, srcPort, packet, food, inboxVars>>

RunSleep ==
  /\ ~Due /\ Tested
  /\ Sleep(1, food)
  /\ UNCHANGED <<api, connected, waiting, srcPort, packet, inboxVars>>

\* The number of bytes a read returned is positive.
HasBytes(message) == message # 0 /\ message \notin EmptyMessages

\* do read while there was something to read; then sleep until the next packet.
Drain ==
  /\ pc = "drain"
  /\ Read
  /\ IF readPc = "idle" THEN Feed ELSE UNCHANGED food
  /\ pc' = IF readPc' = "idle" /\ ~HasBytes(last') THEN "rest" ELSE "drain"
  /\ NoTime /\ NotTesting
  /\ UNCHANGED <<api, connected, waiting, srcPort, packet, event, eventAge>>

Rest ==
  /\ pc = "rest" /\ pc' = "top"
  /\ Sleep(DataPeriod, 0) /\ NotTesting
  /\ UNCHANGED <<api, connected, waiting, srcPort, packet, inboxVars>>

-----------------------------------------------------------------------------
(* The interrupt: a message, or a reply or notification that may change the *)
(* state and the event.  There is none of those before the first connect.   *)

MessageArrives == NotifReceive /\ UNCHANGED <<loopVars, timeVars>>

Callback ==
  /\ \/ UNCHANGED <<event, eventAge, rescheduled>>
     \/ Cancel /\ UNCHANGED rescheduled
     \/ \E d \in Delays : Schedule(d) /\ rescheduled' = (pc = "due")
  /\ connected' \in BOOLEAN /\ (connected' => srcPort # 0)
  /\ waiting' \in {waiting, FALSE}
  /\ NoTime
  /\ UNCHANGED <<pc, api, srcPort, packet, passed, food, inboxVars>>

LoopInit ==
  /\ Init
  /\ pc = "top" /\ api = None /\ connected = FALSE /\ waiting = FALSE
  /\ srcPort = 0 /\ packet = {}
  /\ now = 0 /\ cmdStart = 0 /\ passed = 0 /\ event = Unarmed
  /\ cmdAge = 0 /\ eventAge = 0 /\ rescheduled = FALSE /\ food = 0

Call ==
  \/ \E port \in SrcPortArgs : BeginConnect(port)
  \/ \E size \in PayloadSizes, dest \in DestPortArgs :
       BeginSend(size, dest) \/ SendRefused(size, dest)

Main ==
  \/ Top \/ Call
  \/ LoopGoesOn \/ LoopEnds \/ LoopTimesOut \/ RunTakesTime \/ RunEvent \/ RunSleep
  \/ Drain \/ Rest

LoopNext == Main \/ MessageArrives \/ Callback

LoopSpec == LoopInit /\ [][LoopNext]_appVars

-----------------------------------------------------------------------------
(* Properties.                                                              *)

EventType == [armed : BOOLEAN, scheduled : Times, delay : Delays \cup {0}]

PacketType == [size : PayloadSizes, dest : Ports, src : Ports]

\* Type invariant.
LoopTypeOK ==
  /\ pc \in {"top", "connect", "send", "test", "run", "due", "drain", "rest"}
  /\ api \in {"connect", "send", None}
  /\ connected \in BOOLEAN /\ waiting \in BOOLEAN
  /\ srcPort \in Ports /\ packet \subseteq PacketType
  /\ now \in Times /\ cmdStart \in Times /\ event \in EventType
  /\ cmdAge \in Nat /\ eventAge \in Nat /\ food \in Nat
  /\ passed \in Times /\ rescheduled \in BOOLEAN

\* Wherever the program spends its time, even the early warning of the watchdog
\* never fires.
WatchdogFed == food < WatchdogWarning

\* Inside a call the scheduled event is never late: it runs at the first test
\* after its delay has passed, whatever the clock shows.  It is early only if an
\* interrupt has scheduled it between the read of the clock (dn_fsm.c:322) and
\* the test (323), against the delay promised there (341, dn_fsm.h:68).
EventOnTime ==
  [][pc = "due" /\ pc' = "test" =>
       /\ event.armed /\ eventAge > event.delay => now' = now
       /\ now' = now => event.armed /\ (eventAge > event.delay \/ rescheduled)
    ]_appVars

\* An API call ends within one sleep of its time limit, also over a wrap-around.
CallEndsInTime == cmdAge <= CmdLimit + 1

\* What is handed to the mote fits the buffer of dn_fsm.c and the limit of the
\* ports it is really sent from and to.
PacketFits ==
  \A p \in packet : /\ p.size <= PayloadBufSize
                    /\ p.size <= LimitOf(p.dest, p.src)

=============================================================================
