# SmartMesh QuickStart Library: a TLA+ model

The library (`src/sm_qsl/dn_fsm.c`) lets a micro-controller use a SmartMesh IP
mote over a serial link: `dn_qsl_init`, `dn_qsl_isConnected`, `dn_qsl_connect`,
`dn_qsl_send`, `dn_qsl_read`, `dn_qsl_getTime` and `dn_qsl_setTxPower`
(`dn_qsl_api.h`). Everything happens in one finite state machine with one
scheduled event, one reply function and one outstanding command, driven by the
loops inside the API calls and by callbacks of the SmartMesh C Library.

## Inventory

| Component | State | Operations | Hard part | What makes it correct |
|---|---|---|---|---|
| State machine (`dn_fsm.c`) | `state`, the armed event (`fsmArmed`, `fsmCb`, `fsmDelay_ms`, `fsmEventScheduled_ms`), `replyCb`, the network configuration, the socket | 15 events, 14 reply functions, 2 notifications, entering a state, the two timeouts | replies and notifications come in any order, late, or never; a callback overwrites the one event that is scheduled | the outstanding command keeps its timeout; what a call leaves scheduled does not act in a later call of another kind; joining follows the configuration |
| API calls (`dn_fsm.c:105-308`) | where the call is, its start time | check the arguments and the state, enter a state, loop until done or timed out | a state in which nothing is scheduled; a timeout in an unexpected state | every call returns, from a state the next one can start in; what it returns is true |
| Repeated connect (`dn_fsm.c:149-171`) | saved configuration | compare arguments with saved values | defaults and the promiscuous search replace the arguments | the same call again leaves the connection alone |
| Inbox (`dn_fsm.c:237-259, 569-591`) | ring buffer, head, tail, count | push in a callback, pop in `dn_qsl_read` | overflow; a push during a pop, in an interrupt or in a thread | first in, first out; only an empty inbox is reported empty |
| C library, mote, link (external) | one outstanding command; the mote's state and sockets; bytes under way | answer, notify, restart, lose | all of it | |
| Application (`examples/*/SimplePublish/main.c`) | none | connect when not connected, else send and read | | packets get accepted again and again |
| Preemption (`dn_uart.c`, `dn_lock.c`) | the statement the application is at | the callbacks run in a reader thread (Raspberry Pi) or an interrupt, and `dn_lock` does nothing | races inside one operation | a command is watched again once a function has ended; the command of a send or a query and its timeout are run in no other call; calls return |
| Payload limit (`dn_fsm.c:1393-1416`) | | pure | the limit is that of the port argument, 0 for the default | what is accepted fits the ports it is sent with |
| Clock (`dn_time.c`) | 32-bit milliseconds | differences | wrap-around, strict `>` | events run at the true time, neither late nor early, and calls end in time |
| Watchdog and SAM C21 loop | a hardware counter | fed in every loop | a stretch longer than the timeout without food | it is fed wherever time passes |
| Ports' set-up, vendor code | | | | not modelled |

Components interact as follows. The application thread is in at most one API
call. The call sets the machine going (`dn_fsm_enterState`,
`dn_fsm_scheduleEvent`), then alternates the test of its loop, which may abort
the call (`dn_fsm_cmd_timeout`), with `dn_fsm_run`, which runs the scheduled
event when it is due or sleeps. An event installs a reply function, issues a
command through the C library and schedules the response timeout. The library
calls back when a frame arrives: `dn_ipmt_reply_cb` runs the installed reply
function, `dn_ipmt_notif_cb` handles events of the mote, advertisements and
downstream data.

## Modules

| Module | Models | Actions and code |
|---|---|---|
| `QslFsm` | the state machine and the API calls, in an environment that may do anything | `Connect`, `Send`, `GetTime`, `SetTxPower`: a call up to its loop; `LoopTest`: the `while` condition with `dn_fsm_cmd_timeout`; `Run`: `dn_fsm_run` with the events; `Return`: after the loop; `ReplyCb`, `NotifEvents`, `NotifAdvReceived`: the callbacks |
| `QslSystem` | `QslFsm` with a mote, a FIFO serial link that loses frames, and the main loop | `MoteTakes` with `OnParameter` (the mote may refuse) and the other answers, `MoteJoins`, `ServiceChanges`, `MoteHears`, `MoteRestarts`; `Deliver`, `Lose`; `AppInit`, `AppConnect`, `AppSend`, `AppQueries`; `SysLoop` |
| `QslApi` | what the library promises the application of `QslSystem`; `QslSystem` refines it | `BeginConnect`, `BeginSend`, `BeginQuery`, `Finish`: a call and its result; `ComesUp`, `Answers`, `GoesDown`: what happens to the connection and to the packet or query meanwhile |
| `QslReconnect`, `MCQslReconnect` | `QslFsm` with a memory of the arguments of the calls of `dn_qsl_connect` | `CallAgain`, `Step`, `ReturnAgain` |
| `QslPreempt` | `QslFsm` one statement at a time, with callbacks in an interrupt | `Statement`: the next store or test of the function under way (`todo`); `PreConnect`, `PreSend`, `PreQuery`, `PreLoopTest`, `PreReturn`: what a call reads at once and the statements that follow; `Interrupt`: a callback of `QslFsm` |
| `Inbox` | the ring buffer, `dn_qsl_read` statement by statement | `ReadCopy`, `ReadAdvance`, `ReadLoad`, `ReadStore`; `NotifReceive` in an interrupt, `PushCopy` to `PushStore` in a thread |
| `InboxFifo` | what `dn_qsl_read` promises (`dn_qsl_api.h:97-102`), without exception; the steps of `Inbox` are its steps or those of the one exception `MissesMessage` | `Arrive`, `FindMessage`, `Take`, `FindEmpty` |
| `Clock` | the millisecond clock that wraps around, and differences of it | |
| `PayloadLimit` | `getPayloadLimit`, and the limit of a packet | |
| `SimplePublish` | the main loop of the SAM C21 with its watchdog, over `Inbox`, `Clock` and `PayloadLimit`; of the state machine only the timing | `Top` to `Rest`: the loop of `main`; `LoopGoesOn`, `RunTakesTime`, `RunEvent`, `RunSleep`: the loop of a call, with the read of the clock (`dn_fsm.c:322`) and the test of the event (323) as two steps; `Callback`, `MessageArrives`: the interrupt, between any two of them |
| `QslFsmProofs`, `QslSystemProofs`, `QslConnectionProofs`, `QslReconnectProofs`, `QslPreemptProofs`, `InboxProofs`, `SimplePublishProofs` | theorems | |

State of `QslFsm`: `timer` is the scheduled event with the time since it was
scheduled, which is kept at 0 while nothing is armed; the functions `fsmCb` and
`replyCb` point to are named by the command they issue or answer. `pending` is
the command the C library waits to see answered. `pc`, `api` and `cmdAge` are
the position and the age of the current call. `configured` is a history of the
pre-join steps the mote has answered OK in it. The operators whose comment
begins with "Fault:" are not part of any specification: each is a plausible
mistake in the definition that follows it, used to see that a property notices.

What is abstracted: message contents down to what the code branches on; payloads
(only whether they fit); join keys and ports (values from small sets); log
output; `DN_MOTE_EVENT_MASK_*` bits and response codes the code does not tell
apart (`ERROR` stands for the others). Time is counted in sleeps of
`DN_FSM_RUN_INTERVAL_MS`, because inside a call the clock matters only in the
loop.

What is assumed of the parts outside the repository (the C library is a
submodule): one command is outstanding at a time, a further one is refused and
leaves the first as it is; a command may be refused for other reasons;
`dn_ipmt_cancelTx` forgets the outstanding command; the answer to a command
that is not outstanding is dropped. In `QslSystem` also: the mote may refuse
setJoinKey, setNetworkId, getTime and setTxPower at any time (`OnParameter`, counted
by `MaxRefusals`) and answers the other commands as its state demands; it answers in
well under the response timeout (`dn_fsm.h:70`) and finishes joining in well
under the connect timeout (`dn_fsm.h:71`), so no time passes in the response
timeout while a frame is under way (`TimeMayPass`); joining, a service change
and hearing a network take longer than the answer to the command that starts
them; parameters survive a restart of the mote and sockets do not.

## Runs

| Run | Specification | What it shows |
|---|---|---|
| `fsm` | `QslFsm`, `FairSpec` | `OutstandingIsWatched`, `NoStaleEvent`, `JoinsConcreteNetwork`, `JoinsConfigured` for every reply, notification, refusal and silence at every point; `CallReturns` |
| `reconnect` | `QslReconnect` | `RepeatKeepsNamedConnection` |
| `sys_loss` | `QslSystem` with `getTime` and `setTxPower`, six lost frames, two refusals | `RestsReady`, `ConnectedMeansOperational`, `ConnectedMeansBound`, `RetryIsScheduled`, `SendTrueMeansQueued`, `QueryKeepsConnection`, `ImplementsApi`, `KeepsSending` |
| `sys_restart` | `QslSystem`, promiscuous, disconnect before reset, two restarts at any time, two lost frames | `KeepsConnecting` |
| `preempt` | `QslPreempt`, `PreFairSpec` | `WatchedBetweenFunctions`, `NoStaleEventCalled`, `PreemptedCallReturns`, with callbacks between any two statements |
| `main_loop` | `SimplePublish` | `WatchdogFed`, `CallEndsInTime` and, but for a callback after the read of the clock, `EventOnTime`, over a wrap of the clock; `PacketFits`; `FifoUnlessMiscounted` with arrivals at any moment |

The other runs each exhibit a disagreement between the code and its
documentation (PROJECT.json, "findings"):

| Run | Property that fails | Why |
|---|---|---|
| `sys_restart_in_send` | `ConnectedMeansOperational` | the notification of a restart does not drop the command that is outstanding (`dn_fsm.c:542-551`); its reply decides the state afterwards |
| `sys_promiscuous_timeout` | `RestsReady` | `dn_fsm_cmd_timeout` does not know PROMISCUOUS (`dn_fsm.c:453-468`) |
| `reconnect_promiscuous` | `RepeatKeepsConnection` | the ID found replaces the promiscuous one (`dn_fsm.c:607`) |
| `inbox_overflow` | `ReadsInOrder` | a push into a full inbox does not advance `head` (`dn_fsm.c:581-588`) |
| `inbox_race` | `ReadsInOrder` | the read daemon and the application both change `unreadPackets`; a decrement is lost (`dn_fsm.c:252, 587`) |
| `preempt_null` | `NeverCallsNull` | `dn_fsm_cancelEvent` in the interrupt, between the test of `fsmCb` and its call (`dn_fsm.c:327-329`) |

The cause of the first has further effects, which the same model shows when the
mote may restart on its own: in a connect, a late answer cancels the retry
(`RetryIsScheduled` fails with `MaxRestarts = 1`) or is taken for the answer to a
command of the new attempt (`ConnectedMeansBound` fails). With two restarts
`SendTrueMeansQueued` fails as well, against `dn_qsl_api.h:89`, if no service is
asked for (`ServiceArg = 0`): the first restart, while joining, leads to a second
join whose report of OPERATIONAL connects before its answer has come; the send
that follows is refused by the busy C library and installs its reply function
nevertheless; the second restart moves SEND_FAILED to DISCONNECTED, the answer to
that join then runs `dn_reply_sendTo`, and `dn_qsl_send` returns TRUE with no
packet queued. This is why all these properties are stated, checked and proved for
a mote that restarts only when it is told to, and not for a small number of
restarts with which one of them still happens to hold.

Further disagreements that the models show and no run is kept for:

* `dn_reply_getTime` and `dn_reply_setTxPower` enter CONNECTED from any state
  (`dn_fsm.c:1447, 1482`). `AppQueries` asks `dn_qsl_isConnected` first; without that
  guard `ConnectedMeansOperational` fails in a few steps.
* An error in the answer to getTime or setTxPower enters DISCONNECTED although the
  mote is still on the network (`dn_fsm.c:1449-1452, 1484-1487`), and the loop of the
  call, which ends on a valid answer only, runs until its timeout all the same
  (`dn_fsm.c:272-273, 297-298`). This is the one way in which a query ends a
  connection (`QueryKeepsConnection`, `GoesDown` of `QslApi`); a lost answer does not.
* A query may run events of a connection that is not finished. A connect that
  times out in PROMISCUOUS leaves that state; an advertisement heard in the loop
  of a later query then schedules setNetworkId there (`dn_fsm.c:602-608`); an answer
  that comes so late can do the like. `NoStaleEvent` and, where callbacks preempt, also
  `NoStaleEventCalled` allow it.
* `dn_fsm_run` takes the elapsed time before it tests the event
  (`dn_fsm.c:322-323`). An answer handled in between schedules its next command,
  which the old elapsed time makes due at once, without the command period and
  against `dn_fsm.c:341` ("after a given delay") and the minimum of `dn_fsm.h:68`.
  `EventOnTime` makes an exception of exactly these (`rescheduled`) and fails
  without it. `QslPreempt` reaches such states too; from them a late answer can be
  taken for the answer to the next command, so `JoinsConfigured` does not carry
  over to `QslPreempt`.
* An arrival during the `unreadPackets--` of a read, in an interrupt, is not
  counted (`dn_fsm.c:252`). The messages keep their order, but from then on a read
  reports an empty inbox while one message waits, against `dn_qsl_api.h:97-102`.
  `FifoUnlessMiscounted` makes an exception of it, one unseen message for each such
  arrival (`MissesMessage`), and fails without it.
* `dn_qsl_setTxPower` copies `txPowerRpt` to its caller (`dn_fsm.c:304`), which no
  statement fills. Reports are not in the model; this was seen in reading.

### Bounds

* Times: one sleep per command (`CmdPeriod = 0`, `ResponseTimeout = 1`) keeps
  the order of the code's times: command period < response timeout < send
  timeout < connect timeout. The connect timeout is long enough for a complete
  join (`fsm`: with a service, and a retry of the first steps; `QslSystem`: with
  retries) and short enough to strike in every state. The proofs need no bound.
* `NetIds` holds a concrete and the promiscuous ID, `Services` no service and
  one. Two sockets let a socket leak be seen; binding a second one to the port
  is refused.
* `MaxLosses`, `MaxRestarts`, `MaxRefusals` bound faults in number, not in place. `MaxLink`
  (three messages per direction) is never the limit on commands: one is
  outstanding, and two given up can still be under way.
* `preempt`: the connect timeout of three sleeps still lets every state be
  reached, because events run early or late by one. One query stands for both.
* `main_loop`: a clock of eight values wraps around in every connect and
  between any two sends. Times keep the order of the code's: command period 0,
  then response timeout 2, send 3, connect 5; data period 3 and watchdog
  warning 4, as 3000 ms and 4000 ms. Two slots and four arrivals go around the
  inbox twice; one of them is a message without payload. The ports
  are well-known, default and other, the sizes are those around the limits.
* `inbox_overflow`, `inbox_race`: three slots.

### Fairness

`FairSpec` has weak fairness of `Loop`: a thread inside an API call is scheduled
again. `SysFairSpec` adds that the main loop keeps calling (`App`, strongly: it
gets back to its connect or send between queries), that the mote keeps working
(`Mote`) and that the link delivers (`Deliver`). Restarts, losses and queries are
never forced. `PreFairSpec` says that the interrupts leave the application time
to go on. Each is one fairness condition over a whole process, as a scheduler or
a line gives it. Deadlock is not checked: the application may stop calling and
the counted faults run out.

## Proofs

Everything below is proved for every value of the constants.

**The state machine** (`QslFsmProofs`), from `TimingAssumption` and
`DataAssumption` alone (times are naturals, the default values belong to their
sets, the promiscuous ID is an ID):

* `TypeCorrect`: `TypeOK`. `Callable` is its part about the timer; the lemmas
  on `ScheduleEvent`, `EntryTimer` and `ReplyCases` (a reply function waits,
  proceeds or enters a state) carry the later proofs too.
* `OutstandingCommandIsWatched`: `OutstandingIsWatched` is inductive as it is.
* `JoinsOnlyConcreteNetworks`, `JoinsOnlyConfigured` are not inductive; they follow
  from `EventOrder` (`EventsInOrder`). Its conjuncts say where the chain of events getMoteStatus, openSocket, bindSocket, setJoinKey,
  setNetworkId can be: outstanding only inside a call that is not a send
  (`ChainOutstanding`), scheduled only in three states, or left over in
  DISCONNECTED between two calls, where the next call replaces it
  (`ChainScheduled`); that a query with its answer has left nothing behind
  (`AnsweredIsOver`), so that returning is safe; that the answer to a pre-join
  step really belongs to it, although a reply is handed to whatever function is
  installed (`InStep`); and what each step finds done (`StepsDone`). Without
  the part on sends, an event of the chain could run in a send that returns
  with it outstanding, a refused connect would then reach DISCONNECTED, and the
  late answer would join with a configuration saved later.
* `NoStaleEventRuns` needs another invariant on top of that, `EventOwner`: whose the
  scheduled event and the outstanding command are in each call, the response
  timeout being that of the command it gives up.

**The system** (`QslSystemProofs`), with `SystemAssumption` too: a step of
`QslSystem` is a step of `QslFsm` or leaves the library alone
(`SystemRefinesFsm`). The step needs `SysTypeOK` (`SysTypeCorrect`): a frame
under way is a reply or a notification as the library parses it, and a network
heard is a concrete one. `DeliverIsStep` is the case that is not immediate: a
reply function ignores the fields that are not its own (`ReplyIsMoteReply`), and
a notification before `dn_qsl_init` changes nothing (`NothingBeforeInit`). So
every theorem on `QslFsm` holds with any number of losses and restarts
(`SystemIsSafe`).

**The connection** (`QslConnectionProofs`), under the hypothesis `Steady`: the mote
restarts only when it is told to (`MaxRestarts = 0`), and the application names
its network. Neither half can go: `sys_restart_in_send` and
`sys_promiscuous_timeout` violate `ConnectedMeansOperational` and `RestsReady`
without them. Losses, times, services, sockets, networks and further calls are
arbitrary. The properties need to know what is under way on the link, so the
inductive invariant `Together` (`TogetherAlways`) is about library, link and mote
at once:

* `InCall`: the states the machine can be in during each call. `InPhase`: event,
  command and reply function belong to the state (`Home`), with two exceptions: a
  report of the mote ends the pre-join steps while getMoteStatus is outstanding
  (`Overtaken`), and the mote has booted while the answer to the reset is lost
  (`Unanswered`).
* `MotePhase`: what the mote does, given what the library waits for. `Left` is
  the case that the mote is in a network, or will be, that the library gives up.
* `OnLink`: what is under way. Nearly always it is the outstanding command or its
  answer and nothing else (`OnlyPending`), which is why a late answer is never
  taken for another one. While the mote is `Left`, the link may hold what the
  library no longer waits for (`MayBeStale`). Whatever of it is heard at most
  tells the library to reset the mote, and the report of the boot comes behind
  all of it (`BootComesLast`), so the attempt after the reset finds the link
  empty. Where a report is waited for, that alone can be on the way (`OnlyNotice`).
* `Timing`: when a response timeout has begun to run down the link is empty, so
  giving up a command leaves nothing of it behind.

It rests on two parts of `EventOrder`, `AnsweredIsOver` and `OwnEvents`, which hold here
by `SystemRefinesFsm` (`Known`). `RestsReadyAlways`, `ConnectedIsOperational` and
`RetryIsAlwaysScheduled` follow.
Two invariants on top of it say what the mote has done for the library.
`SocketKept` (`SocketAlways`): the socket the library uses is bound from
bindSocket's answer on, in every state and for every command that comes later;
`ConnectedIsBound` follows. `VerdictKept` (`VerdictAlways`): an answer of the mote to
a packet or a query is given once, in the call that asked (`AskedIsOfCall`,
`VerdictGiven`), and while it is on its way nothing else is, so the library goes by
that answer alone. From it follow `SentMeansQueued` and `QueriesKeepConnection`, in
which the mote is free to refuse any query.

All together give `SystemImplementsApi`: the system implements `QslApi`. A step of
the loop is not seen by the application (`ApiLoop`); a frame that comes in can
bring the connection up, in a connect, or take it down, in a query the mote has
refused, and nothing else (`ApiDeliver`), because the link is empty while the
library counts itself connected and waits for nothing (`ConnectedIsFree`); a send or
a query that returns TRUE has its own answer, and that was OK (`ApiReturn`).

The proofs go through the actions in the same order as `SysNext`; a reply is
first shown to be the one to the outstanding command, and only then taken apart
by command.

**Calling again** (`QslReconnectProofs`), with `CallArgsAssumption` (the
application's argument lists are among those `dn_qsl_connect` can be given):

* `ReconnectIsFsm`: the application that calls again is one of those `QslFsm`
  allows, so what is proved there holds.
* `RepeatedConnectKeepsConnection` is an action property; it needs to know at
  the call that nothing differs from what is saved. That is
  `SavedMatchesGranted`, the inductive `SavedIsGranted`: the saved configuration
  answers the arguments of the call under way, and of the last call that
  succeeded unless a connect is under way now. It rests on the fact that no
  other step than a connect writes the configuration, but for an ID heard in a
  promiscuous connect (`OthersKeepSaved`), and that one replaces only the
  promiscuous ID: therefore the theorem is on named networks, and the run
  `reconnect_promiscuous` shows that the restriction cannot go.

**Preemption** (`QslPreemptProofs`), with `PreemptAssumption`, for both values
of `CallbackLoadedOnce`. What the thread has not executed yet is part of the
state (`todo`), so the invariants speak of the order of the statements ahead:

* `PreTypeCorrect`, from `PreTyped`: the statements ahead have operands that
  suit them.
* `WatchedBetweenAlways`: the property is about the moments between two
  functions. Inductive is `WatchKept`: what each function still has to do is in
  a certain order (`Shape`: a command is issued before its timeout is
  scheduled, a disarmed event is looked at next); it takes nothing away from an
  outstanding command without dropping that first (`Careful`); and an
  outstanding command has what watches it or will have it before the function
  is over (`Watched`). A callback can schedule, cancel and arm anything in
  between; `InterruptDoes` lists what it can do to those variables.
* `NoStaleEventIsCalled`: `Unmixed` says that in the loop of a call the event
  found belongs there, or will be replaced by a store still ahead, or the call
  has nothing left to wait for; `Suits` is the same of the events still to be
  stored, and `TimeoutUnmixed` of the response timeout, which acts for the command
  whose reply function is installed. A callback installs none of the events that
  belong to one call (`OwnedEvents`). The property is about the function that is
  really called (`Called`), whether or not the pointer is loaded twice.

**The inbox** (`InboxProofs`), where the notification is an interrupt
(`~Threaded`), for every size and number of messages:

* `InboxTypeCorrect`: indices and count stay in range, with overflow too. The
  count of an inbox that is being read has to be positive for this, also after
  arrivals in between (`CountTold`).
* `InboxInOrder`, `InboxIsFifo`, both under the hypothesis that no message finds the
  inbox full (`~MayOverflow`): every step of `Inbox` is one of `InboxFifo`, or a read
  that misses no more messages than have lost their increment (`MissesMessage`).
  `RingOK` says that message n is in slot (n - 1) % Size from its
  arrival until it is read; that an arrival hits none of these slots rests on
  `SlotsDiffer`, that the head reaches them in order on `SlotsFrom`, both proved
  from division with remainder. `UnreadIs` then gives the refinement mapping a
  closed form.

The runs `inbox_overflow` and `inbox_race` show that neither condition can go. The
exception cannot go either: without it the run `main_loop` fails.

**The main loop** (`SimplePublishProofs`), from `ClockAssumption`,
`LoopAssumption`, `TimesFitClock` (every delay and limit fits in the clock) and
`FoodLasts` (the watchdog outlasts a data period and one sleep):

* `LoopTypeCorrect`, `PacketsFit`: `LimitIsSafe` is the case distinction on the
  two ports; the limit is compared before the default replaces the port 0, and
  is then never larger than the one that applies.
* `WatchdogIsFed` from `FoodByPlace`, how long ago the food was at each place.
* `ClockTellsTime`: the inductive invariant `TimeTold` relates the differences
  of clock values to the true ages, which the model counts without a clock.
  `OneSleep` is the wrap-around. `CallsEndInTime` and `EventsRunOnTime` follow, the latter
  with the one exception that `EventOnTime` states: an event may be early if an
  interrupt has scheduled it after the clock was read.
* `LoopReadsFifo`, `LoopInboxTypeCorrect`: the main loop is a behaviour of
  `Inbox` (`InboxInLoop`), so what is proved of the inbox holds in it, under the
  same hypotheses.

Every inductive invariant was model-checked on the instance of its run first.

Only model-checked: `CallReturns`, `PreemptedCallReturns`, `KeepsConnecting` and
`KeepsSending` (liveness, which needs ENABLED). With restarts of the mote, or with an
application that asks for the promiscuous ID, nothing of the connection is proved
beyond `SystemIsSafe`, and `KeepsConnecting` is what `sys_restart` checks. Its
CONNECTED is the library's own flag, which `sys_restart_in_send` shows to be stale
at times.

## Plan

1. `QslApi` with restarts of the mote, where the connection may be lost at any
   time, and which of its promises remain.
2. The state machine under the thread of the Raspberry Pi, which the application
   can interrupt in turn; which statements would need `dn_lock`.
3. Proofs: which of the theorems on the connection hold with one restart of the
   mote (the runs show that not all do), and for the promiscuous ID as long as
   some network is heard.

## Not modelled

* The ports' UART, pin and clock set-up, endianness helpers and logging hold no
  state of the protocol.
* CMSIS, the STM32 HAL and the Atmel Software Framework are vendor code. They
  are nearly all of the repository's 250 000 lines; the library, its ports and
  its examples are about 5 000, so the share of all lines that the models cover
  stays small whatever is added.
* The C library `dn_ipmt` is a submodule; only its use by `dn_fsm.c` is here.
* The state machine under the reader thread of the Raspberry Pi. `QslPreempt`
  has interrupts, which the application cannot interrupt in turn; a thread is
  modelled for the inbox alone.
* Within a statement: a store of several bytes is one step, and a pointer tested
  and then called is read twice, as written.
* Calls before `dn_qsl_init`. The static `lastTransition` of
  `dn_fsm_enterState`, which only feeds a log message.
