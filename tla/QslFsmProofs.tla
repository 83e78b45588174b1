---------------------------- MODULE QslFsmProofs ----------------------------
(***************************************************************************)
(* Proofs about the state machine of QslFsm, for every value of its        *)
(* constants: the data, the timing and the two ways to reset the mote.     *)
(***************************************************************************)
EXTENDS QslFsm, TLAPS

-----------------------------------------------------------------------------
(* The scheduled event.                                                     *)

\* An event is callable if it has a function to call once it is armed.
Callable(t) == t \in TimerType /\ (t.armed => t.cb # None)

\* dn_fsm_scheduleEvent with an event function leaves a callable event armed.
LEMMA ScheduleCallable ==
  ASSUME NEW delay \in Nat, NEW cb \in Events
  PROVE  Callable(ScheduleEvent(delay, cb)) /\ ScheduleEvent(delay, cb).armed
BY DEF Callable, ScheduleEvent, TimerType, Events, Commands, None

\* dn_fsm_cancelEvent leaves nothing armed.
LEMMA CancelCallable == Callable(CancelEvent) /\ ~CancelEvent.armed
BY DEF Callable, CancelEvent, TimerType

\* Entering a state replaces the scheduled event or leaves it alone.
LEMMA EntryCallable ==
  ASSUME NEW s, NEW t, Callable(t)
  PROVE  /\ Callable(EntryTimer(s, t))
         /\ t.armed => EntryTimer(s, t).armed
<1>1. CmdPeriod \in Nat BY TimingAssumption
<1> DEFINE c == IF DisconnectBeforeReset THEN "disconnect" ELSE "reset"
<1>2. c \in Events BY DEF Events, Commands
<1> QED
  BY <1>1, <1>2, ScheduleCallable DEF EntryTimer, Events, Commands

\* The type invariant is preserved by what the timer does.
LEMMA OlderCallable ==
  ASSUME NEW t, Callable(t)
  PROVE  Callable(Older(t)) /\ Older(t).armed = t.armed /\ Older(t).cb = t.cb
BY DEF Callable, Older, TimerType, AtMost

-----------------------------------------------------------------------------
(* Type correctness.                                                        *)

\* What the variables hold before dn_qsl_init is in their types.
LEMMA TypeInit == Init => TypeOK
<1> SUFFICES ASSUME Init PROVE TypeOK
  OBVIOUS
<1>1. timer \in TimerType /\ (timer.armed => timer.cb # None)
  BY CancelCallable DEF Init, Callable
<1>2. state \in States /\ replyCb = None /\ pending = None /\ configured = {}
  BY DEF Init, States
<1>3. /\ networkId = Unset /\ joinKey = Unset /\ srcPort = Unset
      /\ service_ms \in Services /\ socketId \in SocketIds
  BY DataAssumption DEF Init
<1>4. /\ timeValid \in BOOLEAN /\ txPowerValid \in BOOLEAN
      /\ pc = "idle" /\ api = None /\ cmdAge \in Nat /\ ret \in BOOLEAN
  BY DEF Init
<1> QED
  BY <1>1, <1>2, <1>3, <1>4 DEF TypeOK

\* Entering a state keeps the types of the state and of the timer.
LEMMA TypeEnter ==
  ASSUME NEW s \in States, NEW t, Callable(t), EnterState(s, t)
  PROVE  state' \in States /\ Callable(timer')
BY EntryCallable DEF EnterState

\* Issuing a command keeps the types.
LEMMA TypeIssue ==
  ASSUME TypeOK, NEW c \in Commands, IssueCommand(c)
  PROVE  /\ state' \in States /\ Callable(timer')
         /\ replyCb' \in Commands \cup {None}
         /\ pending' \in Commands \cup {None}
         /\ UNCHANGED <<confVars, dataVars, configured>>
<1>1. Callable(ScheduleEvent(ResponseTimeout, "responseTimeout"))
  BY TimingAssumption, ScheduleCallable DEF Events
<1> QED
  BY <1>1 DEF IssueCommand, Stay, Accept, Refuse, TypeOK

\* So does each event dn_fsm_run can call.
LEMMA TypeRunEvent ==
  ASSUME TypeOK, RunEvent
  PROVE  /\ state' \in States /\ Callable(timer')
         /\ replyCb' \in Commands \cup {None}
         /\ pending' \in Commands \cup {None}
         /\ UNCHANGED <<confVars, dataVars, configured>>
<1>1. CASE \E c \in Commands : IssueCommand(c)
  BY <1>1, TypeIssue
<1>2. CASE EventSendTo
  <2>1. Callable(ScheduleEvent(ResponseTimeout, "responseTimeout"))
    BY TimingAssumption, ScheduleCallable DEF Events
  <2> QED
    BY <1>2, <2>1
    DEF EventSendTo, Accept, Refuse, TypeOK, Commands, States
<1>3. CASE EventResponseTimeout
  <2>1. Callable(Disarmed)
    BY DEF Disarmed, TypeOK, Callable, TimerType
  <2>2. CASE state \in ConnectingStates /\ EnterState("PRE_JOIN", Disarmed)
    BY <1>3, <2>1, <2>2, TypeEnter
    DEF EventResponseTimeout, CancelTx, States, ConnectingStates
  <2>3. CASE state = "SENDING" /\ EnterState("SEND_FAILED", Disarmed)
    BY <1>3, <2>1, <2>3, TypeEnter
    DEF EventResponseTimeout, CancelTx, States
  <2>4. CASE Stay(Disarmed)
    BY <1>3, <2>1, <2>4 DEF EventResponseTimeout, CancelTx, Stay, TypeOK
  <2> QED
    BY <1>3, <2>2, <2>3, <2>4 DEF EventResponseTimeout
<1> QED
  BY <1>1, <1>2, <1>3
  DEF RunEvent, Commands, EventReset, EventDisconnect, EventGetMoteStatus,
      EventOpenSocket, EventBindSocket, EventSetJoinKey, EventSetNetworkId,
      EventSearch, EventJoin, EventRequestService, EventGetServiceInfo,
      EventGetTime, EventSetTxPower

\* A reply function waits, goes on to the next event or enters a state.
ReplyOutcome ==
  \/ Wait
  \/ \E event \in {"reset", "openSocket", "bindSocket", "setJoinKey",
                   "setNetworkId", "getServiceInfo"} : Proceed(event)
  \/ \E s \in {"DISCONNECTED", "RESETTING", "PROMISCUOUS", "JOINING",
               "CONNECTED", "SEND_FAILED"} : Enter(s)

\* Every reply function has one of those outcomes and sets its own data only.
LEMMA ReplyCases ==
  ASSUME NEW rc, NEW moteState, NEW id, NEW completed, NEW granted,
         Reply(rc, moteState, id, completed, granted)
  PROVE  /\ ReplyOutcome
         /\ socketId' \in {id, socketId}
         /\ timeValid' \in BOOLEAN \/ timeValid' = timeValid
         /\ txPowerValid' \in BOOLEAN \/ txPowerValid' = txPowerValid
<1> USE DEF dataVars, ReplyOutcome
<1>1. CASE ReplyReset(rc) BY <1>1 DEF ReplyReset
<1>2. CASE ReplyDisconnect(rc) BY <1>2 DEF ReplyDisconnect
<1>3. CASE ReplyGetMoteStatus(moteState) BY <1>3 DEF ReplyGetMoteStatus
<1>4. CASE ReplyOpenSocket(rc, id) BY <1>4 DEF ReplyOpenSocket
<1>5. CASE ReplyBindSocket(rc) BY <1>5 DEF ReplyBindSocket
<1>6. CASE ReplySetJoinKey(rc) BY <1>6 DEF ReplySetJoinKey
<1>7. CASE ReplySetNetworkId(rc) BY <1>7 DEF ReplySetNetworkId
<1>8. CASE ReplySearch(rc) BY <1>8 DEF ReplySearch
<1>9. CASE ReplyJoin(rc) BY <1>9 DEF ReplyJoin
<1>10. CASE ReplyRequestService(rc) BY <1>10 DEF ReplyRequestService
<1>11. CASE ReplyGetServiceInfo(rc, completed, granted)
  BY <1>11 DEF ReplyGetServiceInfo
<1>12. CASE ReplySendTo(rc) BY <1>12 DEF ReplySendTo
<1>13. CASE ReplyGetTime(rc) BY <1>13 DEF ReplyGetTime
<1>14. CASE ReplySetTxPower(rc) BY <1>14 DEF ReplySetTxPower
<1> QED
  BY <1>1, <1>2, <1>3, <1>4, <1>5, <1>6, <1>7, <1>8, <1>9, <1>10, <1>11,
     <1>12, <1>13, <1>14 DEF Reply

\* The outcomes of the reply functions keep the types.
LEMMA TypeOutcome ==
  ASSUME TypeOK, ReplyOutcome
  PROVE  state' \in States /\ Callable(timer')
<1>1. CASE Wait
  BY <1>1, CancelCallable DEF Wait, Stay, TypeOK
<1>2. CASE \E event \in {"reset", "openSocket", "bindSocket", "setJoinKey",
                        "setNetworkId", "getServiceInfo"} : Proceed(event)
  <2>1. PICK event \in Events : Proceed(event)
    BY <1>2 DEF Events, Commands
  <2> QED
    BY <2>1, TimingAssumption, ScheduleCallable DEF Proceed, Stay, TypeOK
<1>3. CASE \E s \in {"DISCONNECTED", "RESETTING", "PROMISCUOUS", "JOINING",
                    "CONNECTED", "SEND_FAILED"} : Enter(s)
  <2>1. PICK s \in States : Enter(s)
    BY <1>3 DEF States, ConnectingStates
  <2> QED
    BY <2>1, CancelCallable, TypeEnter DEF Enter
<1> QED
  BY <1>1, <1>2, <1>3 DEF ReplyOutcome

\* What varies in a reply comes from the sets the variables are typed with.
LEMMA ReplyTyped ==
  ASSUME MoteReplies
  PROVE  \E rc \in ResponseCodes, moteState \in MoteStates, id \in SocketIds,
            completed \in BOOLEAN, granted \in Services :
              ReplyCb(rc, moteState, id, completed, granted)
<1>1. PICK rc \in ResponseCodes,
           moteState \in IF replyCb = "getMoteStatus" THEN MoteStates ELSE {"IDLE"},
           id \in IF replyCb = "openSocket" THEN SocketIds ELSE {0},
           completed \in IF replyCb = "getServiceInfo" THEN BOOLEAN ELSE {TRUE},
           granted \in IF replyCb = "getServiceInfo" THEN Services ELSE {0} :
             ReplyCb(rc, moteState, id, completed, granted)
  BY DEF MoteReplies
<1>2. moteState \in MoteStates
  BY DEF MoteStates
<1>3. id \in SocketIds /\ granted \in Services
  BY DataAssumption
<1>4. completed \in BOOLEAN
  OBVIOUS
<1> QED
  BY <1>1, <1>2, <1>3, <1>4

\* The type invariant is inductive: one step per action.
LEMMA TypeStep == TypeOK /\ [Next]_vars => TypeOK'
<1> SUFFICES ASSUME TypeOK, [Next]_vars PROVE TypeOK'
  OBVIOUS
<1> USE DEF vars, fsmVars, confVars, dataVars, libVars, callVars
<1>0. Callable(timer)
  BY DEF TypeOK, Callable
<1>1. CASE QslInit
  BY <1>0, <1>1, TypeEnter DEF QslInit, TypeOK, States, Callable
<1>2. CASE CallConnect
  <2>1. PICK netID \in NetIds \cup {Unset}, key \in JoinKeys \cup {Unset},
             port \in SrcPorts \cup {Unset}, service \in Services :
               Connect(netID, key, port, service)
    BY <1>2 DEF CallConnect
  <2>2. CheckAndSaveNetConfig(netID, key, port, service) =>
          /\ networkId' \in NetIds \cup {Unset} /\ joinKey' \in JoinKeys \cup {Unset}
          /\ srcPort' \in SrcPorts \cup {Unset} /\ service_ms' \in Services
    BY DataAssumption DEF CheckAndSaveNetConfig, OrDefault
  <2>3. CASE ConnectFromDisconnected(netID, key, port, service)
    BY <1>0, <2>1, <2>2, <2>3, TypeEnter
    DEF ConnectFromDisconnected, StartLoop, Connect, TypeOK, Callable, States,
        ConnectingStates, Apis, None
  <2>4. CASE Reconnect(netID, key, port, service)
    BY <1>0, <2>1, <2>2, <2>4, TypeEnter
    DEF Reconnect, StartLoop, Connect, TypeOK, Callable, States,
        ConnectingStates, Apis, None
  <2>5. CASE ConnectForService(netID, key, port, service)
    BY <1>0, <2>1, <2>5, TypeEnter
    DEF ConnectForService, StartLoop, Connect, TypeOK, Callable, States,
        ConnectingStates, Apis, None
  <2>6. CASE AlreadyConnected(netID, key, port, service)
    BY <1>0, <2>1, <2>6
    DEF AlreadyConnected, StartLoop, Connect, TypeOK, Apis, None
  <2>7. CASE ConnectRefused
    BY <1>0, <2>1, <2>7, TypeEnter
    DEF ConnectRefused, Refused, Connect, TypeOK, Callable, States
  <2> QED
    BY <2>1, <2>3, <2>4, <2>5, <2>6, <2>7 DEF Connect
<1>3. CASE CallSend
  <2>1. PICK fits \in BOOLEAN : Send(fits)
    BY <1>3 DEF CallSend
  <2>2. CASE EnterState("SENDING", timer) /\ StartLoop("send")
    BY <1>0, <2>1, <2>2, TypeEnter
    DEF Send, StartLoop, TypeOK, Callable, States, Apis, None
  <2>3. CASE Refused /\ UNCHANGED fsmVars
    BY <2>1, <2>3 DEF Send, Refused, TypeOK
  <2> QED
    BY <2>1, <2>2, <2>3 DEF Send
<1>4. CASE GetTime
  <2>1. Callable(ScheduleEvent(CmdPeriod, "getTime"))
    BY TimingAssumption, ScheduleCallable DEF Events, Commands
  <2> QED
    BY <1>4, <2>1 DEF GetTime, StartLoop, Stay, TypeOK, Callable, Apis, None
<1>5. CASE SetTxPower
  <2>1. Callable(ScheduleEvent(CmdPeriod, "setTxPower"))
    BY TimingAssumption, ScheduleCallable DEF Events, Commands
  <2> QED
    BY <1>5, <2>1 DEF SetTxPower, StartLoop, Stay, TypeOK, Callable, Apis, None
<1>6. CASE Idle
  BY <1>6 DEF Idle, TypeOK, TimerType
<1>7. CASE LoopTest
  <2>1. CASE CmdTimeout
    <3>1. state' \in States /\ Callable(timer')
      BY <2>1, CancelCallable, TypeEnter
      DEF CmdTimeout, Stay, TypeOK, States, ConnectingStates
    <3> QED
      BY <1>7, <2>1, <3>1
      DEF LoopTest, CmdTimeout, CancelTx, TypeOK, Callable, None
  <2>2. CASE UNCHANGED <<fsmVars, libVars>>
    BY <1>7, <2>2 DEF LoopTest, TypeOK, None
  <2> QED
    BY <1>7, <2>1, <2>2 DEF LoopTest
<1>8. CASE Run
  <2>1. CASE RunEvent /\ UNCHANGED cmdAge
    BY <1>8, <2>1, TypeRunEvent DEF Run, TypeOK, Callable, None
  <2>2. CASE Sleep
    <3>1. cmdAge' \in Nat
      BY <2>2, TimingAssumption DEF Sleep, AtMost, CmdLimit, TypeOK
    <3> QED
      BY <1>0, <1>8, <2>2, <3>1, OlderCallable
      DEF Run, Sleep, TypeOK, Callable, None
  <2> QED
    BY <1>8, <2>1, <2>2 DEF Run
<1>9. CASE Return
  <2>1. state' \in States /\ Callable(timer') /\ ret' \in BOOLEAN
    BY <1>0, <1>9, TypeEnter
    DEF Return, ReturnConnect, ReturnSend, ReturnGetTime, ReturnSetTxPower,
        TypeOK, States
  <2> QED
    BY <1>9, <2>1 DEF Return, TypeOK, Callable
<1>10. CASE MoteReplies
  <2>1. PICK rc \in ResponseCodes, moteState \in MoteStates, id \in SocketIds,
             completed \in BOOLEAN, granted \in Services :
               ReplyCb(rc, moteState, id, completed, granted)
    BY <1>10, ReplyTyped
  <2>2. Reply(rc, moteState, id, completed, granted)
    BY <2>1 DEF ReplyCb
  <2>3. configured' \subseteq PreJoinSteps
    BY <2>1 DEF ReplyCb, TypeOK
  <2> QED
    BY <2>1, <2>2, <2>3, ReplyCases, TypeOutcome
    DEF ReplyCb, TypeOK, Callable, None
<1>11. CASE MoteReports
  <2>1. PICK moteState \in MoteStates, events \in SUBSET MoteEvents :
               NotifEvents(moteState, events)
    BY <1>11 DEF MoteReports
  <2>2. state' \in States /\ Callable(timer')
    <3>1. CASE ExpectedEvent(events) /\ OnExpectedEvent
      <4>1. Callable(ScheduleEvent(CmdPeriod, "getServiceInfo"))
        BY TimingAssumption, ScheduleCallable DEF Events, Commands
      <4> QED
        BY <1>0, <3>1, <4>1, TypeEnter
        DEF OnExpectedEvent, Stay, TypeOK, States, ConnectingStates
    <3>2. CASE EnterState(StateOn(moteState), timer) /\ StateOn(moteState) # None
      BY <1>0, <3>2, TypeEnter DEF StateOn, None, States, ConnectingStates
    <3>3. CASE Stay(timer)
      BY <1>0, <3>3 DEF Stay, TypeOK
    <3> QED
      BY <2>1, <3>1, <3>2, <3>3 DEF NotifEvents
  <2> QED
    BY <2>1, <2>2 DEF NotifEvents, TypeOK, Callable
<1>12. CASE MoteHearsNetwork
  <2>1. PICK netId \in NetIds \ {PromiscuousId} : NotifAdvReceived(netId)
    BY <1>12 DEF MoteHearsNetwork
  <2>2. state' \in States /\ Callable(timer') /\ networkId' \in NetIds \cup {Unset}
    BY <1>0, <2>1, TimingAssumption, ScheduleCallable
    DEF NotifAdvReceived, Stay, TypeOK, Events, Commands
  <2> QED
    BY <2>1, <2>2 DEF NotifAdvReceived, TypeOK, Callable
<1>13. CASE UNCHANGED vars
  BY <1>13 DEF TypeOK
<1> QED
  BY <1>1, <1>2, <1>3, <1>4, <1>5, <1>6, <1>7, <1>8, <1>9, <1>10, <1>11,
     <1>12, <1>13 DEF Next, Loop

\* The variables have their types in every reachable state, and an armed event
\* always has a function to call, for whatever the mote says.
THEOREM TypeCorrect == Spec => []TypeOK
BY TypeInit, TypeStep, PTL DEF Spec

-----------------------------------------------------------------------------
(* The watchdog of the outstanding command.                                 *)

\* OutstandingIsWatched is inductive by itself: whatever takes the watchdog
\* away (a reply, the two timeouts) frees the library, and whatever schedules
\* another event leaves one armed.
LEMMA WatchedStep ==
  TypeOK /\ OutstandingIsWatched /\ [Next]_vars => OutstandingIsWatched'
<1> SUFFICES ASSUME TypeOK, OutstandingIsWatched, [Next]_vars
             PROVE  OutstandingIsWatched'
  OBVIOUS
<1> USE DEF vars, fsmVars, confVars, dataVars, libVars, callVars
<1>0. Callable(timer)
  BY DEF TypeOK, Callable
\* Steps that leave the library alone and an armed timer armed.
<1> DEFINE Keeps == /\ replyCb' = replyCb /\ pending' = pending
                    /\ timer.armed => timer'.armed
<1>a. Keeps => OutstandingIsWatched'
  BY DEF OutstandingIsWatched
<1>b. \A s : EnterState(s, timer) => (timer.armed => timer'.armed)
  BY <1>0, EntryCallable DEF EnterState
<1>c. \A d, cb : ScheduleEvent(d, cb).armed
  BY DEF ScheduleEvent
<1>1. CASE QslInit
  BY <1>1, <1>a, <1>b DEF QslInit
<1>2. CASE CallConnect
  BY <1>2, <1>a, <1>b
  DEF CallConnect, Connect, ConnectFromDisconnected, Reconnect,
      ConnectForService, AlreadyConnected, ConnectRefused
<1>3. CASE CallSend
  BY <1>3, <1>a, <1>b DEF CallSend, Send
<1>4. CASE GetTime \/ SetTxPower
  BY <1>4, <1>a, <1>c DEF GetTime, SetTxPower, Stay
<1>5. CASE Idle
  BY <1>5, <1>a DEF Idle, TypeOK, TimerType
<1>6. CASE LoopTest
  BY <1>6, <1>a DEF LoopTest, CmdTimeout, CancelTx, OutstandingIsWatched
<1>7. CASE Run
  <2>1. CASE \E c \in Commands : IssueCommand(c)
    BY <1>c, <2>1 DEF IssueCommand, Stay, OutstandingIsWatched, Commands, None
  <2>2. CASE EventSendTo
    BY <1>c, <2>2 DEF EventSendTo, OutstandingIsWatched, None
  <2>3. CASE EventResponseTimeout
    BY <2>3 DEF EventResponseTimeout, CancelTx, OutstandingIsWatched
  <2>4. CASE Sleep
    BY <1>0, <1>a, <2>4, OlderCallable DEF Sleep
  <2> QED
    BY <1>7, <2>1, <2>2, <2>3, <2>4
    DEF Run, RunEvent, Commands, EventReset, EventDisconnect,
        EventGetMoteStatus, EventOpenSocket, EventBindSocket, EventSetJoinKey,
        EventSetNetworkId, EventSearch, EventJoin, EventRequestService,
        EventGetServiceInfo, EventGetTime, EventSetTxPower
<1>8. CASE Return
  BY <1>8, <1>a, <1>b
  DEF Return, ReturnConnect, ReturnSend, ReturnGetTime, ReturnSetTxPower
<1>9. CASE MoteReplies
  BY <1>9 DEF MoteReplies, ReplyCb, OutstandingIsWatched
<1>10. CASE MoteReports
  BY <1>10, <1>a, <1>b, <1>c
  DEF MoteReports, NotifEvents, OnExpectedEvent, Stay
<1>11. CASE MoteHearsNetwork
  BY <1>11, <1>a, <1>c DEF MoteHearsNetwork, NotifAdvReceived, Stay
<1>12. CASE UNCHANGED vars
  BY <1>12, <1>a
<1> QED
  BY <1>1, <1>2, <1>3, <1>4, <1>5, <1>6, <1>7, <1>8, <1>9, <1>10, <1>11,
     <1>12 DEF Next, Loop

\* A command the library waits to see answered always has its watchdog armed
\* and its reply function installed, so a lost reply never blocks the library.
THEOREM OutstandingCommandIsWatched == Spec => []OutstandingIsWatched
<1>1. Init => OutstandingIsWatched
  BY DEF Init, OutstandingIsWatched
<1> QED
  BY <1>1, TypeCorrect, WatchedStep, PTL DEF Spec

-----------------------------------------------------------------------------
(* The order of the events.                                                 *)

\* The commands from PRE_JOIN to JOINING, and the states they are issued in.
Chain == {"getMoteStatus", "openSocket", "bindSocket", "setJoinKey",
          "setNetworkId"}
ChainStates == {"PRE_JOIN", "PROMISCUOUS", "RESETTING"}

Scheduled(c) == timer.armed /\ timer.cb = c

Outstanding(c) == pending # None /\ replyCb = c

\* A query that has its answer leaves nothing behind.
QueryAnswered ==
  \/ api = "getTime" /\ timeValid
  \/ api = "setTxPower" /\ txPowerValid

AnsweredIsOver ==
  QueryAnswered =>
    state \in {"CONNECTED", "DISCONNECTED"} /\ pending = None /\ ~timer.armed

\* The events a call schedules for itself stay in that call; sendTo may be left
\* over when the mote restarts, but only in DISCONNECTED.
OwnEvents ==
  /\ Scheduled("sendTo") =>
       state \in {"SENDING", "DISCONNECTED"} /\ api \in {"send", None}
  /\ Scheduled("getTime") => api = "getTime" /\ pc # "return"
  /\ Scheduled("setTxPower") => api = "setTxPower" /\ pc # "return"

\* The chain waits for an answer only inside a call, and not inside a send.
ChainOutstanding ==
  \A c \in Chain : Outstanding(c) =>
    state \in ChainStates /\ pc \in {"test", "run"} /\ api # "send"

\* An event of the chain that is scheduled between two calls survives in
\* DISCONNECTED until the next call; a send ends before it would run one.
ChainScheduled ==
  \A c \in Chain : Scheduled(c) =>
    /\ state \in ChainStates \/ (state = "DISCONNECTED" /\ pc = "idle")
    /\ api = "send" /\ pc = "run" => timer.age <= timer.delay

\* Once the ID is about to be given to the mote it is a concrete one.
ConcreteOnTheWay ==
  Scheduled("setNetworkId") \/ Outstanding("setNetworkId")
    => networkId # PromiscuousId

\* The answer to a pre-join step is the answer to that step, not a late one.
InStep ==
  \A c \in PreJoinSteps :
    /\ Scheduled(c) => pending = None
    /\ Outstanding(c) => pending = c

\* Each step of the chain finds the steps before it done.
StepsDone ==
  api = "connect" =>
    /\ Scheduled("bindSocket") \/ Outstanding("bindSocket")
         => {"openSocket"} \subseteq configured
    /\ Scheduled("setJoinKey") \/ Outstanding("setJoinKey")
         => {"openSocket", "bindSocket"} \subseteq configured
    /\ Scheduled("setNetworkId") \/ Outstanding("setNetworkId")
          \/ state \in {"PROMISCUOUS", "JOINING"}
         => PreJoinSteps \subseteq configured

\* The inductive invariant behind the next theorems.
EventOrder ==
  /\ AnsweredIsOver
  /\ OwnEvents
  /\ ChainOutstanding
  /\ ChainScheduled
  /\ ConcreteOnTheWay /\ JoinsConcreteNetwork
  /\ InStep
  /\ StepsDone

\* Nothing is scheduled or outstanding before the first call.
LEMMA OrderInit == Init => EventOrder
BY DEF Init, EventOrder, AnsweredIsOver, QueryAnswered, OwnEvents,
       ChainOutstanding, ChainScheduled, ConcreteOnTheWay, InStep, StepsDone,
       JoinsConcreteNetwork, Scheduled, Outstanding, CancelEvent, None, Chain,
       PreJoinSteps

\* Every event, answer, notification and call keeps the events in order.
LEMMA OrderStep == TypeOK /\ EventOrder /\ [Next]_vars => EventOrder'
<1> SUFFICES ASSUME TypeOK, EventOrder, [Next]_vars PROVE EventOrder'
  OBVIOUS
<1> USE DEF vars, fsmVars, confVars, dataVars, libVars, callVars
<1> USE DEF EventOrder, AnsweredIsOver, QueryAnswered, OwnEvents,
       ChainOutstanding, ChainScheduled, ConcreteOnTheWay, InStep, StepsDone,
       JoinsConcreteNetwork, Scheduled, Outstanding, None, Chain, ChainStates,
       PreJoinSteps
<1>1. CASE QslInit
  BY <1>1 DEF QslInit, EnterState, EntryTimer
<1>2. CASE CallConnect
  <2>1. PICK netID, key, port, service : Connect(netID, key, port, service)
    BY <1>2 DEF CallConnect
  <2>2. CASE ConnectFromDisconnected(netID, key, port, service)
    BY <2>1, <2>2
    DEF Connect, ConnectFromDisconnected, EnterState, EntryTimer,
        ScheduleEvent, StartLoop
  <2>3. CASE Reconnect(netID, key, port, service)
    BY <2>1, <2>3
    DEF Connect, Reconnect, EnterState, EntryTimer, ScheduleEvent,
        StartLoop
  <2>4. CASE ConnectForService(netID, key, port, service)
    BY <2>1, <2>4
    DEF Connect, ConnectForService, EnterState, EntryTimer, ScheduleEvent,
        StartLoop
  <2>5. CASE AlreadyConnected(netID, key, port, service)
    BY <2>1, <2>5 DEF Connect, AlreadyConnected, StartLoop, TypeOK
  <2>6. CASE ConnectRefused
    BY <2>1, <2>6 DEF Connect, ConnectRefused, Refused, EnterState, EntryTimer
  <2> QED
    BY <2>1, <2>2, <2>3, <2>4, <2>5, <2>6 DEF Connect
<1>3. CASE CallSend
  BY <1>3
  DEF CallSend, Send, StartLoop, Refused, EnterState, EntryTimer,
      ScheduleEvent
<1>4. CASE GetTime
  BY <1>4 DEF GetTime, StartLoop, Stay, ScheduleEvent
<1>5. CASE SetTxPower
  BY <1>5 DEF SetTxPower, StartLoop, Stay, ScheduleEvent
<1>6. CASE Idle
  BY <1>6 DEF Idle, TypeOK, TimerType
<1>7. CASE LoopTest
  <2>1. CASE Waiting /\ pc' = "return" /\ CmdTimeout
    <3>1. pending' = None /\ ~timer'.armed
      BY <2>1
      DEF CmdTimeout, CancelTx, EnterState, EntryTimer, CancelEvent, Stay
    <3>2. state' = state \/ state' \in {"DISCONNECTED", "SEND_FAILED"}
      BY <2>1 DEF CmdTimeout, EnterState, Stay
    <3> QED
      BY <1>7, <2>1, <3>1, <3>2 DEF LoopTest, CmdTimeout, Waiting, TypeOK, Apis
  <2>2. CASE ~Waiting /\ pc' = "return" /\ UNCHANGED <<fsmVars, libVars>>
    BY <1>7, <2>2 DEF LoopTest, Waiting, TypeOK, Apis
  <2>3. CASE Waiting /\ pc' = "run" /\ UNCHANGED <<fsmVars, libVars>>
    BY <1>7, <2>3 DEF LoopTest, Waiting
  <2> QED
    BY <1>7, <2>1, <2>2, <2>3 DEF LoopTest
<1>8. CASE Run
  <2>1. CASE Due /\ RunEvent /\ UNCHANGED cmdAge
    <3>1. CASE \E c \in Commands : timer.cb = c /\ IssueCommand(c)
      <4>1. PICK c \in Commands : timer.cb = c /\ IssueCommand(c)
        BY <3>1
      <4>2. /\ Scheduled(c) /\ pc = "run" /\ pc' = "test"
            /\ replyCb' = c /\ timer'.armed /\ timer'.cb = "responseTimeout"
            /\ pending' \in {c, pending} /\ (pending # None => pending' = pending)
            /\ UNCHANGED <<state, api, confVars, dataVars, configured>>
        BY <1>8, <2>1, <4>1
        DEF Run, Due, IssueCommand, Accept, Refuse, Stay, ScheduleEvent
      <4>3. ~QueryAnswered
        BY <2>1 DEF Due
      <4>4. c \in Chain => state \in ChainStates /\ api # "send"
        BY <2>1, <4>2, TypeOK DEF Due, TypeOK, TimerType
      <4> QED
        BY <4>2, <4>3, <4>4
    <3>2. CASE timer.cb = "sendTo" /\ EventSendTo
      BY <1>8, <2>1, <3>2
      DEF Run, Due, EventSendTo, Accept, Refuse, ScheduleEvent
    <3>3. CASE timer.cb = "responseTimeout" /\ EventResponseTimeout
      <4>1. ~Disarmed.armed
        BY DEF Disarmed, TypeOK, TimerType
      <4>2. pending' = None /\ pc' = "test"
            /\ UNCHANGED <<api, confVars, dataVars, configured>>
        BY <1>8, <2>1, <3>3 DEF Run, EventResponseTimeout, CancelTx
      <4>3. \/ state' = "PRE_JOIN" /\ timer'.cb = "getMoteStatus"
            \/ state' = "SEND_FAILED" /\ ~timer'.armed
            \/ state' = state /\ ~timer'.armed
        BY <3>3, <4>1
        DEF EventResponseTimeout, EnterState, EntryTimer, ScheduleEvent, Stay
      <4>4. ~QueryAnswered
        BY <2>1 DEF Due
      <4> QED
        BY <4>2, <4>3, <4>4
    <3> QED
      BY <2>1, <3>1, <3>2, <3>3
      DEF RunEvent, Commands, EventReset, EventDisconnect, EventGetMoteStatus,
          EventOpenSocket, EventBindSocket, EventSetJoinKey, EventSetNetworkId,
          EventSearch, EventJoin, EventRequestService, EventGetServiceInfo,
          EventGetTime, EventSetTxPower
  <2>2. CASE Sleep
    <3>1. timer'.armed = timer.armed /\ timer'.cb = timer.cb
      BY <2>2, OlderCallable DEF Sleep, TypeOK, Callable
    <3> QED
      BY <1>8, <2>2, <3>1 DEF Run, Sleep
  <2> QED
    BY <1>8, <2>1, <2>2 DEF Run
<1>9. CASE Return
  BY <1>9
  DEF Return, ReturnConnect, ReturnSend, ReturnGetTime, ReturnSetTxPower,
      EnterState, EntryTimer, TypeOK
<1>10. CASE MoteReplies
  <2>1. PICK rc, moteState, id, completed, granted :
               ReplyCb(rc, moteState, id, completed, granted)
    BY <1>10 DEF MoteReplies
  <2>2. /\ pending # None /\ pending' = None
        /\ UNCHANGED <<replyCb, confVars, callVars>>
        /\ configured \subseteq configured'
        /\ rc = "OK" /\ pending \in PreJoinSteps => pending \in configured'
    BY <2>1 DEF ReplyCb
  <2>3. ~QueryAnswered
    BY <2>2
  <2> USE DEF Wait, Proceed, Enter, Stay, EnterState, EntryTimer, CancelEvent,
              ScheduleEvent
  <2>4. CASE replyCb = "getMoteStatus" /\ ReplyGetMoteStatus(moteState)
    BY <2>2, <2>3, <2>4, TimingAssumption DEF ReplyGetMoteStatus
  <2>5. CASE replyCb = "openSocket" /\ ReplyOpenSocket(rc, id)
    BY <2>2, <2>3, <2>5, TimingAssumption DEF ReplyOpenSocket
  <2>6. CASE replyCb = "bindSocket" /\ ReplyBindSocket(rc)
    BY <2>2, <2>3, <2>6, TimingAssumption DEF ReplyBindSocket
  <2>7. CASE replyCb = "setJoinKey" /\ ReplySetJoinKey(rc)
    BY <2>2, <2>3, <2>7, TimingAssumption DEF ReplySetJoinKey
  <2>8. CASE replyCb = "setNetworkId" /\ ReplySetNetworkId(rc)
    BY <2>2, <2>3, <2>8 DEF ReplySetNetworkId
  <2>9. CASE replyCb = "getTime" /\ ReplyGetTime(rc)
    BY <2>2, <2>3, <2>9 DEF ReplyGetTime
  <2>10. CASE replyCb = "setTxPower" /\ ReplySetTxPower(rc)
    BY <2>2, <2>3, <2>10 DEF ReplySetTxPower
  <2>11. CASE ReplyReset(rc)
    BY <2>2, <2>3, <2>11 DEF ReplyReset
  <2>12. CASE ReplyDisconnect(rc)
    BY <2>2, <2>3, <2>12 DEF ReplyDisconnect
  <2>13. CASE ReplySearch(rc)
    BY <2>2, <2>3, <2>13 DEF ReplySearch
  <2>14. CASE ReplyJoin(rc)
    BY <2>2, <2>3, <2>14 DEF ReplyJoin
  <2>15. CASE ReplyRequestService(rc)
    BY <2>2, <2>3, <2>15 DEF ReplyRequestService
  <2>16. CASE ReplyGetServiceInfo(rc, completed, granted)
    BY <2>2, <2>3, <2>16 DEF ReplyGetServiceInfo
  <2>17. CASE ReplySendTo(rc)
    BY <2>2, <2>3, <2>17 DEF ReplySendTo
  <2> QED
    BY <2>1, <2>4, <2>5, <2>6, <2>7, <2>8, <2>9, <2>10, <2>11, <2>12, <2>13,
       <2>14, <2>15, <2>16, <2>17 DEF ReplyCb, Reply
<1>11. CASE MoteReports
  <2>1. PICK moteState, events : NotifEvents(moteState, events)
    BY <1>11 DEF MoteReports
  <2>2. UNCHANGED <<confVars, dataVars, libVars, callVars>>
    BY <2>1 DEF NotifEvents
  <2>3. CASE ExpectedEvent(events) /\ OnExpectedEvent
    BY <2>2, <2>3
    DEF ExpectedEvent, OnExpectedEvent, EnterState, EntryTimer, ScheduleEvent,
        Stay
  <2>4. CASE EnterState(StateOn(moteState), timer) /\ StateOn(moteState) # None
    BY <2>2, <2>4, TimingAssumption
    DEF StateOn, EnterState, EntryTimer, ScheduleEvent, ConnectingStates
  <2>5. CASE Stay(timer)
    BY <2>2, <2>5 DEF Stay
  <2> QED
    BY <2>1, <2>3, <2>4, <2>5 DEF NotifEvents
<1>12. CASE MoteHearsNetwork
  BY <1>12, TimingAssumption
  DEF MoteHearsNetwork, NotifAdvReceived, Stay, ScheduleEvent
<1>13. CASE UNCHANGED vars
  BY <1>13
<1> QED
  BY <1>1, <1>2, <1>3, <1>4, <1>5, <1>6, <1>7, <1>8, <1>9, <1>10, <1>11,
     <1>12, <1>13 DEF Next, Loop

\* EventOrder holds in every reachable state.
THEOREM EventsInOrder == Spec => []EventOrder
BY OrderInit, TypeCorrect, OrderStep, PTL DEF Spec

\* The mote is never told to join the promiscuous ID, whatever networks it
\* hears and however late its answers are.
THEOREM JoinsOnlyConcreteNetworks == Spec => []JoinsConcreteNetwork
BY EventsInOrder, PTL DEF EventOrder

\* dn_qsl_connect reaches JOINING only after the mote has answered OK, in this
\* very call, to openSocket, bindSocket and setJoinKey, however often the chain
\* was started over and whatever commands were refused.
THEOREM JoinsOnlyConfigured == Spec => []JoinsConfigured
<1>1. TypeOK /\ EventOrder => JoinsConfigured
  BY DEF EventOrder, StepsDone, JoinsConfigured, TypeOK
<1> QED
  BY <1>1, TypeCorrect, EventsInOrder, PTL

-----------------------------------------------------------------------------
(* Whose the scheduled event is.                                            *)

\* The scheduled event issues or gives up the command c.
Owns(c) == timer.armed /\ DueCommand = c

\* A timeout that is scheduled has a command to give up.
TimeoutHasCommand == Scheduled("responseTimeout") => replyCb # None

\* sendTo and its timeout stay in their call, or are left over by it in a state
\* whose next call replaces them.
SendOwned ==
  Owns("sendTo") =>
    /\ state \in {"SENDING", "SEND_FAILED", "CONNECTED", "DISCONNECTED"}
    /\ \/ api \in {"send", None}
       \/ api = "connect" /\ pc # "run" /\ state \in {"CONNECTED", "DISCONNECTED"}

\* A query and its timeout end with their call.
QueryOwned ==
  \A c \in QueryCommands : Owns(c) => api = c /\ pc # "return"

\* A command of a connection, but for join, is scheduled in a connecting state,
\* or left over in DISCONNECTED until the next call replaces it.
ConnectScheduled ==
  \A c \in ConnectCommands \ {"join"} : Scheduled(c) =>
    state \in ConnectingStates \/ (state = "DISCONNECTED" /\ pc = "idle")

\* The answer to it is waited for in a connecting state and not inside a send.
ConnectOutstanding ==
  \A c \in ConnectCommands \ {"join"} : Outstanding(c) =>
    state \in ConnectingStates /\ pc \in {"test", "run"} /\ api # "send"

\* JOINING waits for join and for nothing else.
JoiningOwned ==
  state = "JOINING" =>
    /\ timer.armed => DueCommand = "join"
    /\ pending # None => replyCb = "join"
    /\ pc \in {"test", "run"} /\ api # "send"

\* While a packet is being sent only its own event is scheduled; what comes
\* after is not due before the call has ended.
SendingOwned ==
  /\ state = "SENDING" =>
       /\ api = "send" /\ pc \in {"test", "run"}
       /\ timer.armed => DueCommand = "sendTo"
  /\ api = "send" /\ pc = "run" /\ timer.armed /\ DueCommand # "sendTo" =>
       timer.age <= timer.delay

\* The inductive invariant behind NoStaleEvent.
EventOwner ==
  /\ TimeoutHasCommand
  /\ SendOwned
  /\ QueryOwned
  /\ ConnectScheduled
  /\ ConnectOutstanding
  /\ JoiningOwned
  /\ SendingOwned

\* Nothing is scheduled or outstanding before the first call.
LEMMA OwnerInit == Init => EventOwner
BY DEF Init, EventOwner, TimeoutHasCommand, SendOwned, QueryOwned,
       ConnectScheduled, ConnectOutstanding, JoiningOwned, SendingOwned, Owns, Scheduled, Outstanding,
       CancelEvent, None

\* Only the commands of a connection, but for join, go on to another command, and
\* only setNetworkId enters JOINING.
LEMMA ReplyGoesOn ==
  ASSUME NEW rc, NEW moteState, NEW id, NEW completed, NEW granted,
         Reply(rc, moteState, id, completed, granted)
  PROVE  \/ Wait
         \/ \E s \in {"DISCONNECTED", "RESETTING", "PROMISCUOUS", "CONNECTED",
                      "SEND_FAILED"} : Enter(s)
         \/ replyCb = "setNetworkId" /\ Enter("JOINING")
         \/ /\ replyCb \in ConnectCommands \ {"join"}
            /\ \E event \in {"reset", "openSocket", "bindSocket", "setJoinKey",
                             "setNetworkId", "getServiceInfo"} : Proceed(event)
<1> USE DEF ConnectCommands, QueryCommands, Commands
<1>1. CASE replyCb = "reset" /\ ReplyReset(rc) BY <1>1 DEF ReplyReset
<1>2. CASE replyCb = "disconnect" /\ ReplyDisconnect(rc)
  BY <1>2 DEF ReplyDisconnect
<1>3. CASE replyCb = "getMoteStatus" /\ ReplyGetMoteStatus(moteState)
  BY <1>3 DEF ReplyGetMoteStatus
<1>4. CASE replyCb = "openSocket" /\ ReplyOpenSocket(rc, id)
  BY <1>4 DEF ReplyOpenSocket
<1>5. CASE replyCb = "bindSocket" /\ ReplyBindSocket(rc)
  BY <1>5 DEF ReplyBindSocket
<1>6. CASE replyCb = "setJoinKey" /\ ReplySetJoinKey(rc)
  BY <1>6 DEF ReplySetJoinKey
<1>7. CASE replyCb = "setNetworkId" /\ ReplySetNetworkId(rc)
  BY <1>7 DEF ReplySetNetworkId
<1>8. CASE ReplySearch(rc) BY <1>8 DEF ReplySearch
<1>9. CASE ReplyJoin(rc) BY <1>9 DEF ReplyJoin
<1>10. CASE ReplyRequestService(rc) BY <1>10 DEF ReplyRequestService
<1>11. CASE replyCb = "getServiceInfo" /\ ReplyGetServiceInfo(rc, completed, granted)
  BY <1>11 DEF ReplyGetServiceInfo
<1>12. CASE ReplySendTo(rc) BY <1>12 DEF ReplySendTo
<1>13. CASE ReplyGetTime(rc) BY <1>13 DEF ReplyGetTime
<1>14. CASE ReplySetTxPower(rc) BY <1>14 DEF ReplySetTxPower
<1> QED
  BY <1>1, <1>2, <1>3, <1>4, <1>5, <1>6, <1>7, <1>8, <1>9, <1>10, <1>11,
     <1>12, <1>13, <1>14 DEF Reply

\* Every event, answer, notification and call keeps the owner of the event.
LEMMA OwnerStep ==
  TypeOK /\ EventOrder /\ EventOwner /\ [Next]_vars => EventOwner'
<1> SUFFICES ASSUME TypeOK, EventOrder, EventOwner, [Next]_vars
             PROVE  EventOwner'
  OBVIOUS
<1> USE DEF vars, fsmVars, confVars, dataVars, libVars, callVars
<1> USE DEF EventOwner, TimeoutHasCommand, SendOwned, QueryOwned,
       ConnectScheduled, ConnectOutstanding, JoiningOwned, SendingOwned, Owns, Scheduled, Outstanding, None,
       DueCommand, QueryCommands, ConnectCommands, Commands, ConnectingStates
<1>0. timer.age \in Nat /\ timer.delay \in Nat
  BY DEF TypeOK, TimerType
<1>1. CASE QslInit
  BY <1>1 DEF QslInit, EnterState, EntryTimer
<1>2. CASE CallConnect
  <2>1. PICK netID, key, port, service : Connect(netID, key, port, service)
    BY <1>2 DEF CallConnect
  <2>2. CASE ConnectFromDisconnected(netID, key, port, service)
    BY <2>1, <2>2
    DEF Connect, ConnectFromDisconnected, EnterState, EntryTimer,
        ScheduleEvent, StartLoop
  <2>3. CASE Reconnect(netID, key, port, service)
    BY <2>1, <2>3
    DEF Connect, Reconnect, EnterState, EntryTimer, ScheduleEvent,
        StartLoop
  <2>4. CASE ConnectForService(netID, key, port, service)
    BY <2>1, <2>4
    DEF Connect, ConnectForService, EnterState, EntryTimer, ScheduleEvent,
        StartLoop
  <2>5. CASE AlreadyConnected(netID, key, port, service)
    BY <2>1, <2>5 DEF Connect, AlreadyConnected, StartLoop, TypeOK
  <2>6. CASE ConnectRefused
    BY <2>1, <2>6
    DEF Connect, ConnectRefused, Refused, EnterState, EntryTimer, TypeOK
  <2> QED
    BY <2>1, <2>2, <2>3, <2>4, <2>5, <2>6 DEF Connect
<1>3. CASE CallSend
  BY <1>3
  DEF CallSend, Send, StartLoop, Refused, EnterState, EntryTimer,
      ScheduleEvent
<1>4. CASE GetTime
  BY <1>4 DEF GetTime, StartLoop, Stay, ScheduleEvent, TypeOK
<1>5. CASE SetTxPower
  BY <1>5 DEF SetTxPower, StartLoop, Stay, ScheduleEvent, TypeOK
<1>6. CASE Idle
  BY <1>6 DEF Idle, TypeOK, TimerType
<1>7. CASE LoopTest
  <2>1. CASE Waiting /\ pc' = "return" /\ CmdTimeout
    <3>1. pending' = None /\ ~timer'.armed
      BY <2>1
      DEF CmdTimeout, CancelTx, EnterState, EntryTimer, CancelEvent, Stay
    <3>2. state' \notin {"SENDING", "JOINING"}
      BY <2>1 DEF CmdTimeout, EnterState, Stay
    <3> QED
      BY <1>7, <2>1, <3>1, <3>2 DEF LoopTest
  <2>2. CASE ~Waiting /\ pc' = "return" /\ UNCHANGED <<fsmVars, libVars>>
    <3>1. CASE api = "connect"
      BY <1>7, <2>2, <3>1 DEF LoopTest, Waiting
    <3>2. CASE api = "send"
      BY <1>7, <2>2, <3>2 DEF LoopTest, Waiting
    <3>3. CASE api \in QueryCommands
      <4>1. /\ state \in {"CONNECTED", "DISCONNECTED"} /\ pending = None
            /\ ~timer.armed
        BY <2>2, <3>3
        DEF EventOrder, AnsweredIsOver, QueryAnswered, Waiting
      <4> QED
        BY <1>7, <2>2, <3>3, <4>1 DEF LoopTest
    <3> QED
      BY <1>7, <3>1, <3>2, <3>3 DEF LoopTest, TypeOK, Apis
  <2>3. CASE Waiting /\ pc' = "run" /\ UNCHANGED <<fsmVars, libVars>>
    BY <1>7, <2>3 DEF LoopTest, Waiting
  <2> QED
    BY <1>7, <2>1, <2>2, <2>3 DEF LoopTest
<1>8. CASE Run
  <2>1. CASE Due /\ RunEvent /\ UNCHANGED cmdAge
    <3>1. CASE \E c \in Commands \ {"sendTo"} : timer.cb = c /\ IssueCommand(c)
      <4>1. PICK c \in Commands \ {"sendTo"} : timer.cb = c /\ IssueCommand(c)
        BY <3>1
      <4>2. /\ pc' = "test" /\ replyCb' = c
            /\ timer'.armed /\ timer'.cb = "responseTimeout"
            /\ UNCHANGED <<state, api>>
        BY <1>8, <2>1, <4>1
        DEF Run, Due, IssueCommand, Stay, ScheduleEvent
      <4>3. Scheduled(c) /\ DueCommand = c /\ pc = "run"
        BY <1>8, <2>1, <4>1 DEF Run, Due
      <4>4. /\ c \in ConnectCommands \ {"join"} => state \in ConnectingStates
            /\ c \in QueryCommands => api = c
            /\ state = "JOINING" => c = "join"
            /\ state # "SENDING" /\ api # "send"
        BY <2>1, <4>1, <4>3, <1>0 DEF Due
      <4>5. DueCommand' = c /\ c # None /\ c # "sendTo"
        BY <4>1, <4>2
      <4> QED
        BY <4>2, <4>4, <4>5
    <3>2. CASE timer.cb = "sendTo" /\ EventSendTo
      BY <1>8, <2>1, <3>2
      DEF Run, Due, EventSendTo, Accept, Refuse, ScheduleEvent
    <3>3. CASE timer.cb = "responseTimeout" /\ EventResponseTimeout
      <4>1. ~Disarmed.armed
        BY DEF Disarmed, TypeOK, TimerType
      <4>2. pending' = None /\ pc' = "test" /\ UNCHANGED api
        BY <1>8, <2>1, <3>3 DEF Run, EventResponseTimeout, CancelTx
      <4>3. \/ state' = "PRE_JOIN" /\ timer'.cb = "getMoteStatus"
            \/ state' = "SEND_FAILED" /\ ~timer'.armed
            \/ state' = state /\ state # "SENDING" /\ ~timer'.armed
        BY <3>3, <4>1
        DEF EventResponseTimeout, EnterState, EntryTimer, ScheduleEvent, Stay
      <4> QED
        BY <4>2, <4>3
    <3> QED
      BY <2>1, <3>1, <3>2, <3>3
      DEF RunEvent, Commands, EventReset, EventDisconnect, EventGetMoteStatus,
          EventOpenSocket, EventBindSocket, EventSetJoinKey, EventSetNetworkId,
          EventSearch, EventJoin, EventRequestService, EventGetServiceInfo,
          EventGetTime, EventSetTxPower
  <2>2. CASE ~Due /\ Sleep
    <3>1. timer'.armed = timer.armed /\ timer'.cb = timer.cb
      BY <2>2, OlderCallable DEF Sleep, TypeOK, Callable
    <3> QED
      BY <1>8, <2>2, <3>1 DEF Run, Sleep
  <2> QED
    BY <1>8, <2>1, <2>2 DEF Run
<1>9. CASE Return
  BY <1>9
  DEF Return, ReturnConnect, ReturnSend, ReturnGetTime, ReturnSetTxPower,
      EnterState, EntryTimer, TypeOK, Apis
<1>10. CASE MoteReplies
  <2>1. PICK rc, moteState, id, completed, granted :
               ReplyCb(rc, moteState, id, completed, granted)
    BY <1>10 DEF MoteReplies
  <2>2. /\ pending # None /\ pending' = None
        /\ UNCHANGED <<replyCb, callVars>>
    BY <2>1 DEF ReplyCb
  <2> USE DEF Wait, Proceed, Enter, Stay, EnterState, EntryTimer, CancelEvent,
              ScheduleEvent
  <2>3. CASE Wait
    BY <2>2, <2>3
  <2>4. CASE \E s \in {"DISCONNECTED", "RESETTING", "PROMISCUOUS", "CONNECTED",
                      "SEND_FAILED"} : Enter(s)
    BY <2>2, <2>4, TimingAssumption
  <2>5. CASE replyCb = "setNetworkId" /\ Enter("JOINING")
    BY <2>2, <2>5, TimingAssumption
  <2>6. CASE /\ replyCb \in ConnectCommands \ {"join"}
             /\ \E event \in {"reset", "openSocket", "bindSocket", "setJoinKey",
                              "setNetworkId", "getServiceInfo"} : Proceed(event)
    BY <2>2, <2>6, TimingAssumption
  <2>7. Reply(rc, moteState, id, completed, granted)
    BY <2>1 DEF ReplyCb
  <2> QED
    BY <2>3, <2>4, <2>5, <2>6, <2>7, ReplyGoesOn
<1>11. CASE MoteReports
  <2>1. PICK moteState, events : NotifEvents(moteState, events)
    BY <1>11 DEF MoteReports
  <2>2. UNCHANGED <<confVars, dataVars, libVars, callVars>>
    BY <2>1 DEF NotifEvents
  <2>3. CASE ExpectedEvent(events) /\ OnExpectedEvent
    BY <2>2, <2>3, TimingAssumption
    DEF ExpectedEvent, OnExpectedEvent, EnterState, EntryTimer, ScheduleEvent,
        Stay
  <2>4. CASE EnterState(StateOn(moteState), timer) /\ StateOn(moteState) # None
    BY <2>2, <2>4, TimingAssumption
    DEF StateOn, EnterState, EntryTimer, ScheduleEvent
  <2>5. CASE Stay(timer)
    BY <2>2, <2>5 DEF Stay
  <2> QED
    BY <2>1, <2>3, <2>4, <2>5 DEF NotifEvents
<1>12. CASE MoteHearsNetwork
  BY <1>12, TimingAssumption
  DEF MoteHearsNetwork, NotifAdvReceived, Stay, ScheduleEvent
<1>13. CASE UNCHANGED vars
  BY <1>13
<1> QED
  BY <1>1, <1>2, <1>3, <1>4, <1>5, <1>6, <1>7, <1>8, <1>9, <1>10, <1>11,
     <1>12, <1>13 DEF Next, Loop

\* EventOwner holds in every reachable state.
THEOREM EventsOwned == Spec => []EventOwner
BY OwnerInit, TypeCorrect, EventsInOrder, OwnerStep, PTL DEF Spec

\* No loop of an API call runs what a call of another kind left scheduled, for
\* every timing: neither its events nor the timeout of its command.  The loops of
\* the queries alone may go on with an unfinished connection.
THEOREM NoStaleEventRuns == Spec => []NoStaleEvent
<1>1. TypeOK /\ EventOwner => NoStaleEvent
  BY DEF TypeOK, EventOwner, TimeoutHasCommand, SendOwned, QueryOwned,
         SendingOwned, Owns, Scheduled, NoStaleEvent, Due, DueCommand,
         ConnectCommands, QueryCommands, Events, TimerType, None
<1> QED
  BY <1>1, TypeCorrect, EventsOwned, PTL

=============================================================================
