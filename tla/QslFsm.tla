------------------------------- MODULE QslFsm -------------------------------
(***************************************************************************)
(* The finite state machine of the SmartMesh QuickStart Library:           *)
(* sm_qsl/dn_fsm.c, with the API calls of dn_qsl_api.h that drive it.      *)
(*                                                                         *)
(* One thread, the application, is inside at most one API call.  A call    *)
(* prepares the machine and then loops: test the loop condition (which may *)
(* abort the call), then run the one scheduled event or sleep.  Replies    *)
(* and notifications of the mote arrive between any two of those steps.    *)
(* The environment is open: any reply may answer the outstanding command,  *)
(* at any time or never, and any notification may come at any time.        *)
(* QslSystem replaces it by a mote and a serial link.                      *)
(*                                                                         *)
(* The unit of time is one dn_sleep_ms(DN_FSM_RUN_INTERVAL_MS): inside a   *)
(* call the clock only advances while the loop sleeps.                     *)
(***************************************************************************)
EXTENDS Integers

CONSTANTS
  CmdPeriod,              \* DN_CMD_PERIOD_MS
  ResponseTimeout,        \* DN_SERIAL_RESPONSE_TIMEOUT_MS
  SendTimeout,            \* DN_SEND_TIMEOUT_MS
  ConnectTimeout,         \* DN_CONNECT_TIMEOUT_S * 1000
  DisconnectBeforeReset,  \* DN_MOTE_DISCONNECT_BEFORE_RESET
  NetIds, JoinKeys, SrcPorts, Services, SocketIds,  \* values the data takes
  PromiscuousId,          \* DN_PROMISCUOUS_NET_ID
  DefaultNetId, DefaultJoinKey, DefaultSrcPort,
  Unset                   \* a 0 or NULL argument; the contents after memset

ASSUME TimingAssumption ==
  /\ CmdPeriod \in Nat
  /\ ResponseTimeout \in Nat
  /\ SendTimeout \in Nat
  /\ ConnectTimeout \in Nat

ASSUME DataAssumption ==
  /\ DisconnectBeforeReset \in BOOLEAN
  /\ PromiscuousId \in NetIds
  /\ DefaultNetId \in NetIds \ {PromiscuousId}
  /\ DefaultJoinKey \in JoinKeys
  /\ DefaultSrcPort \in SrcPorts
  /\ Services \subseteq Nat /\ 0 \in Services
  /\ SocketIds \subseteq Nat /\ 0 \in SocketIds
  /\ Unset \notin NetIds \cup JoinKeys \cup SrcPorts

VARIABLES
  state,         \* dn_fsm_vars.state
  timer,         \* the scheduled event: fsmArmed, fsmCb, fsmDelay_ms and the
                 \* time since fsmEventScheduled_ms (0 while nothing is armed)
  replyCb,       \* the command whose reply function is installed
  networkId, joinKey, srcPort, service_ms, socketId,
  timeValid, txPowerValid,
  pending,       \* the command the C library waits to see answered
  pc,            \* where the application thread is
  api,           \* the API call it is in
  cmdAge,        \* the time since cmdStart_ms of that call
  ret,           \* what the last call returned
  configured     \* history: pre-join steps the mote answered OK in this call

fsmVars  == <<state, timer>>
confVars == <<networkId, joinKey, srcPort, service_ms>>
dataVars == <<socketId, timeValid, txPowerValid>>
libVars  == <<replyCb, pending, configured>>
callVars == <<pc, api, cmdAge, ret>>
vars == <<fsmVars, confVars, dataVars, libVars, callVars>>

-----------------------------------------------------------------------------
(* The values of the variables. *)

ConnectingStates ==
  {"PRE_JOIN", "JOINING", "REQ_SERVICE", "RESETTING", "PROMISCUOUS"}

States == ConnectingStates \cup
  {"NOT_INITIALIZED", "DISCONNECTED", "CONNECTED", "SENDING", "SEND_FAILED"}

\* IDLE and OPERATIONAL are told apart by the code, the others are not.
MoteStates == {"IDLE", "SEARCHING", "OPERATIONAL"}

\* The event masks the code looks at.
MoteEvents == {"OPERATIONAL", "SVC_CHANGE"}

\* The response codes the code tells apart; ERROR is any other one.
ResponseCodes == {"OK", "BUSY", "INVALID_STATE", "NO_RESOURCES",
                  "INCOMPLETE_JOIN_INFO", "NOT_FOUND", "WRITE_FAIL", "ERROR"}

Commands == {"reset", "disconnect", "getMoteStatus", "openSocket",
             "bindSocket", "setJoinKey", "setNetworkId", "search", "join",
             "requestService", "getServiceInfo", "sendTo", "getTime",
             "setTxPower"}

None == "none"     \* no command outstanding, no callback (NULL)

\* dn_fsm_timer_cbt: an event function is named by the command it issues.
Events == Commands \cup {"responseTimeout"}

\* The steps of the configuration that precedes joining.
PreJoinSteps == {"openSocket", "bindSocket", "setJoinKey"}

Apis == {"connect", "send", "getTime", "setTxPower"}

AtMost(n, bound) == IF n > bound THEN bound ELSE n

-----------------------------------------------------------------------------
(* Scheduling of the one event, and the state transitions. *)

ScheduleEvent(delay, cb) ==
  [armed |-> TRUE, cb |-> cb, delay |-> delay, age |-> 0]

\* Fault: fsmArmed is left set.
CancelEventStillArmed == [armed |-> TRUE, cb |-> None, delay |-> 0, age |-> 0]

CancelEvent == [armed |-> FALSE, cb |-> None, delay |-> 0, age |-> 0]

\* fsm_run clears fsmArmed before it calls the event.
Disarmed == [timer EXCEPT !.armed = FALSE, !.age = 0]

\* Fault: an event that is already scheduled is not replaced.
EntryTimerKeepsOld(s, t) ==
  CASE t.armed           -> t
    [] s = "PRE_JOIN"    -> ScheduleEvent(CmdPeriod, "getMoteStatus")
    [] s = "PROMISCUOUS" -> ScheduleEvent(CmdPeriod, "search")
    [] s = "JOINING"     -> ScheduleEvent(CmdPeriod, "join")
    [] s = "REQ_SERVICE" -> ScheduleEvent(CmdPeriod, "requestService")
    [] s = "RESETTING"   -> ScheduleEvent(CmdPeriod, "reset")
    [] s = "SENDING"     -> ScheduleEvent(0, "sendTo")
    [] OTHER             -> t

\* The event a state schedules when it is entered, over the timer t.  Every
\* caller passes 0 for the specific delay, so DN_CMD_PERIOD_MS applies.
EntryTimer(s, t) ==
  CASE s = "PRE_JOIN"    -> ScheduleEvent(CmdPeriod, "getMoteStatus")
    [] s = "PROMISCUOUS" -> ScheduleEvent(CmdPeriod, "search")
    [] s = "JOINING"     -> ScheduleEvent(CmdPeriod, "join")
    [] s = "REQ_SERVICE" -> ScheduleEvent(CmdPeriod, "requestService")
    [] s = "RESETTING"   -> ScheduleEvent(CmdPeriod,
                              IF DisconnectBeforeReset THEN "disconnect"
                                                       ELSE "reset")
    [] s = "SENDING"     -> ScheduleEvent(0, "sendTo")
    [] OTHER             -> t

EnterState(s, t) ==
  /\ state' = s
  /\ timer' = EntryTimer(s, t)

Stay(t) ==
  /\ state' = state
  /\ timer' = t

-----------------------------------------------------------------------------
(* The C library, dn_ipmt.  It has one command outstanding at a time: a     *)
(* further one is refused with an error the events (but sendTo) ignore.  A  *)
(* command may be refused for other reasons too.                            *)

Accept(c) == pending = None /\ pending' = c

Refuse == pending' = pending

CancelTx == pending' = None

-----------------------------------------------------------------------------
(* The events. *)

\* Install the reply function, issue the command, schedule its timeout.
IssueCommand(c) ==
  /\ replyCb' = c
  /\ Accept(c) \/ Refuse
  /\ Stay(ScheduleEvent(ResponseTimeout, "responseTimeout"))
  /\ UNCHANGED <<confVars, dataVars, configured>>

EventReset          == IssueCommand("reset")
EventDisconnect     == IssueCommand("disconnect")
EventGetMoteStatus  == IssueCommand("getMoteStatus")
EventOpenSocket     == IssueCommand("openSocket")
EventBindSocket     == IssueCommand("bindSocket")
EventSetJoinKey     == IssueCommand("setJoinKey")
EventSetNetworkId   == IssueCommand("setNetworkId")
EventSearch         == IssueCommand("search")
EventJoin           == IssueCommand("join")
EventRequestService == IssueCommand("requestService")
EventGetServiceInfo == IssueCommand("getServiceInfo")
EventGetTime        == IssueCommand("getTime")
EventSetTxPower     == IssueCommand("setTxPower")

\* The only event that looks at the error; it schedules the timeout even so.
EventSendTo ==
  /\ replyCb' = "sendTo"
  /\ \/ Accept("sendTo") /\ state' = state
     \/ Refuse /\ state' = "SEND_FAILED"
  /\ timer' = ScheduleEvent(ResponseTimeout, "responseTimeout")
  /\ UNCHANGED <<confVars, dataVars, configured>>

\* Fault: the transmission is not cancelled.
EventResponseTimeoutKeepsTx ==
  /\ pending' = pending
  /\ replyCb' = None
  /\ \/ state \in ConnectingStates /\ EnterState("PRE_JOIN", Disarmed)
     \/ state = "SENDING" /\ EnterState("SEND_FAILED", Disarmed)
     \/ state \notin ConnectingStates \cup {"SENDING"} /\ Stay(Disarmed)
  /\ UNCHANGED <<confVars, dataVars, configured>>

\* Fault: the state is set without entering it, so its event is not scheduled.
EventResponseTimeoutNoRetry ==
  /\ CancelTx
  /\ replyCb' = None
  /\ timer' = Disarmed
  /\ state' = IF state \in ConnectingStates THEN "PRE_JOIN"
              ELSE IF state = "SENDING" THEN "SEND_FAILED" ELSE state
  /\ UNCHANGED <<confVars, dataVars, configured>>

\* Fault: a timeout in a state without a retry ends the connection.
EventResponseTimeoutDisconnects ==
  /\ CancelTx
  /\ replyCb' = None
  /\ \/ state \in ConnectingStates /\ EnterState("PRE_JOIN", Disarmed)
     \/ state = "SENDING" /\ EnterState("SEND_FAILED", Disarmed)
     \/ /\ state \notin ConnectingStates \cup {"SENDING"}
        /\ EnterState("DISCONNECTED", Disarmed)
  /\ UNCHANGED <<confVars, dataVars, configured>>

\* No reply in time: retry the connection, fail the send.
EventResponseTimeout ==
  /\ CancelTx
  /\ replyCb' = None
  /\ \/ state \in ConnectingStates /\ EnterState("PRE_JOIN", Disarmed)
     \/ state = "SENDING" /\ EnterState("SEND_FAILED", Disarmed)
     \/ /\ state \notin ConnectingStates \cup {"SENDING"}
        /\ Stay(Disarmed)                 \* "unexpected state": only logged
  /\ UNCHANGED <<confVars, dataVars, configured>>

RunEvent ==
  \/ timer.cb = "reset"           /\ EventReset
  \/ timer.cb = "disconnect"      /\ EventDisconnect
  \/ timer.cb = "getMoteStatus"   /\ EventGetMoteStatus
  \/ timer.cb = "openSocket"      /\ EventOpenSocket
  \/ timer.cb = "bindSocket"      /\ EventBindSocket
  \/ timer.cb = "setJoinKey"      /\ EventSetJoinKey
  \/ timer.cb = "setNetworkId"    /\ EventSetNetworkId
  \/ timer.cb = "search"          /\ EventSearch
  \/ timer.cb = "join"            /\ EventJoin
  \/ timer.cb = "requestService"  /\ EventRequestService
  \/ timer.cb = "getServiceInfo"  /\ EventGetServiceInfo
  \/ timer.cb = "sendTo"          /\ EventSendTo
  \/ timer.cb = "getTime"         /\ EventGetTime
  \/ timer.cb = "setTxPower"      /\ EventSetTxPower
  \/ timer.cb = "responseTimeout" /\ EventResponseTimeout

-----------------------------------------------------------------------------
(* The reply functions.  Each begins with dn_fsm_cancelEvent().             *)

Wait     == Stay(CancelEvent)
Proceed(event) == Stay(ScheduleEvent(CmdPeriod, event))
Enter(s) == EnterState(s, CancelEvent)

ReplyReset(rc) ==
  /\ IF rc = "OK" THEN Wait ELSE Enter("DISCONNECTED")
  /\ UNCHANGED dataVars

ReplyDisconnect(rc) ==
  /\ IF rc = "OK" THEN Wait ELSE Proceed("reset")
  /\ UNCHANGED dataVars

ReplyGetMoteStatus(moteState) ==
  /\ IF moteState = "IDLE" THEN Proceed("openSocket") ELSE Enter("RESETTING")
  /\ UNCHANGED dataVars

ReplyOpenSocket(rc, id) ==
  /\ \/ rc = "OK" /\ socketId' = id /\ Proceed("bindSocket")
     \/ rc = "NO_RESOURCES" /\ Enter("RESETTING") /\ UNCHANGED socketId
     \/ /\ rc \notin {"OK", "NO_RESOURCES"}
        /\ Enter("DISCONNECTED")
        /\ UNCHANGED socketId
  /\ UNCHANGED <<timeValid, txPowerValid>>

\* Fault: a port that is already bound is taken for ours.
ReplyBindSocketBusyIsFine(rc) ==
  /\ \/ rc \in {"OK", "BUSY"} /\ Proceed("setJoinKey")
     \/ rc \notin {"OK", "BUSY"} /\ Enter("DISCONNECTED")
  /\ UNCHANGED dataVars

ReplyBindSocket(rc) ==
  /\ \/ rc = "OK" /\ Proceed("setJoinKey")
     \/ rc = "BUSY" /\ Enter("RESETTING")
     \/ rc \notin {"OK", "BUSY"} /\ Enter("DISCONNECTED")
  /\ UNCHANGED dataVars

\* Fault: the promiscuous network ID is not recognised.
ReplySetJoinKeyNoSearch(rc) ==
  /\ IF rc = "OK" THEN Proceed("setNetworkId") ELSE Enter("DISCONNECTED")
  /\ UNCHANGED dataVars

ReplySetJoinKey(rc) ==
  /\ \/ rc = "OK" /\ networkId = PromiscuousId /\ Enter("PROMISCUOUS")
     \/ rc = "OK" /\ networkId # PromiscuousId /\ Proceed("setNetworkId")
     \/ rc # "OK" /\ Enter("DISCONNECTED")
  /\ UNCHANGED dataVars

ReplySetNetworkId(rc) ==
  /\ Enter(IF rc = "OK" THEN "JOINING" ELSE "DISCONNECTED")
  /\ UNCHANGED dataVars

ReplySearch(rc) ==
  /\ \/ rc = "OK" /\ Wait
     \/ rc = "INVALID_STATE" /\ Enter("RESETTING")
     \/ rc \notin {"OK", "INVALID_STATE"} /\ Enter("DISCONNECTED")
  /\ UNCHANGED dataVars

\* Fault: an accepted join command is taken for a completed join.
ReplyJoinIsJoined(rc) ==
  /\ \/ rc = "OK" /\ Enter("CONNECTED")
     \/ rc \in {"INVALID_STATE", "INCOMPLETE_JOIN_INFO"} /\ Enter("RESETTING")
     \/ /\ rc \notin {"OK", "INVALID_STATE", "INCOMPLETE_JOIN_INFO"}
        /\ Enter("DISCONNECTED")
  /\ UNCHANGED dataVars

ReplyJoin(rc) ==
  /\ \/ rc = "OK" /\ Wait
     \/ rc \in {"INVALID_STATE", "INCOMPLETE_JOIN_INFO"} /\ Enter("RESETTING")
     \/ /\ rc \notin {"OK", "INVALID_STATE", "INCOMPLETE_JOIN_INFO"}
        /\ Enter("DISCONNECTED")
  /\ UNCHANGED dataVars

ReplyRequestService(rc) ==
  /\ IF rc = "OK" THEN Wait ELSE Enter("DISCONNECTED")
  /\ UNCHANGED dataVars

\* Fault: exactly the requested service is not good enough.
ReplyGetServiceInfoStrict(rc, completed, granted) ==
  /\ \/ rc = "OK" /\ completed /\ granted < service_ms /\ Enter("CONNECTED")
     \/ rc = "OK" /\ completed /\ granted >= service_ms /\ Enter("DISCONNECTED")
     \/ rc = "OK" /\ ~completed /\ Proceed("getServiceInfo")
     \/ rc # "OK" /\ Enter("DISCONNECTED")
  /\ UNCHANGED dataVars

\* A smaller service is a better one.
ReplyGetServiceInfo(rc, completed, granted) ==
  /\ \/ rc = "OK" /\ completed /\ granted <= service_ms /\ Enter("CONNECTED")
     \/ rc = "OK" /\ completed /\ granted > service_ms /\ Enter("DISCONNECTED")
     \/ rc = "OK" /\ ~completed /\ Proceed("getServiceInfo")
     \/ rc # "OK" /\ Enter("DISCONNECTED")
  /\ UNCHANGED dataVars

ReplySendTo(rc) ==
  /\ Enter(IF rc = "OK" THEN "CONNECTED" ELSE "SEND_FAILED")
  /\ UNCHANGED dataVars

ReplyGetTime(rc) ==
  /\ timeValid' = (rc = "OK")
  /\ Enter(IF rc = "OK" THEN "CONNECTED" ELSE "DISCONNECTED")
  /\ UNCHANGED <<socketId, txPowerValid>>

ReplySetTxPower(rc) ==
  /\ txPowerValid' = (rc = "OK")
  /\ Enter(IF rc = "OK" THEN "CONNECTED" ELSE "DISCONNECTED")
  /\ UNCHANGED <<socketId, timeValid>>

\* The reply to the outstanding command is parsed by whatever function is
\* installed; the rest of a reply of another type can be anything.  There is
\* one installed whenever a command is outstanding (OutstandingIsWatched).
Reply(rc, moteState, id, completed, granted) ==
  \/ replyCb = "reset"          /\ ReplyReset(rc)
  \/ replyCb = "disconnect"     /\ ReplyDisconnect(rc)
  \/ replyCb = "getMoteStatus"  /\ ReplyGetMoteStatus(moteState)
  \/ replyCb = "openSocket"     /\ ReplyOpenSocket(rc, id)
  \/ replyCb = "bindSocket"     /\ ReplyBindSocket(rc)
  \/ replyCb = "setJoinKey"     /\ ReplySetJoinKey(rc)
  \/ replyCb = "setNetworkId"   /\ ReplySetNetworkId(rc)
  \/ replyCb = "search"         /\ ReplySearch(rc)
  \/ replyCb = "join"           /\ ReplyJoin(rc)
  \/ replyCb = "requestService" /\ ReplyRequestService(rc)
  \/ replyCb = "getServiceInfo" /\ ReplyGetServiceInfo(rc, completed, granted)
  \/ replyCb = "sendTo"         /\ ReplySendTo(rc)
  \/ replyCb = "getTime"        /\ ReplyGetTime(rc)
  \/ replyCb = "setTxPower"     /\ ReplySetTxPower(rc)

\* dn_ipmt_reply_cb: the library hands over the answer to its command, and is
\* free for the next one.  It drops the answers to commands it gave up.
ReplyCb(rc, moteState, id, completed, granted) ==
  /\ pending # None
  /\ pending' = None
  /\ configured' = IF rc = "OK" THEN configured \cup ({pending} \cap PreJoinSteps)
                                ELSE configured
  /\ Reply(rc, moteState, id, completed, granted)
  /\ UNCHANGED <<replyCb, confVars, callVars>>

-----------------------------------------------------------------------------
(* The notifications; the one for downstream data is in Inbox.             *)

\* A mote event the machine is waiting for.
ExpectedEvent(events) ==
  \/ state = "JOINING" /\ "OPERATIONAL" \in events
  \/ state = "REQ_SERVICE" /\ "SVC_CHANGE" \in events

OnExpectedEvent ==
  \/ /\ state = "JOINING"
     /\ EnterState(IF service_ms > 0 THEN "REQ_SERVICE" ELSE "CONNECTED", timer)
  \/ /\ state = "REQ_SERVICE"
     /\ Stay(ScheduleEvent(CmdPeriod, "getServiceInfo"))

\* The state the reported mote state drives the machine to.
StateOn(moteState) ==
  IF moteState = "IDLE" /\ state \in ConnectingStates THEN "PRE_JOIN"
  ELSE IF moteState = "IDLE" /\ state \in {"CONNECTED", "SENDING", "SEND_FAILED"}
       THEN "DISCONNECTED"
  ELSE IF moteState = "OPERATIONAL" /\ state \in {"PRE_JOIN", "PROMISCUOUS"}
       THEN "RESETTING"
  ELSE None

NotifEvents(moteState, events) ==
  /\ IF ExpectedEvent(events) THEN OnExpectedEvent
     ELSE IF StateOn(moteState) # None THEN EnterState(StateOn(moteState), timer)
     ELSE Stay(timer)
  /\ UNCHANGED <<confVars, dataVars, libVars, callVars>>

\* Fault: the ID heard is saved but not used.
NotifAdvReceivedOnlySaves(netId) ==
  /\ IF state = "PROMISCUOUS" /\ networkId = PromiscuousId
     THEN networkId' = netId /\ Stay(timer)
     ELSE UNCHANGED networkId /\ Stay(timer)
  /\ UNCHANGED <<joinKey, srcPort, service_ms, dataVars, libVars, callVars>>

NotifAdvReceived(netId) ==
  /\ IF state = "PROMISCUOUS" /\ networkId = PromiscuousId
     THEN networkId' = netId /\ Stay(ScheduleEvent(CmdPeriod, "setNetworkId"))
     ELSE UNCHANGED networkId /\ Stay(timer)
  /\ UNCHANGED <<joinKey, srcPort, service_ms, dataVars, libVars, callVars>>

-----------------------------------------------------------------------------
(* The API calls, up to their loops.                                        *)

StartLoop(a) ==
  /\ pc = "idle"
  /\ pc' = "test" /\ api' = a
  /\ UNCHANGED <<cmdAge, ret, configured>>

\* A call that returns before its loop.
Refused ==
  /\ pc = "idle"
  /\ ret' = FALSE
  /\ UNCHANGED <<pc, api, cmdAge, configured>>

OrDefault(arg, default) == IF arg = Unset THEN default ELSE arg

CheckAndSaveNetConfig(netID, key, port, service) ==
  /\ networkId' = OrDefault(netID, DefaultNetId)
  /\ joinKey' = OrDefault(key, DefaultJoinKey)
  /\ srcPort' = OrDefault(port, DefaultSrcPort)
  /\ service_ms' = service

\* Fault: a 0 or NULL argument is compared like any other.
DiffersAlways(arg, saved) == arg # saved

Differs(arg, saved) == arg # Unset /\ arg # saved

NewConfig(netID, key, port) ==
  Differs(netID, networkId) \/ Differs(key, joinKey) \/ Differs(port, srcPort)

ConnectFromDisconnected(netID, key, port, service) ==
  /\ state = "DISCONNECTED"
  /\ CheckAndSaveNetConfig(netID, key, port, service)
  /\ EnterState("PRE_JOIN", timer)
  /\ StartLoop("connect")

Reconnect(netID, key, port, service) ==
  /\ state = "CONNECTED" /\ NewConfig(netID, key, port)
  /\ CheckAndSaveNetConfig(netID, key, port, service)
  /\ EnterState("RESETTING", timer)
  /\ StartLoop("connect")

ConnectForService(netID, key, port, service) ==
  /\ state = "CONNECTED" /\ ~NewConfig(netID, key, port)
  /\ service > 0 /\ service # service_ms
  /\ service_ms' = service
  /\ EnterState("REQ_SERVICE", timer)
  /\ StartLoop("connect")
  /\ UNCHANGED <<networkId, joinKey, srcPort>>

AlreadyConnected(netID, key, port, service) ==
  /\ state = "CONNECTED" /\ ~NewConfig(netID, key, port)
  /\ service = 0 \/ service = service_ms
  /\ StartLoop("connect")
  /\ UNCHANGED <<fsmVars, confVars>>

ConnectRefused ==
  /\ \/ state = "NOT_INITIALIZED" /\ UNCHANGED fsmVars
     \/ /\ state \notin {"NOT_INITIALIZED", "DISCONNECTED", "CONNECTED"}
        /\ EnterState("DISCONNECTED", timer)
  /\ Refused
  /\ UNCHANGED confVars

Connect(netID, key, port, service) ==
  /\ \/ ConnectFromDisconnected(netID, key, port, service)
     \/ Reconnect(netID, key, port, service)
     \/ ConnectForService(netID, key, port, service)
     \/ AlreadyConnected(netID, key, port, service)
     \/ ConnectRefused
  /\ UNCHANGED <<dataVars, replyCb, pending>>

\* The payload is copied and never looked at again; what fits is in
\* PayloadLimit.
Send(fits) ==
  /\ \/ state = "CONNECTED" /\ fits
        /\ EnterState("SENDING", timer) /\ StartLoop("send")
     \/ (state # "CONNECTED" \/ ~fits)
        /\ Refused /\ UNCHANGED fsmVars
  /\ UNCHANGED <<confVars, dataVars, replyCb, pending>>

\* No state is refused; the calls before dn_qsl_init, which find a C library
\* that is not set up, are left out.  enterState(state) and then scheduleEvent:
\* the event of the state is lost.
GetTime ==
  /\ state # "NOT_INITIALIZED"
  /\ StartLoop("getTime")
  /\ timeValid' = FALSE
  /\ Stay(ScheduleEvent(CmdPeriod, "getTime"))
  /\ UNCHANGED <<confVars, socketId, txPowerValid, replyCb, pending>>

SetTxPower ==
  /\ state # "NOT_INITIALIZED"
  /\ StartLoop("setTxPower")
  /\ txPowerValid' = FALSE
  /\ Stay(ScheduleEvent(CmdPeriod, "setTxPower"))
  /\ UNCHANGED <<confVars, socketId, timeValid, replyCb, pending>>

-----------------------------------------------------------------------------
(* The loop of a call.                                                      *)

\* What the while condition of each call waits for, but for the timeout.
Waiting ==
  CASE api = "connect"    -> state \notin {"CONNECTED", "DISCONNECTED"}
    [] api = "send"       -> state = "SENDING"
    [] api = "getTime"    -> ~timeValid
    [] api = "setTxPower" -> ~txPowerValid

CmdLimit == IF api = "connect" THEN ConnectTimeout ELSE SendTimeout

\* Fault: joining is forgotten among the states to abort.
CmdTimeoutKeepsJoining ==
  /\ CancelTx
  /\ replyCb' = None
  /\ \/ /\ state \in {"PRE_JOIN", "REQ_SERVICE", "RESETTING"}
        /\ EnterState("DISCONNECTED", CancelEvent)
     \/ /\ state = "SENDING"
        /\ EnterState("SEND_FAILED", CancelEvent)
     \/ /\ state \notin {"PRE_JOIN", "REQ_SERVICE", "RESETTING", "SENDING"}
        /\ Stay(CancelEvent)
  /\ UNCHANGED configured

\* What dn_fsm_cmd_timeout does when the time is up.
CmdTimeout ==
  /\ CancelTx
  /\ replyCb' = None
  /\ \/ /\ state \in ConnectingStates \ {"PROMISCUOUS"}
        /\ EnterState("DISCONNECTED", CancelEvent)
     \/ /\ state = "SENDING"
        /\ EnterState("SEND_FAILED", CancelEvent)
     \/ /\ state \notin (ConnectingStates \ {"PROMISCUOUS"}) \cup {"SENDING"}
        /\ Stay(CancelEvent)              \* "unexpected state": only logged
  /\ UNCHANGED configured

\* Fault: a timeout in an unexpected state does not end the loop.
LoopTestExpectedOnly ==
  /\ pc = "test"
  /\ \/ ~Waiting /\ pc' = "return" /\ UNCHANGED <<fsmVars, libVars>>
     \/ Waiting /\ (cmdAge <= CmdLimit \/ state = "PROMISCUOUS")
        /\ pc' = "run" /\ UNCHANGED <<fsmVars, libVars>>
     \/ Waiting /\ cmdAge > CmdLimit /\ state # "PROMISCUOUS"
        /\ pc' = "return" /\ CmdTimeout
  /\ UNCHANGED <<confVars, dataVars, api, cmdAge, ret>>

LoopTest ==
  /\ pc = "test"
  /\ \/ ~Waiting /\ pc' = "return" /\ UNCHANGED <<fsmVars, libVars>>
     \/ Waiting /\ cmdAge <= CmdLimit
        /\ pc' = "run" /\ UNCHANGED <<fsmVars, libVars>>
     \/ Waiting /\ cmdAge > CmdLimit
        /\ pc' = "return" /\ CmdTimeout
  /\ UNCHANGED <<confVars, dataVars, api, cmdAge, ret>>

Due == timer.armed /\ timer.age > timer.delay

Older(t) ==
  IF t.armed THEN [t EXCEPT !.age = AtMost(t.age + 1, t.delay + 1)] ELSE t

Sleep ==
  /\ timer' = Older(timer)
  /\ cmdAge' = AtMost(cmdAge + 1, CmdLimit + 1)
  /\ UNCHANGED <<state, libVars, confVars, dataVars>>

\* dn_fsm_run; an armed event always has a callback (TypeOK).
Run ==
  /\ pc = "run" /\ pc' = "test"
  /\ \/ Due /\ RunEvent /\ UNCHANGED cmdAge
     \/ ~Due /\ Sleep
  /\ UNCHANGED <<api, ret>>

ReturnConnect ==
  api = "connect" /\ ret' = (state = "CONNECTED") /\ UNCHANGED fsmVars

\* Fault: a failed send is turned into CONNECTED and not returned from.
ReturnSendFallsThrough ==
  /\ api = "send" /\ EnterState("CONNECTED", timer)
  /\ ret' = (state \in {"SEND_FAILED", "CONNECTED"})

ReturnSend ==
  /\ api = "send"
  /\ \/ state = "SEND_FAILED" /\ EnterState("CONNECTED", timer) /\ ret' = FALSE
     \/ state # "SEND_FAILED" /\ ret' = (state = "CONNECTED") /\ UNCHANGED fsmVars

ReturnGetTime == api = "getTime" /\ ret' = timeValid /\ UNCHANGED fsmVars

ReturnSetTxPower ==
  api = "setTxPower" /\ ret' = txPowerValid /\ UNCHANGED fsmVars

Return ==
  /\ pc = "return" /\ pc' = "idle"
  /\ ReturnConnect \/ ReturnSend \/ ReturnGetTime \/ ReturnSetTxPower
  /\ api' = None /\ cmdAge' = 0 /\ configured' = {}
  /\ UNCHANGED <<confVars, dataVars, replyCb, pending>>

-----------------------------------------------------------------------------

\* dn_qsl_init: the memset leaves everything 0, FALSE or NULL.
QslInit ==
  /\ pc = "idle" /\ state = "NOT_INITIALIZED"
  /\ EnterState("DISCONNECTED", timer)
  /\ UNCHANGED <<confVars, dataVars, libVars, callVars>>

\* The application does something else.  Until its event is due the age is that
\* of the event; later the clock may wrap around and show any difference.
Idle ==
  /\ pc = "idle" /\ timer.armed
  /\ \E t \in 0 .. timer.delay + 1 : timer' = [timer EXCEPT !.age = t]
  /\ UNCHANGED <<state, confVars, dataVars, libVars, callVars>>

Init ==
  /\ state = "NOT_INITIALIZED"
  /\ timer = CancelEvent
  /\ replyCb = None /\ pending = None /\ configured = {}
  /\ networkId = Unset /\ joinKey = Unset /\ srcPort = Unset /\ service_ms = 0
  /\ socketId = 0 /\ timeValid = FALSE /\ txPowerValid = FALSE
  /\ pc = "idle" /\ api = None /\ cmdAge = 0 /\ ret = FALSE

CallConnect ==
  \E netID \in NetIds \cup {Unset}, key \in JoinKeys \cup {Unset},
     port \in SrcPorts \cup {Unset}, service \in Services :
       Connect(netID, key, port, service)

CallSend == \E fits \in BOOLEAN : Send(fits)

\* What the application thread does inside a call.
Loop == LoopTest \/ Run \/ Return

\* Only what the installed reply function looks at is varied.
MoteReplies ==
  \E rc \in ResponseCodes,
     moteState \in IF replyCb = "getMoteStatus" THEN MoteStates ELSE {"IDLE"},
     id \in IF replyCb = "openSocket" THEN SocketIds ELSE {0},
     completed \in IF replyCb = "getServiceInfo" THEN BOOLEAN ELSE {TRUE},
     granted \in IF replyCb = "getServiceInfo" THEN Services ELSE {0} :
       ReplyCb(rc, moteState, id, completed, granted)

MoteReports ==
  \E moteState \in MoteStates, events \in SUBSET MoteEvents :
     /\ state # "NOT_INITIALIZED"
     /\ NotifEvents(moteState, events)

MoteHearsNetwork ==
  \E netId \in NetIds \ {PromiscuousId} :
     /\ state # "NOT_INITIALIZED"
     /\ NotifAdvReceived(netId)

Next ==
  \/ QslInit \/ CallConnect \/ CallSend \/ GetTime \/ SetTxPower \/ Idle
  \/ Loop
  \/ MoteReplies \/ MoteReports \/ MoteHearsNetwork

Spec == Init /\ [][Next]_vars

\* Once in a call the application thread is scheduled again and again.
FairSpec == Spec /\ WF_vars(Loop)

-----------------------------------------------------------------------------
(* Properties.                                                              *)

TimerType ==
  [armed : BOOLEAN, cb : Events \cup {None}, delay : Nat, age : Nat]

QueryCommands == {"getTime", "setTxPower"}

ConnectCommands == Commands \ ({"sendTo"} \cup QueryCommands)

\* The command the scheduled event issues or, if it is a timeout, gives up.
DueCommand == IF timer.cb = "responseTimeout" THEN replyCb ELSE timer.cb

\* Type invariant; an armed event has a callback to call.
TypeOK ==
  /\ state \in States
  /\ timer \in TimerType
  /\ timer.armed => timer.cb # None
  /\ replyCb \in Commands \cup {None}
  /\ pending \in Commands \cup {None}
  /\ configured \subseteq PreJoinSteps
  /\ networkId \in NetIds \cup {Unset}
  /\ joinKey \in JoinKeys \cup {Unset}
  /\ srcPort \in SrcPorts \cup {Unset}
  /\ service_ms \in Services
  /\ socketId \in SocketIds
  /\ timeValid \in BOOLEAN /\ txPowerValid \in BOOLEAN
  /\ pc \in {"idle", "test", "run", "return"}
  /\ api \in Apis \cup {None} /\ (api = None <=> pc = "idle")
  /\ cmdAge \in Nat /\ ret \in BOOLEAN

\* An outstanding command never loses its watchdog: some event is scheduled
\* and a reply function is installed.  Otherwise a lost reply would leave the
\* C library busy, and every later command refused, for good.
OutstandingIsWatched == pending # None => timer.armed /\ replyCb # None

\* What a call leaves scheduled when it gives up, the watchdog of its command
\* included, does not act in a later call of another kind.  dn_qsl_send runs
\* nothing but its sendTo and the timeout of that, dn_qsl_connect no event of a
\* send or of a query, and a query none of a send or of the other query.  A query
\* may run events of a connection: its loop takes over one that is unfinished.
NoStaleEvent ==
  pc = "run" /\ Due =>
    /\ api = "connect" => DueCommand \in ConnectCommands
    /\ api = "send"    => DueCommand = "sendTo"
    /\ api \in QueryCommands => DueCommand \in ConnectCommands \cup {api}

\* The mote is told to join only with a concrete network ID: a promiscuous
\* connection first replaces 0xffff by the ID of a network heard.
JoinsConcreteNetwork == state = "JOINING" => networkId # PromiscuousId

\* Inside dn_qsl_connect the machine reaches JOINING only after the mote has
\* answered OK, in that call, to each step of the pre-join configuration.
JoinsConfigured ==
  api = "connect" /\ state = "JOINING" => configured = PreJoinSteps

\* Every API call returns, even if the mote never answers again.
CallReturns == pc # "idle" ~> pc = "idle"

=============================================================================
