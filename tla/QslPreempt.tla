----------------------------- MODULE QslPreempt -----------------------------
(***************************************************************************)
(* QslFsm, one statement at a time: on the SAM C21 and the Nucleo the      *)
(* callbacks of the C library run in the UART interrupt                    *)
(* (SERCOM3_Handler, USART_SMIP_Interrupt), so a reply or a notification   *)
(* can be handled between any two statements of the application, and       *)
(* dn_lock does not keep it out.                                           *)
(*                                                                         *)
(* todo is what is left of the function the application thread is in: the  *)
(* stores to what callbacks use too, and the places where it reads such a  *)
(* variable to decide how to go on.  The callbacks are those of QslFsm,    *)
(* each as one step.                                                       *)
(***************************************************************************)
EXTENDS QslFsm, Sequences

CONSTANTS
  Queries,              \* which of getTime and setTxPower the application calls
  CallbackLoadedOnce    \* whether the compiler keeps fsmCb in a register from
                        \* its test to its call (dn_fsm.c:327-329); the
                        \* variable is not volatile

ASSUME PreemptAssumption ==
  Queries \subseteq {"getTime", "setTxPower"} /\ CallbackLoadedOnce \in BOOLEAN

VARIABLES
  todo,      \* the statements to execute, first one first
  passed,    \* timePassed_ms of dn_fsm_run; 0 outside it
  gap        \* the time since fsmEventScheduled_ms while nothing is armed

preVars == <<vars, todo, passed, gap>>

\* Times longer than every delay are not told apart.
LongTime == (IF CmdPeriod > ResponseTimeout THEN CmdPeriod ELSE ResponseTimeout) + 1

SinceScheduled == IF timer.armed THEN timer.age ELSE gap

-----------------------------------------------------------------------------
(* Statements, and the functions that are sequences of them. *)

Stmt(op, arg) == [op |-> op, arg |-> arg]

\* dn_fsm_scheduleEvent.
ScheduleStmts(delay, cb) ==
  <<Stmt("storeDelay", delay), Stmt("storeCb", cb), Stmt("arm", None)>>

\* Fault: an event that is already scheduled is not replaced.
EntryStmtsKeepsOld(s) ==
  (IF timer.armed \/ EntryTimer(s, CancelEvent) = CancelEvent THEN <<>>
   ELSE ScheduleStmts(EntryTimer(s, CancelEvent).delay,
                      EntryTimer(s, CancelEvent).cb))
    \o <<Stmt("storeState", s)>>

\* dn_fsm_enterState: the event of the new state, if any, then the state.
EntryStmts(s) ==
  (IF EntryTimer(s, CancelEvent) = CancelEvent THEN <<>>
   ELSE ScheduleStmts(EntryTimer(s, CancelEvent).delay,
                      EntryTimer(s, CancelEvent).cb))
    \o <<Stmt("storeState", s)>>

\* Fault: the timeout of the command is scheduled before it is issued.
EventStmtsTimeoutFirst(e) ==
  IF e = "responseTimeout"
  THEN <<Stmt("cancelTx", None), Stmt("storeReplyCb", None), Stmt("noReply", None)>>
  ELSE ScheduleStmts(ResponseTimeout, "responseTimeout")
         \o <<Stmt("storeReplyCb", e), Stmt("issue", e)>>

\* Fault: the timeout is treated like the other events.
EventStmtsAlike(e) ==
  <<Stmt("storeReplyCb", e), Stmt("issue", e)>>
    \o ScheduleStmts(ResponseTimeout, "responseTimeout")

\* The body of an event.
EventStmts(e) ==
  IF e = "responseTimeout"
  THEN <<Stmt("cancelTx", None), Stmt("storeReplyCb", None), Stmt("noReply", None)>>
  ELSE <<Stmt("storeReplyCb", e), Stmt("issue", e)>>
         \o ScheduleStmts(ResponseTimeout, "responseTimeout")

\* What dn_fsm_cmd_timeout does when the time is up.
CmdTimeoutStmts ==
  <<Stmt("cancelTx", None), Stmt("storeReplyCb", None), Stmt("cancelEvent", None),
    Stmt("timedOut", None)>>

RunStmts == <<Stmt("readTime", None)>>

-----------------------------------------------------------------------------
(* What each statement does.  rest is what follows it.                      *)

KeepTimer == UNCHANGED <<timer, gap>>

\* The stores of fsmEventScheduled_ms and fsmDelay_ms.
StoreDelay(d) ==
  /\ timer' = [timer EXCEPT !.delay = d, !.age = 0]
  /\ gap' = 0
  /\ UNCHANGED <<state, replyCb, pending, passed>>

StoreCb(e) ==
  /\ timer' = [timer EXCEPT !.cb = e]
  /\ UNCHANGED <<state, replyCb, pending, passed, gap>>

Arm ==
  /\ timer' = [timer EXCEPT !.armed = TRUE, !.age = SinceScheduled]
  /\ gap' = 0
  /\ UNCHANGED <<state, replyCb, pending, passed>>

Disarm ==
  /\ timer' = Disarmed
  /\ gap' = SinceScheduled
  /\ UNCHANGED <<state, replyCb, pending, passed>>

StoreState(s) ==
  /\ state' = s
  /\ KeepTimer /\ UNCHANGED <<replyCb, pending, passed>>

StoreReplyCb(c) ==
  /\ replyCb' = c
  /\ KeepTimer /\ UNCHANGED <<state, pending, passed>>

DropTx ==
  /\ CancelTx
  /\ KeepTimer /\ UNCHANGED <<state, replyCb, passed>>

\* Its three stores leave the event disarmed wherever a callback comes between.
StoreCancelled ==
  /\ timer' = CancelEvent
  /\ gap' = SinceScheduled
  /\ UNCHANGED <<state, replyCb, pending, passed>>

Issue(c, rest) ==
  /\ \/ Accept(c) /\ todo' = rest
     \/ Refuse /\ todo' = IF c = "sendTo" THEN EntryStmts("SEND_FAILED") \o rest
                          ELSE rest
  /\ KeepTimer /\ UNCHANGED <<state, replyCb, passed>>

NothingStored == UNCHANGED <<state, timer, gap, replyCb, pending>>

\* The switch of dn_event_responseTimeout.
AfterNoReply ==
  IF state \in ConnectingStates THEN EntryStmts("PRE_JOIN")
  ELSE IF state = "SENDING" THEN EntryStmts("SEND_FAILED")
  ELSE <<>>

\* The switch of dn_fsm_cmd_timeout.
AfterTimeOut ==
  IF state \in ConnectingStates \ {"PROMISCUOUS"} THEN EntryStmts("DISCONNECTED")
  ELSE IF state = "SENDING" THEN EntryStmts("SEND_FAILED")
  ELSE <<>>

\* dn_fsm_run reads the clock, then looks at the event, then sleeps or runs it.
ReadTime ==
  /\ passed' = SinceScheduled
  /\ todo' = <<Stmt("testDue", None)>>

TestDue ==
  /\ passed' = 0
  /\ todo' = IF timer.armed /\ passed > timer.delay
             THEN <<Stmt("disarm", None), Stmt("testCb", None)>>
             ELSE <<Stmt("sleep", None)>>

TestCb ==
  /\ todo' = IF timer.cb = None THEN <<>> ELSE <<Stmt("callCb", timer.cb)>>
  /\ UNCHANGED passed

Called(loaded) == IF CallbackLoadedOnce THEN loaded ELSE timer.cb

\* There is no step if the function has vanished: see NeverCallsNull.
CallCb(loaded) ==
  /\ Called(loaded) # None
  /\ todo' = EventStmts(Called(loaded))
  /\ UNCHANGED passed

SleepStmt ==
  /\ timer' = IF timer.armed
              THEN [timer EXCEPT !.age = AtMost(timer.age + 1, LongTime)]
              ELSE timer
  /\ gap' = IF timer.armed THEN 0 ELSE AtMost(gap + 1, LongTime)
  /\ cmdAge' = AtMost(cmdAge + 1, CmdLimit + 1)
  /\ UNCHANGED <<state, replyCb, pending, passed>>

Execute(s, rest) ==
  \/ /\ \/ s.op = "storeDelay"   /\ StoreDelay(s.arg)
        \/ s.op = "storeCb"      /\ StoreCb(s.arg)
        \/ s.op = "arm"          /\ Arm
        \/ s.op = "disarm"       /\ Disarm
        \/ s.op = "storeState"   /\ StoreState(s.arg)
        \/ s.op = "storeReplyCb" /\ StoreReplyCb(s.arg)
        \/ s.op = "cancelTx"     /\ DropTx
        \/ s.op = "cancelEvent"  /\ StoreCancelled
     /\ todo' = rest /\ UNCHANGED cmdAge
  \/ s.op = "sleep"    /\ SleepStmt /\ todo' = rest
  \/ s.op = "issue"    /\ Issue(s.arg, rest) /\ UNCHANGED cmdAge
  \/ /\ \/ s.op = "noReply"  /\ todo' = AfterNoReply /\ UNCHANGED passed
        \/ s.op = "timedOut" /\ todo' = AfterTimeOut /\ UNCHANGED passed
        \/ s.op = "readTime" /\ ReadTime
        \/ s.op = "testDue"  /\ TestDue
        \/ s.op = "testCb"   /\ TestCb
        \/ s.op = "callCb"   /\ CallCb(s.arg)
     /\ NothingStored /\ UNCHANGED cmdAge

Statement ==
  /\ todo # <<>>
  /\ Execute(Head(todo), Tail(todo))
  /\ UNCHANGED <<confVars, dataVars, configured, pc, api, ret>>

-----------------------------------------------------------------------------
(* The API calls: what is read at once, and the statements that follow.     *)

AtRest == todo = <<>> /\ UNCHANGED <<passed, gap>>

NoStore == UNCHANGED <<fsmVars, replyCb, pending>>

PreConnect(netID, key, port, service) ==
  /\ \/ /\ state = "DISCONNECTED"
        /\ CheckAndSaveNetConfig(netID, key, port, service)
        /\ StartLoop("connect") /\ todo' = EntryStmts("PRE_JOIN")
     \/ /\ state = "CONNECTED" /\ NewConfig(netID, key, port)
        /\ CheckAndSaveNetConfig(netID, key, port, service)
        /\ StartLoop("connect") /\ todo' = EntryStmts("RESETTING")
     \/ /\ state = "CONNECTED" /\ ~NewConfig(netID, key, port)
        /\ service > 0 /\ service # service_ms
        /\ service_ms' = service
        /\ StartLoop("connect") /\ todo' = EntryStmts("REQ_SERVICE")
        /\ UNCHANGED <<networkId, joinKey, srcPort>>
     \/ /\ state = "CONNECTED" /\ ~NewConfig(netID, key, port)
        /\ service = 0 \/ service = service_ms
        /\ StartLoop("connect") /\ todo' = <<>>
        /\ UNCHANGED confVars
     \/ /\ state \notin {"DISCONNECTED", "CONNECTED"}
        /\ Refused
        /\ todo' = IF state = "NOT_INITIALIZED" THEN <<>>
                   ELSE EntryStmts("DISCONNECTED")
        /\ UNCHANGED confVars
  /\ AtRest /\ NoStore /\ UNCHANGED dataVars

PreSend(fits) ==
  /\ \/ state = "CONNECTED" /\ fits
        /\ StartLoop("send") /\ todo' = EntryStmts("SENDING")
     \/ (state # "CONNECTED" \/ ~fits) /\ Refused /\ todo' = <<>>
  /\ AtRest /\ NoStore /\ UNCHANGED <<confVars, dataVars>>

\* dn_qsl_getTime, dn_qsl_setTxPower.  enterState(state): the state read here is
\* stored again at the end.
PreQuery(q) ==
  /\ state # "NOT_INITIALIZED"
  /\ StartLoop(q)
  /\ timeValid' = (timeValid /\ q # "getTime")
  /\ txPowerValid' = (txPowerValid /\ q # "setTxPower")
  /\ todo' = EntryStmts(state) \o ScheduleStmts(CmdPeriod, q)
  /\ AtRest /\ NoStore /\ UNCHANGED <<confVars, socketId>>

PreQslInit ==
  /\ pc = "idle" /\ state = "NOT_INITIALIZED"
  /\ todo' = EntryStmts("DISCONNECTED")
  /\ AtRest /\ NoStore /\ UNCHANGED <<confVars, dataVars, configured, callVars>>

\* Fault: a timeout in an unexpected state does not end the loop.
PreLoopTestExpectedOnly ==
  /\ pc = "test"
  /\ \/ ~Waiting /\ pc' = "return" /\ todo' = <<>>
     \/ /\ Waiting /\ (cmdAge <= CmdLimit \/ state = "PROMISCUOUS")
        /\ pc' = "test" /\ todo' = RunStmts
     \/ /\ Waiting /\ cmdAge > CmdLimit /\ state # "PROMISCUOUS"
        /\ pc' = "return" /\ todo' = CmdTimeoutStmts
  /\ AtRest /\ NoStore
  /\ UNCHANGED <<confVars, dataVars, configured, api, cmdAge, ret>>

\* The test of the loop, then dn_fsm_run or what follows the loop.
PreLoopTest ==
  /\ pc = "test"
  /\ \/ ~Waiting /\ pc' = "return" /\ todo' = <<>>
     \/ Waiting /\ cmdAge <= CmdLimit /\ pc' = "test" /\ todo' = RunStmts
     \/ Waiting /\ cmdAge > CmdLimit /\ pc' = "return" /\ todo' = CmdTimeoutStmts
  /\ AtRest /\ NoStore
  /\ UNCHANGED <<confVars, dataVars, configured, api, cmdAge, ret>>

PreReturn ==
  /\ pc = "return" /\ pc' = "idle"
  /\ ret' = CASE api \in {"connect", "send"} -> state = "CONNECTED"
              [] api = "getTime"             -> timeValid
              [] api = "setTxPower"          -> txPowerValid
  /\ todo' = IF api = "send" /\ state = "SEND_FAILED"
             THEN EntryStmts("CONNECTED") ELSE <<>>
  /\ api' = None /\ cmdAge' = 0 /\ configured' = {}
  /\ AtRest /\ NoStore /\ UNCHANGED <<confVars, dataVars>>

-----------------------------------------------------------------------------
(* The interrupt. *)

Interrupt ==
  /\ MoteReplies \/ MoteReports \/ MoteHearsNetwork
  /\ gap' = IF timer'.armed THEN 0 ELSE SinceScheduled
  /\ UNCHANGED <<todo, passed>>

\* The application does something else; the clock may wrap around meanwhile.
PreIdle ==
  /\ pc = "idle" /\ todo = <<>>
  /\ \E t \in 0 .. LongTime :
       IF timer.armed THEN timer' = [timer EXCEPT !.age = t] /\ UNCHANGED gap
                      ELSE gap' = t /\ UNCHANGED timer
  /\ UNCHANGED <<state, confVars, dataVars, libVars, callVars, todo, passed>>

PreInit == Init /\ todo = <<>> /\ passed = 0 /\ gap = 0

PreCalls ==
  \/ \E netID \in NetIds \cup {Unset}, key \in JoinKeys \cup {Unset},
        port \in SrcPorts \cup {Unset}, service \in Services :
          PreConnect(netID, key, port, service)
  \/ \E fits \in BOOLEAN : PreSend(fits)
  \/ \E q \in Queries : PreQuery(q)
  \/ PreQslInit

PreThread == Statement \/ PreLoopTest \/ PreReturn

PreNext == PreCalls \/ PreIdle \/ PreThread \/ Interrupt

PreSpec == PreInit /\ [][PreNext]_preVars

\* The interrupts leave the application time to go on.
PreFairSpec == PreSpec /\ WF_preVars(PreThread)

-----------------------------------------------------------------------------
(* Properties.                                                              *)

\* Type invariant.
PreTypeOK ==
  /\ state \in States /\ timer \in TimerType
  /\ {replyCb, pending} \subseteq Commands \cup {None}
  /\ configured \subseteq PreJoinSteps
  /\ networkId \in NetIds \cup {Unset}
  /\ pc \in {"idle", "test", "return"}
  /\ api \in Apis \cup {None} /\ (api = None <=> pc = "idle")
  /\ \A i \in DOMAIN todo : DOMAIN todo[i] = {"op", "arg"}
  /\ passed \in 0 .. LongTime /\ gap \in 0 .. LongTime

\* The command the called function issues or, if it is the timeout, gives up.
CalledCommand(loaded) ==
  IF Called(loaded) = "responseTimeout" THEN replyCb ELSE Called(loaded)

ApiOf(c) == IF c = "sendTo" THEN "send" ELSE c

\* Wherever callbacks strike, a command that is outstanding when no function of
\* the library is under way is watched: its loss is noticed.
WatchedBetweenFunctions ==
  todo = <<>> /\ pending # None =>
    timer.armed /\ timer.cb # None /\ replyCb # None

\* Wherever callbacks strike, the function dn_fsm_run calls does not act for
\* another call: sendTo is issued and given up in dn_qsl_send only, and each
\* query in its own call.  (The events of a connection may run in any loop: an
\* answer that comes late may schedule one there.)
NoStaleEventCalled ==
  todo # <<>> /\ Head(todo).op = "callCb" =>
    \A c \in {"sendTo"} \cup QueryCommands :
      CalledCommand(Head(todo).arg) = c => api = ApiOf(c)

\* Every API call returns, however callbacks interleave with it.
PreemptedCallReturns == pc # "idle" ~> pc = "idle"

\* An event function that was there when it was tested (dn_fsm.c:327) is there
\* when it is called (dn_fsm.c:329).
NeverCallsNull ==
  todo # <<>> /\ Head(todo).op = "callCb" => timer.cb # None

=============================================================================
