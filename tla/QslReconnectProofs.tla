-------------------------- MODULE QslReconnectProofs --------------------------
(***************************************************************************)
(* Proofs about QslReconnect, for every set of argument lists the          *)
(* application uses and every value of the other constants.                *)
(***************************************************************************)
EXTENDS QslReconnect, QslFsmProofs

-----------------------------------------------------------------------------
(* QslReconnect is QslFsm with a memory.                                    *)

\* The arguments of a call are among those dn_qsl_connect can be given.
LEMMA CallArgsAreArguments ==
  ASSUME NEW a \in CallArgs
  PROVE  /\ a.netID \in NetIds \cup {Unset} /\ a.key \in JoinKeys \cup {Unset}
         /\ a.port \in SrcPorts \cup {Unset} /\ a.service \in Services
BY CallArgsAssumption

\* No argument list of the application is NoArgs: a service is not negative.
LEMMA NoArgsIsNoCall == NoArgs \notin CallArgs
<1> SUFFICES ASSUME NoArgs \in CallArgs PROVE FALSE
  OBVIOUS
<1>1. NoArgs.service \in Nat
  BY CallArgsAreArguments, DataAssumption
<1> QED
  BY <1>1 DEF NoArgs

\* Every step of QslReconnect is a step of QslFsm, or touches none of its
\* variables.
LEMMA StepOfFsm == [ReNext]_reVars => [Next]_vars
<1> SUFFICES ASSUME [ReNext]_reVars PROVE [Next]_vars
  OBVIOUS
<1>1. CASE CallAgain
  <2>1. PICK a \in CallArgs : Connect(a.netID, a.key, a.port, a.service)
    BY <1>1 DEF CallAgain
  <2>2. CallConnect
    BY <2>1, CallArgsAreArguments DEF CallConnect
  <2> QED
    BY <2>2 DEF Next
<1>2. CASE Step
  BY <1>2 DEF Step, Next, CallSend, Loop
<1>3. CASE ReturnAgain
  BY <1>3 DEF ReturnAgain, Next, Loop
<1> QED
  BY <1>1, <1>2, <1>3 DEF ReNext, reVars

\* An application that calls dn_qsl_connect again drives the machine of QslFsm:
\* what is proved of that machine holds here.
THEOREM ReconnectIsFsm == ReSpec => Spec
<1>1. ReInit => Init
  BY DEF ReInit
<1> QED
  BY <1>1, StepOfFsm, PTL DEF ReSpec, Spec

-----------------------------------------------------------------------------
(* What the machine saved answers the arguments of the call.                *)

\* Called with a once more, dn_qsl_connect finds nothing it would have to
\* change; the ID of a promiscuous connection is replaced by one that is heard.
SavedFor(a) ==
  a.netID # PromiscuousId =>
    /\ ~NewConfig(a.netID, a.key, a.port)
    /\ a.service = 0 \/ a.service = service_ms

\* Inside dn_qsl_connect the saved configuration is that of the call, outside it
\* that of the last call that succeeded.
SavedIsGranted ==
  /\ {calling, granted} \subseteq CallArgs \cup {NoArgs}
  /\ api = "connect" => calling # NoArgs /\ SavedFor(calling)
  /\ api # "connect" /\ granted # NoArgs => SavedFor(granted)

\* Whatever dn_qsl_connect does once it has not refused, what is saved
\* afterwards answers its arguments.
LEMMA ConnectSaves ==
  ASSUME NEW netID, NEW key, NEW port, NEW service,
         Connect(netID, key, port, service),
         netID # PromiscuousId
  PROVE  pc' = "idle" \/ (/\ ~NewConfig(netID, key, port)'
                          /\ service = 0 \/ service = service_ms')
<1> USE DEF NewConfig, Differs
<1>1. CASE CheckAndSaveNetConfig(netID, key, port, service)
  BY <1>1 DEF CheckAndSaveNetConfig, OrDefault
<1>2. CASE ConnectForService(netID, key, port, service)
  BY <1>2 DEF ConnectForService
<1>3. CASE AlreadyConnected(netID, key, port, service)
  BY <1>3 DEF AlreadyConnected, confVars
<1>4. CASE ConnectRefused
  BY <1>4 DEF ConnectRefused, Refused
<1> QED
  BY <1>1, <1>2, <1>3, <1>4 DEF Connect, ConnectFromDisconnected, Reconnect

\* A call of dn_qsl_connect either returns at once and saves nothing, or enters
\* its loop.
LEMMA ConnectEnters ==
  ASSUME NEW netID, NEW key, NEW port, NEW service,
         Connect(netID, key, port, service)
  PROVE  \/ pc' = "test" /\ api' = "connect"
         \/ pc' = pc /\ api' = api /\ UNCHANGED confVars
BY DEF Connect, ConnectFromDisconnected, Reconnect, ConnectForService,
       AlreadyConnected, ConnectRefused, Refused, StartLoop

\* Outside dn_qsl_connect only an advertisement changes what is saved, and it
\* only replaces the ID of a promiscuous connection.
LEMMA OthersKeepSaved ==
  ASSUME Step \/ ReturnAgain
  PROVE  /\ UNCHANGED <<joinKey, srcPort, service_ms>>
         /\ networkId' = networkId \/ networkId = PromiscuousId
<1> USE DEF confVars
<1>1. CASE Run
  <2>1. CASE RunEvent
    BY <2>1
    DEF RunEvent, IssueCommand, EventReset, EventDisconnect, EventGetMoteStatus,
        EventOpenSocket, EventBindSocket, EventSetJoinKey, EventSetNetworkId,
        EventSearch, EventJoin, EventRequestService, EventGetServiceInfo,
        EventGetTime, EventSetTxPower, EventSendTo, EventResponseTimeout
  <2> QED
    BY <1>1, <2>1 DEF Run, Sleep
<1>2. CASE QslInit \/ Send(TRUE) \/ Idle \/ LoopTest
  BY <1>2 DEF QslInit, Send, Idle, LoopTest
<1>3. CASE MoteReplies
  BY <1>3, ReplyTyped DEF ReplyCb
<1>4. CASE MoteReports \/ MoteHearsNetwork
  BY <1>4 DEF MoteReports, MoteHearsNetwork, NotifEvents, NotifAdvReceived
<1>5. CASE ReturnAgain
  BY <1>5 DEF ReturnAgain, Return
<1> QED
  BY <1>1, <1>2, <1>3, <1>4, <1>5 DEF Step

\* The call the thread is in changes only when it enters dn_qsl_send and when it
\* returns.
LEMMA OthersKeepCall ==
  ASSUME Step
  PROVE  api' = api \/ (pc = "idle" /\ api' = "send")
<1> USE DEF callVars
<1>1. CASE QslInit \/ Idle \/ LoopTest \/ Run
  BY <1>1 DEF QslInit, Idle, LoopTest, Run
<1>2. CASE Send(TRUE)
  BY <1>2 DEF Send, StartLoop, Refused
<1>3. CASE MoteReplies
  BY <1>3, ReplyTyped DEF ReplyCb
<1>4. CASE MoteReports \/ MoteHearsNetwork
  BY <1>4 DEF MoteReports, MoteHearsNetwork, NotifEvents, NotifAdvReceived
<1> QED
  BY <1>1, <1>2, <1>3, <1>4 DEF Step

\* What is saved for arguments stays saved for them.
LEMMA SavedStays ==
  ASSUME NEW a \in CallArgs, SavedFor(a), UNCHANGED <<joinKey, srcPort, service_ms>>,
         networkId' = networkId \/ networkId = PromiscuousId
  PROVE  SavedFor(a)'
BY DEF SavedFor, NewConfig, Differs

\* Before the first call nothing is granted.
LEMMA SavedInit == ReInit => SavedIsGranted
BY DEF ReInit, Init, SavedIsGranted, None

\* The saved configuration answers the call in every step: one step per action.
LEMMA SavedStep == TypeOK /\ SavedIsGranted /\ [ReNext]_reVars => SavedIsGranted'
<1> SUFFICES ASSUME TypeOK, SavedIsGranted, [ReNext]_reVars PROVE SavedIsGranted'
  OBVIOUS
<1>0. api = None <=> pc = "idle"
  BY DEF TypeOK
<1>1. CASE CallAgain
  <2>1. PICK a \in CallArgs : /\ Connect(a.netID, a.key, a.port, a.service)
                              /\ calling' = a /\ UNCHANGED granted
    BY <1>1 DEF CallAgain
  <2>2. CASE pc' = "test" /\ api' = "connect"
    <3>1. SavedFor(a)'
      BY <2>1, <2>2, ConnectSaves DEF SavedFor
    <3> QED
      BY <2>1, <2>2, <3>1, NoArgsIsNoCall DEF SavedIsGranted
  <2>3. CASE pc' = pc /\ api' = api /\ UNCHANGED confVars
    <3>1. pc = "idle"
      BY <2>1 DEF Connect, ConnectFromDisconnected, Reconnect, ConnectForService,
                  AlreadyConnected, ConnectRefused, Refused, StartLoop
    <3>2. api' # "connect"
      BY <1>0, <2>3, <3>1 DEF None
    <3>3. UNCHANGED <<networkId, joinKey, srcPort, service_ms>>
      BY <2>3 DEF confVars
    <3>4. \A b \in CallArgs : SavedFor(b) => SavedFor(b)'
      BY <3>3, SavedStays
    <3> QED
      BY <2>1, <2>3, <3>2, <3>4 DEF SavedIsGranted
  <2> QED
    BY <2>1, <2>2, <2>3, ConnectEnters
<1>2. CASE Step
  <2>1. UNCHANGED <<calling, granted>>
    BY <1>2 DEF Step
  <2>2. \A a \in CallArgs : SavedFor(a) => SavedFor(a)'
    BY <1>2, OthersKeepSaved, SavedStays
  <2>3. api' = api \/ (api # "connect" /\ api' # "connect")
    BY <1>0, <1>2, OthersKeepCall DEF None
  <2> QED
    BY <2>1, <2>2, <2>3 DEF SavedIsGranted
<1>3. CASE ReturnAgain
  <2>1. /\ UNCHANGED calling /\ api' = None
        /\ granted' = IF api = "connect" THEN (IF ret' THEN calling ELSE NoArgs)
                      ELSE granted
    BY <1>3 DEF ReturnAgain, Return
  <2>2. \A a \in CallArgs : SavedFor(a) => SavedFor(a)'
    BY <1>3, OthersKeepSaved, SavedStays
  <2> QED
    BY <2>1, <2>2 DEF SavedIsGranted, None
<1>4. CASE UNCHANGED reVars
  BY <1>4 DEF reVars, vars, confVars, callVars, SavedIsGranted, SavedFor,
              NewConfig, Differs
<1> QED
  BY <1>1, <1>2, <1>3, <1>4 DEF ReNext

\* What dn_qsl_connect saved is what the connection was granted for.
THEOREM SavedMatchesGranted == ReSpec => []SavedIsGranted
<1>1. ReSpec => []TypeOK
  BY ReconnectIsFsm, TypeCorrect, PTL
<1> QED
  BY <1>1, SavedInit, SavedStep, PTL DEF ReSpec

-----------------------------------------------------------------------------
(* Calling again.                                                           *)

\* Connected, and with nothing to change, dn_qsl_connect leaves the state alone.
LEMMA NothingToChange ==
  ASSUME NEW netID, NEW key, NEW port, NEW service,
         Connect(netID, key, port, service),
         state = "CONNECTED", ~NewConfig(netID, key, port),
         service = 0 \/ service = service_ms
  PROVE  UNCHANGED <<fsmVars, confVars, replyCb, pending>>
<1>1. ~ConnectFromDisconnected(netID, key, port, service)
  BY DEF ConnectFromDisconnected
<1>2. ~Reconnect(netID, key, port, service)
  BY DEF Reconnect
<1>3. service # 0 => ~ConnectForService(netID, key, port, service)
  BY DEF ConnectForService
<1>4. service = 0 => ~ConnectForService(netID, key, port, service)
  BY DEF ConnectForService
<1>5. ~ConnectRefused
  BY DEF ConnectRefused
<1> QED
  BY <1>1, <1>2, <1>3, <1>4, <1>5 DEF Connect, AlreadyConnected

\* In a step that calls dn_qsl_connect with the arguments of the last call that
\* succeeded, over a connection to a network that was named, nothing the machine
\* or the library holds changes.
LEMMA RepeatChangesNothing ==
  TypeOK /\ SavedIsGranted /\ [ReNext]_reVars =>
    (Repeats /\ api' = "connect" /\ granted.netID # PromiscuousId
       => UNCHANGED <<fsmVars, confVars, replyCb, pending>>)
<1> SUFFICES ASSUME TypeOK, SavedIsGranted, [ReNext]_reVars, Repeats,
                    api' = "connect", granted.netID # PromiscuousId
             PROVE  UNCHANGED <<fsmVars, confVars, replyCb, pending>>
  OBVIOUS
<1>0. pc = "idle" /\ pc' = "test" /\ api = None
  BY DEF Repeats, TypeOK
<1>1. CASE CallAgain
  <2>1. PICK a \in CallArgs : /\ Connect(a.netID, a.key, a.port, a.service)
                              /\ calling' = a /\ UNCHANGED granted
    BY <1>1 DEF CallAgain
  <2>2. a = granted /\ granted # NoArgs
    BY <2>1, NoArgsIsNoCall DEF Repeats
  <2>3. SavedFor(a)
    BY <1>0, <2>2 DEF SavedIsGranted, None
  <2> QED
    BY <2>1, <2>2, <2>3, NothingToChange DEF SavedFor, Repeats
<1>2. CASE Step
  BY <1>0, <1>2, OthersKeepCall DEF None
<1>3. CASE ReturnAgain
  BY <1>0, <1>3 DEF ReturnAgain, Return
<1>4. CASE UNCHANGED reVars
  BY <1>0, <1>4 DEF reVars, vars, callVars
<1> QED
  BY <1>1, <1>2, <1>3, <1>4 DEF ReNext

\* Repeating a successful call of dn_qsl_connect leaves a connection to a named
\* network alone.
THEOREM RepeatedConnectKeepsConnection == ReSpec => RepeatKeepsNamedConnection
<1> DEFINE Kept == Repeats /\ api' = "connect" /\ granted.netID # PromiscuousId
                     => state' = "CONNECTED"
<1>1. TypeOK /\ SavedIsGranted /\ [ReNext]_reVars => [Kept]_reVars
  <2> SUFFICES ASSUME TypeOK, SavedIsGranted, [ReNext]_reVars PROVE Kept
    OBVIOUS
  <2> QED
    BY RepeatChangesNothing DEF Repeats, fsmVars
<1>2. ReSpec => []TypeOK
  BY ReconnectIsFsm, TypeCorrect, PTL
<1>3. ReSpec => [][Kept]_reVars
  BY <1>1, <1>2, SavedMatchesGranted, PTL DEF ReSpec
<1> QED
  BY <1>3 DEF RepeatKeepsNamedConnection

=============================================================================
