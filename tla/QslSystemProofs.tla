--------------------------- MODULE QslSystemProofs --------------------------
(***************************************************************************)
(* Proofs about the system of QslSystem: whatever mote, serial link and    *)
(* application are put around the library, its steps are steps of QslFsm.  *)
(* What is proved of QslFsm in an open environment therefore holds in it.  *)
(***************************************************************************)
EXTENDS QslSystem, QslFsmProofs

-----------------------------------------------------------------------------
(* A step of the system is a step of the library, or none of it.            *)

\* A reply function looks at the part of the reply that is its own.
LEMMA ReplyIsMoteReply ==
  ASSUME NEW rc \in ResponseCodes, NEW moteState \in MoteStates,
         NEW id \in SocketIds, NEW completed \in BOOLEAN, NEW granted \in Services,
         ReplyCb(rc, moteState, id, completed, granted)
  PROVE  MoteReplies
<1>0. 0 \in SocketIds /\ 0 \in Services /\ "IDLE" \in MoteStates
  BY DataAssumption DEF MoteStates
<1>1. CASE replyCb = "getMoteStatus"
  <2>1. ReplyCb(rc, moteState, 0, TRUE, 0)
    BY <1>1 DEF ReplyCb, Reply
  <2> QED
    BY <1>1, <2>1 DEF MoteReplies
<1>2. CASE replyCb = "openSocket"
  <2>1. ReplyCb(rc, "IDLE", id, TRUE, 0)
    BY <1>2 DEF ReplyCb, Reply
  <2> QED
    BY <1>2, <2>1 DEF MoteReplies
<1>3. CASE replyCb = "getServiceInfo"
  <2>1. ReplyCb(rc, "IDLE", 0, completed, granted)
    BY <1>3 DEF ReplyCb, Reply
  <2> QED
    BY <1>3, <2>1 DEF MoteReplies
<1>4. CASE replyCb \notin {"getMoteStatus", "openSocket", "getServiceInfo"}
  <2>1. ReplyCb(rc, "IDLE", 0, TRUE, 0)
    BY <1>4 DEF ReplyCb, Reply
  <2> QED
    BY <1>4, <2>1 DEF MoteReplies
<1> QED
  BY <1>1, <1>2, <1>3, <1>4

\* Before dn_qsl_init a notification changes nothing.
LEMMA NothingBeforeInit ==
  ASSUME state = "NOT_INITIALIZED"
  PROVE  /\ \A moteState, events : NotifEvents(moteState, events) => UNCHANGED vars
         /\ \A netId : NotifAdvReceived(netId) => UNCHANGED vars
BY DEF NotifEvents, NotifAdvReceived, ExpectedEvent, StateOn, Stay, ConnectingStates,
       vars, fsmVars, confVars, dataVars, libVars, callVars, None

\* What the link delivers is a reply or a notification that QslFsm expects.
LEMMA DeliverIsStep == SysTypeOK /\ Deliver => Next \/ UNCHANGED vars
<1> SUFFICES ASSUME SysTypeOK, Deliver PROVE Next \/ UNCHANGED vars
  OBVIOUS
<1> DEFINE m == Head(fromMote)
<1>1. m \in Message
  BY DEF SysTypeOK, Deliver
<1>2. CASE m.kind = "reply"
  <2>1. m.rc \in ResponseCodes
    BY <1>1, <1>2 DEF Message
  <2>2. CASE UNCHANGED vars
    BY <2>2
  <2>3. CASE \E moteState \in MoteStates, id \in SocketIds,
                completed \in BOOLEAN, granted \in Services :
               ReplyCb(m.rc, moteState, id, completed, granted)
    BY <2>1, <2>3, ReplyIsMoteReply DEF Next
  <2> QED
    BY <1>2, <2>2, <2>3 DEF Deliver
<1>3. CASE m.kind = "events"
  <2>1. m.moteState \in MoteStates /\ m.events \in SUBSET MoteEvents
    BY <1>1, <1>3 DEF Message
  <2>2. NotifEvents(m.moteState, m.events)
    BY <1>3 DEF Deliver
  <2> QED
    BY <2>1, <2>2, NothingBeforeInit DEF Next, MoteReports
<1>4. CASE m.kind = "advReceived"
  <2>1. m.netId \in NetIds \ {PromiscuousId}
    BY <1>1, <1>4, SystemAssumption DEF Message
  <2>2. NotifAdvReceived(m.netId)
    BY <1>4 DEF Deliver
  <2> QED
    BY <2>1, <2>2, NothingBeforeInit DEF Next, MoteHearsNetwork
<1> QED
  BY <1>1, <1>2, <1>3, <1>4 DEF Message

\* Every step of the system is one that the open environment of QslFsm allows.
LEMMA SystemStep == SysTypeOK /\ [SysNext]_sysVars => [Next]_vars
<1> SUFFICES ASSUME SysTypeOK, SysNext PROVE Next \/ UNCHANGED vars
  BY DEF sysVars
<1>1. CASE App \/ AppQueries
  <2>1. AppInit => QslInit
    BY DEF AppInit
  <2>2. AppSend => CallSend
    BY DEF AppSend, CallSend
  <2>3. AppConnect => CallConnect
    BY SystemAssumption DEF AppConnect, CallConnect
  <2>4. AppQueries => GetTime \/ SetTxPower
    BY DEF AppQueries
  <2> QED
    BY <1>1, <2>1, <2>2, <2>3, <2>4 DEF App, Next
<1>2. CASE SysLoop
  BY <1>2 DEF SysLoop, SysRun, SysLoopTest, SysReturn, Loop, Next
<1>3. CASE Mote \/ MoteRestarts \/ Lose
  BY <1>3 DEF Mote, MoteTakes, MoteJoins, ServiceChanges, MoteHears,
              MoteRestarts, Lose
<1>4. CASE Deliver
  BY <1>4, DeliverIsStep
<1> QED
  BY <1>1, <1>2, <1>3, <1>4 DEF SysNext

-----------------------------------------------------------------------------
(* Type correctness of the mote and the link.                               *)

\* What the mote says are messages.
LEMMA MessagesTyped ==
  /\ \A c \in Commands, rc \in ResponseCodes : Answer(c, rc) \in Message
  /\ \A c \in Commands, rc \in ResponseCodes, s \in MoteStates :
       [Answer(c, rc) EXCEPT !.moteState = s] \in Message
  /\ \A c \in Commands, rc \in ResponseCodes, s \in SocketIds :
       [Answer(c, rc) EXCEPT !.id = s] \in Message
  /\ \A c \in Commands, rc \in ResponseCodes, b \in BOOLEAN, g \in Services :
       [Answer(c, rc) EXCEPT !.completed = b, !.granted = g] \in Message
  /\ \A s \in MoteStates, e \in SUBSET MoteEvents : Notification(s, e) \in Message
  /\ \A netId \in Networks : Advertisement(netId) \in Message
BY DataAssumption DEF Message, Answer, Notification, Advertisement, MoteStates

\* What the library asks of the mote.
RequestType == [cmd : Commands, socket : SocketIds]

\* The part of the type invariant that is not about the library.
MoteTypeOK ==
  /\ mote \in {"IDLE", "SEARCHING", "JOINING", "OPERATIONAL"}
  /\ sockets \in [SocketIds -> {"free", "open", "bound"}]
  /\ svcChanging \in BOOLEAN /\ verdict \in ResponseCodes \cup {None}

\* What is under way.
LinkTypeOK == toMote \in Seq(RequestType) /\ fromMote \in Seq(Message)

\* How often the mote has restarted or refused, and the link lost a frame.
FaultTypeOK ==
  /\ restarts \in 0 .. MaxRestarts /\ losses \in 0 .. MaxLosses
  /\ refusals \in 0 .. MaxRefusals

EnvTypeOK == MoteTypeOK /\ LinkTypeOK /\ FaultTypeOK

\* The type invariant has these parts.
LEMMA EnvTypeIs == SysTypeOK <=> TypeOK /\ EnvTypeOK
BY DEF SysTypeOK, EnvTypeOK, MoteTypeOK, LinkTypeOK, FaultTypeOK, RequestType

\* A frame is taken from a direction of the link, or put on it.
LEMMA LinkTyped ==
  ASSUME NEW S, NEW s \in Seq(S)
  PROVE  /\ s # <<>> => Head(s) \in S /\ Tail(s) \in Seq(S)
         /\ \A e \in S : Append(s, e) \in Seq(S)
         /\ \A d, e \in S : s \o <<d, e>> \in Seq(S)
OBVIOUS

\* The mote takes a command and answers it.
LEMMA MoteTakesTyped ==
  ASSUME TypeOK, EnvTypeOK, MoteTakes
  PROVE  EnvTypeOK'
<1> DEFINE c == Head(toMote)
<1>1. c \in RequestType /\ toMote' \in Seq(RequestType)
  BY LinkTyped DEF EnvTypeOK, LinkTypeOK, MoteTakes
<1>2. c.cmd \in Commands /\ c.socket \in SocketIds
  BY <1>1 DEF RequestType
<1>3. UNCHANGED <<restarts, losses>>
  BY DEF MoteTakes
<1>4. \/ OnGetMoteStatus(c) \/ OnOpenSocket(c) \/ OnBindSocket(c)
      \/ OnParameter(c) \/ OnSearch(c) \/ OnJoin(c)
      \/ OnRequestService(c) \/ OnGetServiceInfo(c) \/ OnSendTo(c)
      \/ OnReset(c)
  BY DEF MoteTakes
<1>9. FaultTypeOK' /\ verdict' \in ResponseCodes \cup {None}
  <2>1. CASE OnParameter(c)
    BY <1>3, <2>1, SystemAssumption
    DEF EnvTypeOK, MoteTypeOK, FaultTypeOK, OnParameter, ResponseCodes
  <2>2. CASE OnSendTo(c)
    BY <1>3, <2>2 DEF EnvTypeOK, FaultTypeOK, OnSendTo, ResponseCodes
  <2>3. CASE UNCHANGED <<refusals, verdict>>
    BY <1>3, <2>3 DEF EnvTypeOK, MoteTypeOK, FaultTypeOK
  <2> QED
    BY <2>1, <2>2, <2>3 DEF MoteTakes
<1> HIDE DEF c
<1>5. MoteTypeOK'
  BY <1>2, <1>9, <1>4
  DEF EnvTypeOK, MoteTypeOK, OnGetMoteStatus, OnOpenSocket, OnBindSocket,
      OnParameter, OnSearch, OnJoin, OnRequestService, OnGetServiceInfo,
      OnSendTo, OnReset, Booted, FreeSockets, moteVars
<1>6. ASSUME NEW m \in Message, fromMote' = Append(fromMote, m)
      PROVE  fromMote' \in Seq(Message)
  BY <1>6, LinkTyped DEF EnvTypeOK, LinkTypeOK
<1>7. /\ Answer(c.cmd, "OK") \in Message
      /\ Answer(c.cmd, "INVALID_STATE") \in Message
      /\ Answer(c.cmd, "NO_RESOURCES") \in Message
      /\ Answer(c.cmd, "NOT_FOUND") \in Message
      /\ Answer(c.cmd, "BUSY") \in Message
      /\ Answer(c.cmd, "ERROR") \in Message
  BY <1>2, MessagesTyped DEF ResponseCodes
<1>8. fromMote' \in Seq(Message)
  <2>1. CASE OnGetMoteStatus(c)
    <3>1. ReportedState \in MoteStates
      BY SMTT(30) DEF ReportedState, MoteStates, EnvTypeOK, MoteTypeOK
    <3> QED
      BY <1>2, <1>6, <2>1, <3>1, MessagesTyped, ZenonT(30) DEF OnGetMoteStatus, ResponseCodes
  <2>2. CASE OnOpenSocket(c)
    BY <1>2, <1>6, <1>7, <2>2, MessagesTyped
    DEF OnOpenSocket, FreeSockets, ResponseCodes
  <2>3. CASE OnBindSocket(c)
    BY <1>6, <1>7, <2>3 DEF OnBindSocket, BindResult
  <2>4. CASE OnParameter(c)
    BY <1>6, <1>7, <2>4 DEF OnParameter
  <2>8. CASE OnSendTo(c)
    BY <1>6, <1>7, <2>8 DEF OnSendTo
  <2>5. CASE OnSearch(c) \/ OnJoin(c) \/ OnRequestService(c)
    BY <1>6, <1>7, <2>5 DEF OnSearch, OnJoin, OnRequestService
  <2>6. CASE OnGetServiceInfo(c)
    <3>1. service_ms \in Services /\ (~svcChanging) \in BOOLEAN
      BY SMTT(30) DEF TypeOK, EnvTypeOK, MoteTypeOK
    <3>2. [Answer(c.cmd, IF mote = "OPERATIONAL" THEN "OK" ELSE "INVALID_STATE")
             EXCEPT !.completed = ~svcChanging, !.granted = service_ms] \in Message
      BY <1>2, <3>1, MessagesTyped, ZenonT(30) DEF ResponseCodes
    <3> QED
      BY <1>6, <2>6, <3>2 DEF OnGetServiceInfo
  <2>7. CASE OnReset(c)
    <3>1. Notification("IDLE", {}) \in Message
      BY MessagesTyped DEF MoteStates
    <3> QED
      BY <1>7, <2>7, <3>1, LinkTyped DEF OnReset, EnvTypeOK, LinkTypeOK
  <2> QED
    BY <1>4, <2>1, <2>2, <2>3, <2>4, <2>5, <2>6, <2>7, <2>8, SMTT(30)
<1> QED
  BY <1>1, <1>5, <1>8, <1>9 DEF EnvTypeOK, LinkTypeOK

\* The types of the mote and the link.
LEMMA EnvTypeStep ==
  ASSUME TypeOK, TypeOK', EnvTypeOK, SysNext
  PROVE  EnvTypeOK'
<1> USE DEF EnvTypeOK, LinkTypeOK
<1>1. CASE App \/ AppQueries
  BY <1>1
  DEF App, AppInit, AppSend, AppConnect, AppQueries, MoteTypeOK, FaultTypeOK,
      envVars, countVars, moteVars, linkVars
<1>2. CASE SysRun
  <2>1. pending' # None => Request(pending') \in RequestType
    BY DEF Request, TypeOK, RequestType
  <2>2. toMote' \in Seq(RequestType)
    BY <1>2, <2>1, LinkTyped DEF SysRun
  <2> QED
    BY <1>2, <2>2 DEF SysRun, MoteTypeOK, FaultTypeOK, countVars, moteVars
<1>3. CASE SysLoopTest \/ SysReturn
  BY <1>3 DEF SysLoopTest, SysReturn, MoteTypeOK, FaultTypeOK, envVars,
              countVars, moteVars, linkVars
<1>4. CASE MoteTakes
  BY <1>4, MoteTakesTyped
<1>5. ASSUME NEW m \in Message, Says(m) PROVE fromMote' \in Seq(Message)
  BY <1>5, LinkTyped DEF Says
<1>6. /\ Notification("OPERATIONAL", {"OPERATIONAL"}) \in Message
      /\ Notification("OPERATIONAL", {"SVC_CHANGE"}) \in Message
      /\ Notification("IDLE", {}) \in Message
      /\ \A netId \in Networks : Advertisement(netId) \in Message
  BY MessagesTyped DEF MoteStates, MoteEvents
<1>7. CASE MoteJoins \/ ServiceChanges \/ MoteHears
  <2>1. fromMote' \in Seq(Message)
    BY <1>5, <1>6, <1>7 DEF MoteJoins, ServiceChanges, MoteHears
  <2> QED
    BY <1>7, <2>1 DEF MoteJoins, ServiceChanges, MoteHears, MoteTypeOK,
                      FaultTypeOK, countVars, moteVars
<1>8. CASE MoteRestarts
  <2>1. fromMote' \in Seq(Message)
    BY <1>5, <1>6, <1>8 DEF MoteRestarts
  <2>2. MoteTypeOK'
    BY <1>8 DEF MoteRestarts, Booted, MoteTypeOK
  <2>3. FaultTypeOK'
    BY <1>8, SystemAssumption DEF MoteRestarts, FaultTypeOK
  <2> QED
    BY <1>8, <2>1, <2>2, <2>3 DEF MoteRestarts
<1>9. CASE Deliver
  BY <1>9, LinkTyped DEF Deliver, Idling, MoteTypeOK, FaultTypeOK, countVars, moteVars
<1>10. CASE Lose
  <2>1. LinkTypeOK'
    BY <1>10, LinkTyped DEF Lose
  <2> QED
    BY <1>10, <2>1, SystemAssumption DEF Lose, MoteTypeOK, FaultTypeOK, countVars, moteVars
<1> QED
  BY <1>1, <1>2, <1>3, <1>4, <1>7, <1>8, <1>9, <1>10 DEF SysNext, SysLoop, Mote

\* The type invariant of the system is inductive.
LEMMA SysTypeStep == SysTypeOK /\ [SysNext]_sysVars => SysTypeOK'
<1> SUFFICES ASSUME SysTypeOK, [SysNext]_sysVars PROVE SysTypeOK'
  OBVIOUS
<1>1. TypeOK /\ EnvTypeOK
  BY EnvTypeIs
<1>2. TypeOK'
  BY <1>1, SystemStep, TypeStep
<1>3. EnvTypeOK'
  <2>1. CASE SysNext
    BY <1>1, <1>2, <2>1, EnvTypeStep
  <2>2. CASE UNCHANGED sysVars
    BY <1>1, <2>2 DEF EnvTypeOK, MoteTypeOK, LinkTypeOK, FaultTypeOK, sysVars,
                      envVars, countVars, moteVars, linkVars
  <2> QED
    BY <2>1, <2>2
<1> QED
  BY <1>2, <1>3
  DEF SysTypeOK, EnvTypeOK, MoteTypeOK, LinkTypeOK, FaultTypeOK, RequestType

\* The system starts with nothing under way.
LEMMA SysTypeInit == SysInit => SysTypeOK
<1> SUFFICES ASSUME SysInit PROVE SysTypeOK
  OBVIOUS
<1>1. TypeOK
  BY TypeInit DEF SysInit
<1>2. toMote \in Seq(RequestType) /\ fromMote \in Seq(Message)
  BY DEF SysInit
<1>3. MoteTypeOK
  BY DEF SysInit, MoteTypeOK
<1>4. FaultTypeOK
  BY SystemAssumption DEF SysInit, FaultTypeOK
<1> QED
  BY <1>1, <1>2, <1>3, <1>4, EnvTypeIs DEF EnvTypeOK, LinkTypeOK

-----------------------------------------------------------------------------

\* The messages under way are such as the library parses, and the mote's state
\* is one it can be in, whatever is lost, given up or restarted.
THEOREM SysTypeCorrect == SysSpec => []SysTypeOK
BY SysTypeInit, SysTypeStep, PTL DEF SysSpec

\* Every behaviour of the system is a behaviour of the library in its open
\* environment: the mote, the link and the application do nothing else to it.
THEOREM SystemRefinesFsm == SysSpec => Spec
<1>1. SysInit => Init
  BY DEF SysInit
<1> QED
  BY <1>1, SystemStep, SysTypeCorrect, PTL DEF SysSpec, Spec

\* With any mote and link, an outstanding command keeps its timeout, what one
\* kind of call leaves scheduled does not act in another (NoStaleEvent), and the
\* library joins only a concrete network that it has configured in the same call.
THEOREM SystemIsSafe ==
  SysSpec => [](/\ OutstandingIsWatched /\ NoStaleEvent
                /\ JoinsConcreteNetwork /\ JoinsConfigured)
BY SystemRefinesFsm, OutstandingCommandIsWatched, NoStaleEventRuns,
   JoinsOnlyConcreteNetworks, JoinsOnlyConfigured, PTL

=============================================================================
