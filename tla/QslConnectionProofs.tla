------------------------- MODULE QslConnectionProofs ------------------------
(***************************************************************************)
(* Proofs about the connection in QslSystem: what library and mote know of *)
(* each other, for every timing and any number of lost frames, when the    *)
(* application asks for a network by its ID and the mote restarts only     *)
(* when it is told to.                                                     *)
(***************************************************************************)
EXTENDS QslSystemProofs

\* A mote that does not restart on its own; a network that is named.
Steady == MaxRestarts = 0 /\ NetIdArg # PromiscuousId

-----------------------------------------------------------------------------
(* The commands, and where they belong.                                     *)

Boots == {"reset", "disconnect"}
Setup == {"openSocket", "bindSocket", "setJoinKey", "setNetworkId"}
Asking == {"getTime", "setTxPower"}
OnNetwork == {"REQ_SERVICE", "CONNECTED", "SENDING", "SEND_FAILED"}

\* The state in which a command is issued.
Home(c) ==
  IF c \in Chain THEN "PRE_JOIN"
  ELSE IF c = "join" THEN "JOINING"
  ELSE IF c \in {"requestService", "getServiceInfo"} THEN "REQ_SERVICE"
  ELSE IF c \in Boots THEN "RESETTING"
  ELSE IF c = "sendTo" THEN "SENDING"
  ELSE IF c \in Asking THEN "CONNECTED"
  ELSE "PROMISCUOUS"

\* The states the machine can be in during each call.
InCall ==
  /\ state # "PROMISCUOUS"
  /\ api = None => state \in {"NOT_INITIALIZED", "DISCONNECTED", "CONNECTED"}
  /\ api = "connect" =>
       /\ state \in ConnectingStates \cup {"CONNECTED", "DISCONNECTED"}
       /\ pc = "return" => state \notin ConnectingStates
  /\ api = "send" =>
       /\ state \in {"SENDING", "SEND_FAILED", "CONNECTED"}
       /\ pc = "return" => state # "SENDING"
  /\ api \in Asking => state \in {"CONNECTED", "DISCONNECTED"}
  /\ pending \in Asking => api = pending
  /\ pc \in {"idle", "return"} => pending = None
  /\ pc = "idle" => cmdAge = 0

\* A report of the mote has ended the pre-join steps before getMoteStatus was
\* answered.
Overtaken == pending = "getMoteStatus" /\ state = "RESETTING"

\* The mote has booted, and the answer to the reset is lost.
Unanswered == pending \in Boots /\ state = "PRE_JOIN"

\* An event other than the response timeout is scheduled.
Planned == timer.armed /\ timer.cb # "responseTimeout"

\* Events, commands and reply functions belong to the state, with two
\* exceptions; PRE_JOIN always has an event.
InPhase ==
  /\ Planned => state = Home(timer.cb)
  /\ Planned /\ pending # None =>
       \/ Overtaken /\ timer.cb \in Boots
       \/ Unanswered /\ timer.cb = "getMoteStatus"
  /\ Scheduled("responseTimeout") => pending # None
  /\ pending # None =>
       /\ timer.armed
       /\ state = Home(pending) \/ Overtaken \/ Unanswered
       /\ replyCb = pending \/ (Overtaken /\ replyCb \in Boots) \/ Unanswered
  /\ state = "PRE_JOIN" => timer.armed

-----------------------------------------------------------------------------
(* The mote, and what is under way.                                         *)

\* The mote is in a network, or about to be, that the library gives up.
Left == mote # "IDLE" /\ state \in {"DISCONNECTED", "PRE_JOIN", "RESETTING"}

\* The mote has booted, and the library does not know yet.
Rebooting == mote = "IDLE" /\ state = "RESETTING"

\* The library waits for the mote to report that it has joined, or that the
\* service has changed.
AwaitsNotice ==
  \/ state = "JOINING" /\ mote = "OPERATIONAL"
  \/ state = "REQ_SERVICE" /\ pending = None /\ ~timer.armed

\* What the mote does goes with what the library is waiting for.
MotePhase ==
  /\ mote # "SEARCHING"
  /\ state \in OnNetwork => mote = "OPERATIONAL"
  /\ state = "NOT_INITIALIZED" => mote = "IDLE"
  /\ pending \in Setup \/ (Planned /\ timer.cb \in Setup) => mote = "IDLE"
  /\ Scheduled("join") => mote = "IDLE"
  /\ pending = "join" => mote # "OPERATIONAL"
  /\ Overtaken => mote # "IDLE"
  /\ Unanswered => mote = "IDLE"
  /\ svcChanging =>
       /\ mote = "OPERATIONAL"
       /\ \/ Left
          \/ state = "REQ_SERVICE" /\ pending = "requestService"
          \/ state = "REQ_SERVICE" /\ pending = None /\ ~timer.armed /\ fromMote = <<>>

IsReply(m, c) == m.kind = "reply" /\ m.cmd = c
Reports(m, s) == m.kind = "events" /\ m.moteState = s

\* The outstanding command or its answer is all there is on the link.
OnlyPending ==
  /\ Len(toMote) + Len(fromMote) <= 1
  /\ \A i \in DOMAIN toMote : toMote[i].cmd = pending /\ ~Unanswered
  /\ \A i \in DOMAIN fromMote : IsReply(fromMote[i], pending) /\ ~Unanswered

\* What the library may have given up, or not waited for: the answer of a mote
\* that is not idle, and the report that it has joined.
Stale(m) ==
  \/ IsReply(m, "getMoteStatus") /\ m.moteState # "IDLE"
  \/ Reports(m, "OPERATIONAL")

\* Behind what is stale there is at most the command that makes the mote boot.
MayBeStale ==
  /\ \A i \in DOMAIN toMote :
       \/ toMote[i].cmd = "getMoteStatus"
       \/ toMote[i].cmd \in Boots /\ i = Len(toMote) /\ pending = toMote[i].cmd
  /\ \A i \in DOMAIN fromMote : Stale(fromMote[i])

\* The report of the boot comes last, after what is stale.
BootComesLast ==
  /\ toMote = <<>>
  /\ Planned => fromMote = <<>>
  /\ \A i \in DOMAIN fromMote :
       \/ i = Len(fromMote) /\ Reports(fromMote[i], "IDLE")
       \/ /\ i < Len(fromMote)
          /\ \/ Stale(fromMote[i])
             \/ \E c \in Boots : IsReply(fromMote[i], c) /\ fromMote[i].rc = "OK"

\* At most the report that is waited for.
OnlyNotice ==
  /\ toMote = <<>> /\ Len(fromMote) <= 1
  /\ \A i \in DOMAIN fromMote : Reports(fromMote[i], "OPERATIONAL")

OnLink ==
  /\ Left => MayBeStale
  /\ Rebooting => OnlyPending \/ BootComesLast
  /\ AwaitsNotice => OnlyNotice
  /\ ~Left /\ ~Rebooting /\ ~AwaitsNotice => OnlyPending

\* Nothing is under way or about to happen at the mote.
Quiet == toMote = <<>> /\ fromMote = <<>> /\ ~JoinEnds /\ ~ServiceEnds

\* When a command or a call runs out of time nothing is under way, but for what
\* may be stale.  An event only runs while the call has time left.
Timing ==
  /\ pc = "run" => cmdAge <= CmdLimit
  /\ Scheduled("responseTimeout") /\ timer.age > 0 => Quiet
  /\ pc = "test" /\ cmdAge > CmdLimit =>
       Quiet \/ (Left /\ pending \in {None, "getMoteStatus"})

\* The library has the ID of a concrete network.
Named ==
  state \notin {"NOT_INITIALIZED", "DISCONNECTED"} => networkId # PromiscuousId

\* The inductive invariant.
Together == InCall /\ InPhase /\ MotePhase /\ OnLink /\ Timing /\ Named

\* What is known of every behaviour of QslFsm, and is needed here.
Known == SysTypeOK /\ AnsweredIsOver /\ OwnEvents

-----------------------------------------------------------------------------
(* Facts about the definitions.                                             *)

\* Which commands belong to which state.
LEMMA HomeOf ==
  ASSUME NEW c \in Commands
  PROVE  /\ Home(c) = "PRE_JOIN" <=> c \in Chain
         /\ Home(c) = "JOINING" <=> c = "join"
         /\ Home(c) = "REQ_SERVICE" <=> c \in {"requestService", "getServiceInfo"}
         /\ Home(c) = "RESETTING" <=> c \in Boots
         /\ Home(c) = "SENDING" <=> c = "sendTo"
         /\ Home(c) = "CONNECTED" <=> c \in Asking
         /\ Home(c) = "PROMISCUOUS" <=> c = "search"
         /\ Home(c) \notin {"NOT_INITIALIZED", "DISCONNECTED", "SEND_FAILED"}
BY DEF Home, Chain, Boots, Asking, Commands

\* The elements of a sequence without its first one.
LEMMA WithoutFirst ==
  ASSUME NEW S, NEW s \in Seq(S), s # <<>>
  PROVE  /\ Tail(s) \in Seq(S) /\ Head(s) \in S /\ Head(s) = s[1]
         /\ Len(s) \in Nat \ {0} /\ Len(Tail(s)) = Len(s) - 1
         /\ 1 \in DOMAIN s /\ DOMAIN s = 1 .. Len(s)
         /\ DOMAIN Tail(s) = 1 .. (Len(s) - 1)
         /\ \A i \in DOMAIN Tail(s) : i + 1 \in DOMAIN s /\ Tail(s)[i] = s[i + 1]
OBVIOUS

\* A sequence without elements.
LEMMA NoElement ==
  ASSUME NEW S, NEW s \in Seq(S)
  PROVE  /\ s = <<>> <=> Len(s) = 0
         /\ s = <<>> <=> ~(1 \in DOMAIN s)
OBVIOUS

\* The empty sequence.
LEMMA EmptyIs == \A s : s = <<>> => Len(s) = 0 /\ DOMAIN s = {}
OBVIOUS

\* A sequence of one element.
LEMMA OnlyOne ==
  ASSUME NEW S, NEW s \in Seq(S), Len(s) = 1
  PROVE  Tail(s) = <<>>
<1>1. Tail(s) \in Seq(S) /\ Len(Tail(s)) = 0
  OBVIOUS
<1> QED
  BY <1>1, NoElement

\* The elements of a sequence with one more.
LEMMA WithOne ==
  ASSUME NEW S, NEW s \in Seq(S), NEW x \in S
  PROVE  /\ Append(s, x) \in Seq(S) /\ Len(s) \in Nat
         /\ Len(Append(s, x)) = Len(s) + 1
         /\ DOMAIN s = 1 .. Len(s) /\ DOMAIN Append(s, x) = 1 .. (Len(s) + 1)
         /\ Append(s, x)[Len(s) + 1] = x
         /\ \A i \in DOMAIN s : Append(s, x)[i] = s[i]
OBVIOUS

\* The elements of a sequence with two more.
LEMMA WithTwo ==
  ASSUME NEW S, NEW s \in Seq(S), NEW x \in S, NEW y \in S
  PROVE  /\ Len(s) \in Nat /\ Len(s \o <<x, y>>) = Len(s) + 2
         /\ DOMAIN s = 1 .. Len(s)
         /\ DOMAIN (s \o <<x, y>>) = 1 .. (Len(s) + 2)
         /\ (s \o <<x, y>>)[Len(s) + 1] = x /\ (s \o <<x, y>>)[Len(s) + 2] = y
         /\ \A i \in DOMAIN s : (s \o <<x, y>>)[i] = s[i]
<1>1. \A p \in Seq(S) :
        /\ Len(s) \in Nat /\ Len(p) \in Nat /\ Len(s \o p) = Len(s) + Len(p)
        /\ DOMAIN s = 1 .. Len(s) /\ DOMAIN (s \o p) = 1 .. (Len(s) + Len(p))
        /\ \A i \in DOMAIN s : (s \o p)[i] = s[i]
        /\ \A i \in 1 .. Len(p) : (s \o p)[Len(s) + i] = p[i]
  OBVIOUS
<1>2. <<x, y>> \in Seq(S) /\ Len(<<x, y>>) = 2 /\ <<x, y>>[1] = x /\ <<x, y>>[2] = y
  OBVIOUS
<1> QED
  BY <1>1, <1>2

\* What the library counts as a time limit.
LEMMA LimitIsTime == CmdLimit \in Nat
BY TimingAssumption DEF CmdLimit

\* Frames and the variables of the mote are typed.
LEMMA LinkIs ==
  ASSUME SysTypeOK
  PROVE  /\ TypeOK
         /\ toMote \in Seq([cmd : Commands, socket : SocketIds])
         /\ fromMote \in Seq(Message)
         /\ Len(toMote) \in Nat /\ DOMAIN toMote = 1 .. Len(toMote)
         /\ Len(fromMote) \in Nat /\ DOMAIN fromMote = 1 .. Len(fromMote)
         /\ \A i \in DOMAIN toMote : toMote[i].cmd \in Commands
         /\ mote \in {"IDLE", "SEARCHING", "JOINING", "OPERATIONAL"}
         /\ toMote = <<>> <=> Len(toMote) = 0
         /\ fromMote = <<>> <=> Len(fromMote) = 0
<1> DEFINE R == [cmd : Commands, socket : SocketIds]
<1>1. toMote \in Seq(R) /\ fromMote \in Seq(Message)
  BY DEF SysTypeOK
<1>2. \A r \in R : r.cmd \in Commands
  OBVIOUS
<1> HIDE DEF R
<1>3. \A i \in DOMAIN toMote : toMote[i] \in R
  BY <1>1
<1>4. /\ Len(toMote) \in Nat /\ DOMAIN toMote = 1 .. Len(toMote)
      /\ Len(fromMote) \in Nat /\ DOMAIN fromMote = 1 .. Len(fromMote)
      /\ toMote = <<>> <=> Len(toMote) = 0
      /\ fromMote = <<>> <=> Len(fromMote) = 0
  BY <1>1
<1> QED
  BY <1>1, <1>2, <1>3, <1>4 DEF SysTypeOK, R

\* When nothing is outstanding and nothing stale is about, the link is empty.
LEMMA FreeIsEmpty ==
  ASSUME SysTypeOK, OnlyPending, pending = None \/ Unanswered
  PROVE  toMote = <<>> /\ fromMote = <<>>
<1>1. \A i \in DOMAIN toMote : FALSE
  BY LinkIs DEF OnlyPending, None, Commands
<1>2. \A i \in DOMAIN fromMote : pending = None
  BY DEF OnlyPending
<1>3. \A i \in DOMAIN fromMote : fromMote[i] \in Message
  BY LinkIs
<1>4. \A m \in Message : m.kind = "reply" => m.cmd # None
  <2> SUFFICES ASSUME NEW m \in Message, m.kind = "reply" PROVE m.cmd \in Commands
    BY DEF None, Commands
  <2> QED
    BY DEF Message
<1>5. \A i \in DOMAIN fromMote : FALSE
  BY <1>2, <1>3, <1>4 DEF OnlyPending, IsReply
<1>6. 1 \notin DOMAIN toMote /\ 1 \notin DOMAIN fromMote
  BY <1>1, <1>5
<1> QED
  BY <1>6, LinkIs, NoElement

-----------------------------------------------------------------------------
(* The application.                                                         *)

\* Before dn_qsl_init nothing is under way.
LEMMA TogetherInit == SysInit => Together
<1> SUFFICES ASSUME SysInit PROVE Together
  OBVIOUS
<1>1. /\ state = "NOT_INITIALIZED" /\ pending = None /\ ~timer.armed
      /\ pc = "idle" /\ api = None /\ cmdAge = 0
  BY DEF SysInit, Init, CancelEvent
<1>2. /\ mote = "IDLE" /\ ~svcChanging /\ toMote = <<>> /\ fromMote = <<>>
      /\ DOMAIN toMote = {} /\ DOMAIN fromMote = {}
      /\ Len(toMote) = 0 /\ Len(fromMote) = 0
  BY DEF SysInit
<1>3. InCall
  BY <1>1 DEF InCall, Asking, None
<1>4. InPhase
  BY <1>1 DEF InPhase, Planned, Scheduled
<1>5. MotePhase
  BY <1>1, <1>2 DEF MotePhase, OnNetwork, Setup, Planned, Scheduled, Overtaken,
                    Unanswered, None, Boots
<1>6. OnLink
  BY <1>1, <1>2 DEF OnLink, Left, Rebooting, AwaitsNotice, OnlyPending
<1>7. Timing /\ Named
  BY <1>1 DEF Timing, Named, Scheduled
<1> QED
  BY <1>3, <1>4, <1>5, <1>6, <1>7 DEF Together

\* Between two calls nothing is outstanding, and the link is empty while the
\* library counts itself connected.
LEMMA IdleIs ==
  ASSUME SysTypeOK, Together, pc = "idle"
  PROVE  /\ api = None /\ pending = None /\ cmdAge = 0
         /\ ~Scheduled("responseTimeout")
         /\ state \in {"NOT_INITIALIZED", "DISCONNECTED", "CONNECTED"}
         /\ state = "CONNECTED" =>
              toMote = <<>> /\ fromMote = <<>> /\ mote = "OPERATIONAL" /\ ~svcChanging
<1>1. /\ api = None /\ pending = None /\ cmdAge = 0
      /\ state \in {"NOT_INITIALIZED", "DISCONNECTED", "CONNECTED"}
  BY DEF SysTypeOK, TypeOK, Together, InCall
<1>2. ~Scheduled("responseTimeout")
  BY <1>1 DEF Together, InPhase
<1>3. ASSUME state = "CONNECTED"
      PROVE  toMote = <<>> /\ fromMote = <<>> /\ mote = "OPERATIONAL" /\ ~svcChanging
  <2>1. ~Left /\ ~Rebooting /\ ~AwaitsNotice
    BY <1>3 DEF Left, Rebooting, AwaitsNotice
  <2>2. OnlyPending
    BY <2>1 DEF Together, OnLink
  <2>3. mote = "OPERATIONAL" /\ ~svcChanging
    BY <1>3, <2>1 DEF Together, MotePhase, OnNetwork
  <2> QED
    BY <1>1, <2>2, <2>3, FreeIsEmpty
<1> QED
  BY <1>1, <1>2, <1>3

\* A call begins, or dn_qsl_init is called: nothing is outstanding, and the time
\* of the call has just begun.
LEMMA CallBegins ==
  ASSUME SysTypeOK, Together, pc = "idle", Steady,
         UNCHANGED <<pending, cmdAge, envVars>>,
         \/ /\ state = "DISCONNECTED" /\ state' = "PRE_JOIN"
            /\ timer' = ScheduleEvent(CmdPeriod, "getMoteStatus")
            /\ api' = "connect" /\ pc' = "test" /\ networkId' # PromiscuousId
         \/ /\ state = "CONNECTED" /\ UNCHANGED networkId
            /\ pc' = "test" /\ timer'.armed
            /\ \/ state' = "SENDING" /\ api' = "send" /\ timer'.cb = "sendTo"
               \/ state' = "CONNECTED" /\ api' \in Asking /\ timer'.cb = api'
         \/ /\ state = "NOT_INITIALIZED" /\ state' = "DISCONNECTED"
            /\ UNCHANGED <<timer, pc, api>>
  PROVE  Together'
<1>0. pending' = None /\ cmdAge' = 0 /\ mote' = mote /\ svcChanging' = svcChanging
      /\ toMote' = toMote /\ fromMote' = fromMote
  BY IdleIs DEF envVars, moteVars, linkVars
<1>1. InCall'
  BY <1>0, IdleIs DEF InCall, Asking, ConnectingStates, None
<1>2. InPhase'
  BY <1>0, IdleIs DEF Together, InPhase, Planned, Scheduled, Home, Chain, Asking, Boots, None,
     ScheduleEvent, Overtaken, Unanswered
<1>3. MotePhase'
  BY <1>0, IdleIs DEF Together, MotePhase, Planned, Scheduled, Setup, Asking, None,
     ScheduleEvent, Overtaken, Unanswered, OnNetwork, Left, Boots
<1>4. OnLink'
  BY <1>0, IdleIs, LinkIs, FreeIsEmpty
  DEF Together, OnLink, Left, Rebooting, AwaitsNotice, OnlyPending, MayBeStale, Unanswered
<1>5. Timing'
  <2>1. ~Scheduled("responseTimeout")'
    BY IdleIs DEF ScheduleEvent, Scheduled, Asking
  <2>2. pc' = "test" => ~(cmdAge' > CmdLimit')
    BY <1>0, TimingAssumption DEF CmdLimit
  <2>3. pc' = "test" \/ pc' = "idle"
    OBVIOUS
  <2> QED
    BY <2>1, <2>2, <2>3 DEF Timing
<1>6. Named'
  BY DEF Together, Named
<1> QED
  BY <1>1, <1>2, <1>3, <1>4, <1>5, <1>6 DEF Together

\* The application calls the library.
LEMMA TogetherApp ==
  ASSUME SysTypeOK, Together, Steady, App \/ AppQueries
  PROVE  Together'
<1>1. CASE AppInit
  BY <1>1, CallBegins
  DEF AppInit, QslInit, EnterState, EntryTimer, callVars, libVars, confVars
<1>2. CASE AppConnect
  <2>1. Connect(NetIdArg, Unset, Unset, ServiceArg) /\ UNCHANGED envVars
    BY <1>2 DEF AppConnect
  <2>2. pc = "idle"
    BY <2>1 DEF Connect, ConnectFromDisconnected, Reconnect, ConnectForService,
                AlreadyConnected, ConnectRefused, Refused, StartLoop
  <2>3. state = "DISCONNECTED"
    BY <1>2, <2>2, IdleIs DEF AppConnect
  <2>4. ConnectFromDisconnected(NetIdArg, Unset, Unset, ServiceArg)
    BY <2>1, <2>3 DEF Connect, Reconnect, ConnectForService, AlreadyConnected, ConnectRefused
  <2>5. networkId' # PromiscuousId
    BY <2>4, DataAssumption
    DEF ConnectFromDisconnected, CheckAndSaveNetConfig, OrDefault, Steady
  <2>6. /\ state' = "PRE_JOIN" /\ timer' = ScheduleEvent(CmdPeriod, "getMoteStatus")
        /\ api' = "connect" /\ pc' = "test" /\ UNCHANGED <<pending, cmdAge>>
    BY <2>1, <2>4 DEF Connect, ConnectFromDisconnected, EnterState, EntryTimer, StartLoop
  <2> QED
    BY <2>1, <2>2, <2>3, <2>5, <2>6, CallBegins
<1>3. CASE AppSend
  <2>1. /\ state = "CONNECTED" /\ pc = "idle" /\ UNCHANGED networkId /\ UNCHANGED envVars
        /\ pc' = "test" /\ api' = "send" /\ UNCHANGED <<pending, cmdAge>>
        /\ state' = "SENDING" /\ timer' = ScheduleEvent(0, "sendTo")
    BY <1>3 DEF AppSend, Send, EnterState, EntryTimer, StartLoop, confVars
  <2> QED
    BY <2>1, CallBegins DEF ScheduleEvent
<1>4. CASE AppQueries
  <2>1. /\ state = "CONNECTED" /\ pc = "idle" /\ UNCHANGED networkId /\ UNCHANGED envVars
        /\ pc' = "test" /\ api' \in Asking /\ UNCHANGED <<pending, cmdAge>>
        /\ state' = "CONNECTED" /\ timer' = ScheduleEvent(CmdPeriod, api')
    BY <1>4 DEF AppQueries, GetTime, SetTxPower, Stay, StartLoop, confVars, Asking
  <2> QED
    BY <2>1, CallBegins DEF ScheduleEvent
<1> QED
  BY <1>1, <1>2, <1>3, <1>4 DEF App

\* A call returns.
LEMMA TogetherReturn ==
  ASSUME SysTypeOK, Together, SysReturn
  PROVE  Together'
<1>0. /\ pc = "return" /\ pc' = "idle" /\ api' = None /\ cmdAge' = 0
      /\ pending = None /\ UNCHANGED <<pending, networkId, envVars>>
      /\ \/ state' = state /\ timer' = timer
         \/ state = "SEND_FAILED" /\ state' = "CONNECTED" /\ timer' = timer
  BY DEF SysReturn, Return, ReturnConnect, ReturnSend, ReturnGetTime, ReturnSetTxPower,
         EnterState, EntryTimer, fsmVars, confVars, Together, InCall
<1>1. api \in Apis /\ state \in States
  BY <1>0 DEF SysTypeOK, TypeOK
<1>2. mote' = mote /\ svcChanging' = svcChanging /\ toMote' = toMote /\ fromMote' = fromMote
  BY <1>0 DEF envVars, moteVars, linkVars
<1>3. state' \in {"DISCONNECTED", "CONNECTED"}
  BY <1>0, <1>1 DEF Together, InCall, Apis, Asking, SysReturn, Return, ReturnSend,
                    ReturnConnect, ReturnGetTime, ReturnSetTxPower, fsmVars, EnterState, ConnectingStates
<1>4. ~Planned \/ state' = state
  BY <1>0 DEF Together, InPhase, Planned, Home
<1>5. InCall'
  BY <1>0, <1>3 DEF InCall, Asking, None
<1>6. InPhase'
  BY <1>0, <1>3, <1>4 DEF Together, InPhase, Planned, Scheduled
<1>7. MotePhase'
  BY <1>0, <1>2, <1>3, <1>4 DEF Together, MotePhase, Planned, Scheduled, OnNetwork,
     Overtaken, Unanswered, Left, Setup, None, Boots
<1>8. OnLink'
  BY <1>0, <1>2, <1>3 DEF Together, OnLink, Left, Rebooting, AwaitsNotice, OnlyPending,
     MayBeStale, Unanswered
<1>9. Timing' /\ Named'
  <2>1. ~Scheduled("responseTimeout")
    BY <1>0 DEF Together, InPhase
  <2> QED
    BY <1>0, <2>1 DEF Together, Timing, Named, Scheduled
<1> QED
  BY <1>5, <1>6, <1>7, <1>8, <1>9 DEF Together

-----------------------------------------------------------------------------
(* The loop of a call.                                                      *)

\* A call that waits for nothing any more has no command outstanding.
LEMMA DoneIsFree ==
  ASSUME SysTypeOK, Together, AnsweredIsOver, pc = "test", ~Waiting
  PROVE  /\ pending = None
         /\ api = "connect" => state \notin ConnectingStates
         /\ api = "send" => state # "SENDING"
<1>1. api \in Apis /\ pending \in Commands \cup {None}
  BY DEF SysTypeOK, TypeOK, None
<1>2. CASE api = "connect"
  <2>1. state \in {"CONNECTED", "DISCONNECTED"}
    BY <1>2 DEF Waiting
  <2>2. ASSUME pending # None PROVE FALSE
    <3>1. pending \in Commands /\ pending \notin Asking
      BY <1>1, <1>2, <2>2 DEF Together, InCall, Asking
    <3>2. state = Home(pending)
      BY <2>1, <2>2 DEF Together, InPhase, Overtaken, Unanswered
    <3> QED
      BY <2>1, <3>1, <3>2, HomeOf
  <2> QED
    BY <1>2, <2>1, <2>2 DEF ConnectingStates
<1>3. CASE api = "send"
  <2>1. state \in {"SEND_FAILED", "CONNECTED"}
    BY <1>3 DEF Waiting, Together, InCall
  <2>2. ASSUME pending # None PROVE FALSE
    <3>1. pending \in Commands /\ pending \notin Asking
      BY <1>1, <1>3, <2>2 DEF Together, InCall, Asking
    <3>2. state = Home(pending)
      BY <2>1, <2>2 DEF Together, InPhase, Overtaken, Unanswered
    <3> QED
      BY <2>1, <3>1, <3>2, HomeOf
  <2> QED
    BY <1>3, <2>1, <2>2
<1>4. CASE api \in Asking
  BY <1>4, <1>1 DEF Waiting, AnsweredIsOver, QueryAnswered, Asking, SysTypeOK, TypeOK
<1> QED
  BY <1>1, <1>2, <1>3, <1>4 DEF Apis, Asking

\* The loop goes on, or the call has what it waits for.
LEMMA TogetherLoopGoesOn ==
  ASSUME SysTypeOK, Together, AnsweredIsOver, UNCHANGED <<fsmVars, libVars>>,
         UNCHANGED <<networkId, api, cmdAge, envVars>>, pc = "test",
         (pc' = "run" /\ cmdAge <= CmdLimit) \/ (pc' = "return" /\ ~Waiting)
  PROVE  Together'
<1>0. /\ UNCHANGED <<state, timer, replyCb, pending, mote, svcChanging, toMote, fromMote>>
  BY DEF fsmVars, libVars, envVars, moteVars, linkVars
<1>1. InCall'
  BY <1>0, DoneIsFree DEF Together, InCall
<1>2. InPhase'
  BY <1>0 DEF Together, InPhase, Planned, Scheduled, Overtaken, Unanswered
<1>3. MotePhase'
  BY <1>0 DEF Together, MotePhase, Planned, Scheduled, Overtaken, Unanswered, Left
<1>4. OnLink'
  BY <1>0 DEF Together, OnLink, Left, Rebooting, AwaitsNotice, OnlyPending, MayBeStale,
     BootComesLast, OnlyNotice, Unanswered, Planned
<1>5. Timing' /\ Named'
  BY <1>0 DEF Together, Timing, Named, Scheduled, Quiet, JoinEnds, ServiceEnds, CmdLimit
<1> QED
  BY <1>1, <1>2, <1>3, <1>4, <1>5 DEF Together

\* The library gives up what it was doing, in the time limit of a command or of
\* a call: nothing is outstanding, and what may still be under way is stale.
LEMMA GivesUpStep ==
  ASSUME SysTypeOK, Together, UNCHANGED <<networkId, cmdAge, api, envVars>>,
         pending' = None,
         Quiet \/ (Left /\ pending \in {None, "getMoteStatus"}),
         api # None,
         \/ /\ state \in ConnectingStates \ {"PROMISCUOUS"}
            /\ \/ state' = "DISCONNECTED" /\ ~timer'.armed /\ pc' = "return"
               \/ /\ state' = "PRE_JOIN" /\ timer'.armed /\ timer'.cb = "getMoteStatus"
                  /\ pc' = "test"
         \/ /\ state = "SENDING" /\ state' = "SEND_FAILED" /\ ~timer'.armed
            /\ pc' \in {"test", "return"}
         \/ /\ state \notin ConnectingStates \cup {"SENDING"} /\ state' = state
            /\ ~timer'.armed /\ pc' \in {"test", "return"},
         pc' = "return" => api # "connect" \/ state \in ConnectingStates,
         pc' = "test" => Quiet /\ pc = "run"
  PROVE  Together'
<1>0. /\ UNCHANGED <<mote, svcChanging, toMote, fromMote>>
      /\ state # "PROMISCUOUS" /\ api \in Apis /\ state \in States
  BY DEF envVars, moteVars, linkVars, Together, InCall, SysTypeOK, TypeOK
<1>1. InCall'
  BY <1>0 DEF Together, InCall, ConnectingStates, Apis, Asking, None
<1>2. InPhase'
  BY <1>0 DEF Together, InPhase, Planned, Scheduled, Home, Chain, ConnectingStates
<1>3. svcChanging => mote = "OPERATIONAL" /\ (Left \/ state = "REQ_SERVICE")
  BY DEF Together, MotePhase
<1>4. state' # "JOINING" /\ state' # "REQ_SERVICE" /\ state' # "RESETTING"
      /\ (state' \in OnNetwork => state \in OnNetwork)
      /\ (state' = "NOT_INITIALIZED" => state = "NOT_INITIALIZED")
  BY <1>0 DEF ConnectingStates, OnNetwork
<1>5. MotePhase'
  <2>1. ~Overtaken' /\ ~Unanswered' /\ pending' \notin Setup /\ ~Scheduled("join")'
    BY DEF Overtaken, Unanswered, Setup, Boots, Scheduled, None
  <2>2. ~(Planned' /\ timer'.cb \in Setup)
    BY DEF Planned, Setup
  <2>3. svcChanging' => mote' = "OPERATIONAL" /\ Left'
    BY <1>0, <1>3 DEF Left, ConnectingStates
  <2> QED
    BY <1>0, <1>4, <2>1, <2>2, <2>3 DEF Together, MotePhase, None
<1>6. OnLink'
  <2>1. ~Rebooting' /\ ~AwaitsNotice'
    BY <1>4 DEF Rebooting, AwaitsNotice
  <2>2. CASE Quiet
    <3>1. toMote' = <<>> /\ fromMote' = <<>> /\ OnlyPending' /\ MayBeStale'
      BY <1>0, <2>2 DEF Quiet, OnlyPending, MayBeStale
    <3> QED
      BY <2>1, <3>1 DEF OnLink
  <2>3. CASE Left /\ pending \in {None, "getMoteStatus"}
    <3>1. MayBeStale'
      BY <1>0, <2>3 DEF Together, OnLink, MayBeStale, Boots, None
    <3>2. Left'
      BY <1>0, <2>3 DEF Left, ConnectingStates
    <3> QED
      BY <2>1, <3>1, <3>2 DEF OnLink
  <2> QED
    BY <2>2, <2>3
<1>7. Timing'
  <2>1. pc' = "test" => ~(cmdAge' > CmdLimit')
    BY LimitIsTime DEF Together, Timing, CmdLimit, SysTypeOK, TypeOK
  <2> QED
    BY <2>1 DEF Timing, Scheduled
<1>8. Named'
  BY <1>0 DEF Together, Named, ConnectingStates
<1> QED
  BY <1>1, <1>2, <1>5, <1>6, <1>7, <1>8 DEF Together

\* The test of the loop.
LEMMA TogetherLoopTest ==
  ASSUME SysTypeOK, Together, AnsweredIsOver, SysLoopTest
  PROVE  Together'
<1>0. /\ pc = "test" /\ UNCHANGED <<networkId, api, cmdAge, envVars>>
      /\ cmdAge \in Nat /\ api # None /\ state # "PROMISCUOUS"
  BY DEF SysLoopTest, LoopTest, confVars, SysTypeOK, TypeOK, Together, InCall
<1>1. CASE /\ \/ ~Waiting /\ pc' = "return"
              \/ Waiting /\ cmdAge <= CmdLimit /\ pc' = "run"
           /\ UNCHANGED <<fsmVars, libVars>>
  BY <1>0, <1>1, TogetherLoopGoesOn
<1>2. CASE Waiting /\ cmdAge > CmdLimit /\ pc' = "return" /\ CmdTimeout
  <2>1. Quiet \/ (Left /\ pending \in {None, "getMoteStatus"})
    BY <1>0, <1>2 DEF Together, Timing
  <2>2. /\ pending' = None /\ ~timer'.armed
        /\ \/ state \in ConnectingStates \ {"PROMISCUOUS"} /\ state' = "DISCONNECTED"
           \/ state = "SENDING" /\ state' = "SEND_FAILED"
           \/ state \notin ConnectingStates \cup {"SENDING"} /\ state' = state
    BY <1>0, <1>2 DEF CmdTimeout, CancelTx, EnterState, EntryTimer, CancelEvent, Stay, None
  <2>3. api = "connect" => state \in ConnectingStates
    BY <1>2 DEF Waiting, Together, InCall
  <2> QED
    BY <1>0, <1>2, <2>1, <2>2, <2>3, GivesUpStep
<1> QED
  BY <1>1, <1>2 DEF SysLoopTest, LoopTest

\* No response came in time.
LEMMA TogetherTimeout ==
  ASSUME SysTypeOK, Together, SysRun, Due, timer.cb = "responseTimeout"
  PROVE  Together'
<1>0. /\ pc = "run" /\ pc' = "test" /\ RunEvent
      /\ UNCHANGED <<api, cmdAge, moteVars, fromMote, countVars, verdict>>
      /\ Scheduled("responseTimeout") /\ timer.age > 0 /\ api # None
      /\ state # "PROMISCUOUS" /\ state \in States
  BY DEF SysRun, Run, Due, Scheduled, SysTypeOK, TypeOK, TimerType, Together, InCall
<1>1. EventResponseTimeout
  BY <1>0 DEF RunEvent
<1>2. Quiet
  BY <1>0 DEF Together, Timing
<1>3. pending' = None /\ toMote' = toMote /\ UNCHANGED networkId
  BY <1>1 DEF EventResponseTimeout, CancelTx, SysRun, confVars
<1>4. \/ /\ state \in ConnectingStates /\ state' = "PRE_JOIN"
         /\ timer' = ScheduleEvent(CmdPeriod, "getMoteStatus")
      \/ state = "SENDING" /\ state' = "SEND_FAILED" /\ timer' = Disarmed
      \/ /\ state \notin ConnectingStates \cup {"SENDING"} /\ state' = state
         /\ timer' = Disarmed
  BY <1>1 DEF EventResponseTimeout, EnterState, EntryTimer, Stay
<1>5. timer' = Disarmed => ~timer'.armed
  BY <1>0 DEF Disarmed, SysTypeOK, TypeOK, TimerType
<1> QED
  BY <1>0, <1>2, <1>3, <1>4, <1>5, GivesUpStep
  DEF envVars, moteVars, linkVars, ScheduleEvent

\* An event issues its command: the library hands it to a free serial link, or
\* refuses it because an older one is outstanding.
LEMMA CommandIs ==
  ASSUME SysTypeOK, Together, SysRun, Due, timer.cb \in Commands
  PROVE  /\ Planned /\ state = Home(timer.cb) /\ timer.cb \notin {"search", None}
         /\ pc = "run" /\ pc' = "test" /\ state' = state
         /\ timer' = ScheduleEvent(ResponseTimeout, "responseTimeout")
         /\ replyCb' = timer.cb
         /\ \/ /\ pending = None /\ pending' = timer.cb
               /\ toMote' = Append(toMote, Request(timer.cb))
            \/ /\ pending # None /\ pending' = pending /\ toMote' = toMote
               /\ \/ Overtaken /\ timer.cb \in Boots
                  \/ Unanswered /\ timer.cb = "getMoteStatus"
         /\ UNCHANGED <<networkId, api, cmdAge, mote, svcChanging, fromMote>>
<1>1. timer.armed /\ timer.cb # "responseTimeout" /\ timer.cb # None
  BY DEF Due, Commands, None
<1>2. Planned /\ state = Home(timer.cb) /\ timer.cb # "search"
  BY <1>1, HomeOf DEF Planned, Together, InPhase, InCall
<1>3. pc = "run" /\ pc' = "test" /\ RunEvent
      /\ UNCHANGED <<networkId, api, cmdAge, mote, svcChanging, fromMote>>
  BY DEF SysRun, Run, RunEvent, moteVars, confVars, EventReset, EventDisconnect,
     EventGetMoteStatus, EventOpenSocket, EventBindSocket, EventSetJoinKey,
     EventSetNetworkId, EventSearch, EventJoin, EventRequestService,
     EventGetServiceInfo, EventGetTime, EventSetTxPower, EventSendTo,
     EventResponseTimeout, IssueCommand
<1>4. /\ timer' = ScheduleEvent(ResponseTimeout, "responseTimeout")
      /\ replyCb' = timer.cb
      /\ \/ pending = None /\ pending' = timer.cb /\ state' = state
         \/ pending' = pending /\ (timer.cb # "sendTo" => state' = state)
  BY <1>1, <1>3 DEF RunEvent, EventReset, EventDisconnect,
     EventGetMoteStatus, EventOpenSocket, EventBindSocket, EventSetJoinKey,
     EventSetNetworkId, EventSearch, EventJoin, EventRequestService,
     EventGetServiceInfo, EventGetTime, EventSetTxPower, EventSendTo,
     IssueCommand, Accept, Refuse, Stay
<1>5. CASE pending = None
  BY <1>1, <1>2, <1>3, <1>4, <1>5 DEF SysRun
<1>6. CASE pending # None
  BY <1>1, <1>2, <1>3, <1>4, <1>6 DEF SysRun, Together, InPhase, Boots
<1> QED
  BY <1>5, <1>6

\* The command of an event is on its way.
LEMMA TogetherIssue ==
  ASSUME SysTypeOK, Together, OwnEvents, SysRun, Due, timer.cb \in Commands,
         pending = None
  PROVE  Together'
<1> DEFINE c == timer.cb
<1>0. /\ Planned /\ state = Home(c) /\ c \notin {"search", None} /\ c \in Commands
      /\ pc = "run" /\ pc' = "test" /\ state' = state
      /\ timer'.armed /\ timer'.cb = "responseTimeout" /\ timer'.age = 0
      /\ replyCb' = c /\ pending' = c /\ toMote' = Append(toMote, Request(c))
      /\ UNCHANGED <<networkId, api, cmdAge, mote, svcChanging, fromMote>>
      /\ timer.armed
  BY CommandIs DEF ScheduleEvent, Planned
<1>1. c \in Asking => api = c
  BY <1>0 DEF OwnEvents, Scheduled, Asking
<1>2. c \in Setup \cup {"join"} => mote = "IDLE"
  BY <1>0 DEF Together, MotePhase, Scheduled
<1>3. ~Planned' /\ ~Overtaken' /\ ~Unanswered' /\ ~AwaitsNotice /\ ~AwaitsNotice'
  <2>1. ~Planned' /\ ~Overtaken' /\ ~Unanswered'
    BY <1>0 DEF Planned, Overtaken, Unanswered, Home, Chain, Boots
  <2>2. state = "JOINING" => mote = "IDLE"
    BY <1>0, <1>2, HomeOf
  <2> QED
    BY <1>0, <2>1, <2>2 DEF AwaitsNotice
<1>4. InCall'
  BY <1>0, <1>1 DEF Together, InCall
<1>5. InPhase'
  BY <1>0, <1>3 DEF Together, InPhase
<1>6. MotePhase'
  <2>1. svcChanging => mote = "OPERATIONAL" /\ Left
    BY <1>0 DEF Together, MotePhase, None
  <2> QED
    BY <1>0, <1>2, <1>3, <2>1 DEF Together, MotePhase, Scheduled, Left
<1>7. toMote \in Seq([cmd : Commands, socket : SocketIds])
      /\ Request(c) \in [cmd : Commands, socket : SocketIds] /\ Request(c).cmd = c
  BY <1>0, LinkIs DEF Request, TypeOK
<1>8. ASSUME toMote = <<>>, fromMote = <<>> PROVE OnlyPending'
  <2>1. Len(toMote') = 1 /\ \A i \in DOMAIN toMote' : toMote'[i].cmd = c
    BY <1>0, <1>7, <1>8
  <2>2. DOMAIN fromMote' = {} /\ Len(fromMote') = 0
    BY <1>0, <1>8
  <2> QED
    BY <1>0, <1>3, <2>1, <2>2 DEF OnlyPending
<1>9. ASSUME Left PROVE MayBeStale'
  <2>1. c = "getMoteStatus" \/ c \in Boots
    BY <1>0, <1>2, <1>9, HomeOf DEF Left, Chain, Setup
  <2>2. \A i \in DOMAIN toMote : toMote[i].cmd = "getMoteStatus"
    BY <1>9 DEF Together, OnLink, MayBeStale, Boots, None
  <2>3. /\ DOMAIN toMote' = 1 .. (Len(toMote) + 1) /\ Len(toMote') = Len(toMote) + 1
        /\ toMote'[Len(toMote) + 1].cmd = c
        /\ \A i \in DOMAIN toMote : toMote'[i] = toMote[i]
        /\ DOMAIN toMote = 1 .. Len(toMote) /\ Len(toMote) \in Nat
    BY <1>0, <1>7, WithOne
  <2>4. \A i \in DOMAIN toMote' : i \in DOMAIN toMote \/ i = Len(toMote')
    BY <2>3
  <2>5. \A i \in DOMAIN fromMote' : Stale(fromMote[i])
    BY <1>0, <1>9 DEF Together, OnLink, MayBeStale
  <2> QED
    BY <1>0, <2>1, <2>2, <2>3, <2>4, <2>5 DEF MayBeStale, Stale
<1>10. ~Left => toMote = <<>> /\ fromMote = <<>>
  BY <1>0, <1>3, FreeIsEmpty DEF Together, OnLink, BootComesLast
<1>11. OnLink'
  BY <1>0, <1>3, <1>8, <1>9, <1>10 DEF OnLink, Left, Rebooting
<1>12. Timing' /\ Named'
  <2>1. ~(cmdAge' > CmdLimit')
    BY <1>0, LimitIsTime DEF Together, Timing, CmdLimit, SysTypeOK, TypeOK
  <2> QED
    BY <1>0, <2>1 DEF Together, Timing, Named, Scheduled
<1> QED
  BY <1>4, <1>5, <1>6, <1>11, <1>12 DEF Together

\* The command of an event is refused: an older one is outstanding.
LEMMA TogetherRefused ==
  ASSUME SysTypeOK, Together, SysRun, Due, timer.cb \in Commands,
         pending # None
  PROVE  Together'
<1>0. /\ Planned /\ state = Home(timer.cb) /\ timer.cb \in Commands
      /\ pc = "run" /\ pc' = "test" /\ state' = state
      /\ timer'.armed /\ timer'.cb = "responseTimeout" /\ timer'.age = 0
      /\ replyCb' = timer.cb /\ pending' = pending /\ toMote' = toMote
      /\ UNCHANGED <<networkId, api, cmdAge, mote, svcChanging, fromMote>>
      /\ \/ Overtaken /\ timer.cb \in Boots
         \/ Unanswered /\ timer.cb = "getMoteStatus"
  BY CommandIs DEF ScheduleEvent, Planned
<1>1. ~Planned' /\ (Overtaken' <=> Overtaken) /\ (Unanswered' <=> Unanswered)
  BY <1>0 DEF Planned, Overtaken, Unanswered
<1>2. InCall' /\ InPhase'
  BY <1>0, <1>1 DEF Together, InCall, InPhase, Scheduled
<1>3. MotePhase'
  BY <1>0, <1>1 DEF Together, MotePhase, Scheduled, Left
<1>4. OnLink'
  BY <1>0, <1>1 DEF Together, OnLink, Left, Rebooting, AwaitsNotice, OnlyPending, MayBeStale,
     BootComesLast, OnlyNotice, Overtaken, Unanswered
<1>5. Timing' /\ Named'
  <2>1. ~(cmdAge' > CmdLimit')
    BY <1>0, LimitIsTime DEF Together, Timing, CmdLimit, SysTypeOK, TypeOK
  <2> QED
    BY <1>0, <2>1 DEF Together, Timing, Named, Scheduled
<1> QED
  BY <1>2, <1>3, <1>4, <1>5 DEF Together

\* Time passes in a call.
LEMMA TogetherSleep ==
  ASSUME SysTypeOK, Together, SysRun, ~Due
  PROVE  Together'
<1>0. /\ pc = "run" /\ pc' = "test" /\ Sleep /\ TimeMayPass
      /\ UNCHANGED <<state, replyCb, pending, networkId, api, mote, svcChanging,
                     toMote, fromMote>>
      /\ timer'.armed = timer.armed /\ timer'.cb = timer.cb
  <2>1. Sleep /\ TimeMayPass /\ pc = "run" /\ pc' = "test"
        /\ UNCHANGED <<mote, svcChanging, fromMote, api>>
    BY DEF SysRun, Run, moteVars
  <2>2. UNCHANGED <<state, replyCb, pending, networkId>>
    BY <2>1 DEF Sleep, libVars, confVars
  <2>3. toMote' = toMote
    BY <2>2 DEF SysRun
  <2>4. timer'.armed = timer.armed /\ timer'.cb = timer.cb
    BY <2>1 DEF Sleep, Older, SysTypeOK, TypeOK, TimerType
  <2> QED
    BY <2>1, <2>2, <2>3, <2>4
<1>1. (Planned' <=> Planned) /\ (Overtaken' <=> Overtaken) /\ (Unanswered' <=> Unanswered)
      /\ (\A c : Scheduled(c)' <=> Scheduled(c)) /\ (Quiet' <=> Quiet)
  BY <1>0 DEF Planned, Overtaken, Unanswered, Scheduled, Quiet, JoinEnds, ServiceEnds
<1>2. InCall'
  BY <1>0 DEF Together, InCall
<1>3. InPhase'
  BY <1>0, <1>1 DEF Together, InPhase
<1>4. MotePhase'
  BY <1>0, <1>1 DEF Together, MotePhase, Left
<1>5. OnLink'
  BY <1>0, <1>1 DEF Together, OnLink, Left, Rebooting, AwaitsNotice, OnlyPending, MayBeStale,
     BootComesLast, OnlyNotice, Unanswered
<1>6. Scheduled("responseTimeout") \/ ~timer.armed => Quiet
  BY <1>0 DEF TimeMayPass, Scheduled, Quiet, InTransit
<1>7. ASSUME Planned PROVE Quiet \/ (Left /\ pending \in {None, "getMoteStatus"})
  <2>1. pending = None \/ Overtaken \/ Unanswered
    BY <1>7 DEF Together, InPhase
  <2>2. timer.cb \in Commands /\ state = Home(timer.cb)
    BY <1>7 DEF SysTypeOK, TypeOK, TimerType, Events, Planned, Together, InPhase
  <2>3. CASE Left
    <3>1. Unanswered => mote = "IDLE"
      BY DEF Together, MotePhase
    <3> QED
      BY <2>1, <2>3, <3>1 DEF Left, Overtaken
  <2>4. CASE ~Left
    <3>1. state # "JOINING" \/ mote # "OPERATIONAL"
      BY <1>7, <2>2, HomeOf DEF Planned, Scheduled, Together, MotePhase
    <3>2. ~AwaitsNotice
      BY <1>7, <3>1 DEF AwaitsNotice, Planned
    <3>3. ~Overtaken
      BY <2>4 DEF Together, MotePhase, Overtaken, Left
    <3>4. toMote = <<>> /\ fromMote = <<>>
      BY <1>7, <2>1, <2>4, <3>2, <3>3, FreeIsEmpty DEF Together, OnLink, BootComesLast
    <3>5. ~ServiceEnds
      BY <1>7, <2>1, <2>4, <3>3 DEF ServiceEnds, Together, MotePhase, Planned, Unanswered, None, Boots
    <3>6. ~JoinEnds
      <4>1. ASSUME mote = "JOINING" PROVE FALSE
        <5>1. state \notin {"DISCONNECTED", "PRE_JOIN", "RESETTING"} \cup OnNetwork
          BY <2>4, <4>1 DEF Left, Together, MotePhase
        <5>2. timer.cb = "join"
          BY <2>2, <5>1, HomeOf DEF OnNetwork, Together, InCall, Home
        <5> QED
          BY <1>7, <4>1, <5>2 DEF Together, MotePhase, Scheduled, Planned
      <4> QED
        BY <4>1 DEF JoinEnds
    <3> QED
      BY <3>4, <3>5, <3>6 DEF Quiet
  <2> QED
    BY <2>3, <2>4
<1>8. Timing'
  <2>1. Left' <=> Left
    BY <1>0 DEF Left
  <2> QED
    BY <1>0, <1>1, <1>6, <1>7, <2>1 DEF Timing, Planned, Scheduled
<1>9. Named'
  BY <1>0 DEF Together, Named
<1> QED
  BY <1>2, <1>3, <1>4, <1>5, <1>8, <1>9 DEF Together

\* The loop of a call runs the event that is due, or lets time pass.
LEMMA TogetherRun ==
  ASSUME SysTypeOK, Together, OwnEvents, SysRun
  PROVE  Together'
<1>1. CASE Due
  <2>1. timer.cb \in Commands \/ timer.cb = "responseTimeout"
    BY <1>1 DEF Due, SysTypeOK, TypeOK, TimerType, Events
  <2> QED
    BY <1>1, <2>1, TogetherTimeout, TogetherIssue, TogetherRefused
<1>2. CASE ~Due
  BY <1>2, TogetherSleep
<1> QED
  BY <1>1, <1>2

-----------------------------------------------------------------------------
(* The mote.                                                                *)

\* A command on its way is the outstanding one, and alone.
LEMMA OneOnTheWay ==
  ASSUME SysTypeOK, OnlyPending, toMote # <<>>
  PROVE  /\ fromMote = <<>> /\ Tail(toMote) = <<>>
         /\ Head(toMote).cmd = pending /\ pending \in Commands /\ ~Unanswered
<1> DEFINE R == [cmd : Commands, socket : SocketIds]
<1>1. toMote \in Seq(R) /\ \A i \in DOMAIN toMote : toMote[i].cmd \in Commands
  BY LinkIs
<1> HIDE DEF R
<1>2. /\ 1 \in DOMAIN toMote /\ Head(toMote) = toMote[1] /\ Len(toMote) \in Nat \ {0}
      /\ Tail(toMote) \in Seq(R) /\ Len(Tail(toMote)) = Len(toMote) - 1
  BY <1>1, WithoutFirst
<1>3. Len(toMote) = 1 /\ Len(fromMote) = 0 /\ fromMote = <<>>
  BY <1>2, LinkIs DEF OnlyPending
<1>4. Tail(toMote) = <<>>
  BY <1>1, <1>3, OnlyOne
<1>5. 1 \in DOMAIN toMote /\ toMote[1].cmd \in Commands /\ Head(toMote).cmd = toMote[1].cmd
  BY <1>1, <1>2
<1>6. toMote[1].cmd = pending /\ ~Unanswered
  BY <1>5 DEF OnlyPending
<1> QED
  BY <1>3, <1>4, <1>5, <1>6

\* An answer that comes back is that of the outstanding command, and alone.
LEMMA OneComesBack ==
  ASSUME SysTypeOK, OnlyPending, fromMote # <<>>
  PROVE  /\ toMote = <<>> /\ Tail(fromMote) = <<>>
         /\ IsReply(Head(fromMote), pending) /\ ~Unanswered
<1>1. fromMote \in Seq(Message)
  BY LinkIs
<1>2. /\ 1 \in DOMAIN fromMote /\ Head(fromMote) = fromMote[1]
      /\ Len(fromMote) \in Nat \ {0} /\ Tail(fromMote) \in Seq(Message)
      /\ Len(Tail(fromMote)) = Len(fromMote) - 1
  BY <1>1, WithoutFirst
<1>3. Len(fromMote) = 1 /\ Len(toMote) = 0 /\ toMote = <<>>
  BY <1>2, LinkIs DEF OnlyPending
<1>4. Tail(fromMote) = <<>>
  BY <1>1, <1>3, OnlyOne
<1>5. 1 \in DOMAIN fromMote /\ Head(fromMote) = fromMote[1]
  BY <1>2
<1>6. IsReply(fromMote[1], pending) /\ ~Unanswered
  BY <1>5 DEF OnlyPending
<1> QED
  BY <1>3, <1>4, <1>5, <1>6

\* What a step of the mote or the link leaves as it is.
LEMMA LibraryStays ==
  ASSUME Together, UNCHANGED vars
  PROVE  /\ UNCHANGED <<state, timer, replyCb, pending, networkId, pc, api, cmdAge>>
         /\ InCall' /\ InPhase' /\ Named'
         /\ (Planned' <=> Planned) /\ (Overtaken' <=> Overtaken)
         /\ (Unanswered' <=> Unanswered) /\ (\A c : Scheduled(c)' <=> Scheduled(c))
         /\ CmdLimit' = CmdLimit
<1>1. UNCHANGED <<state, timer, replyCb, pending, networkId, pc, api, cmdAge>>
  BY DEF vars, fsmVars, confVars, libVars, callVars
<1>2. /\ (Planned' <=> Planned) /\ (Overtaken' <=> Overtaken)
      /\ (Unanswered' <=> Unanswered) /\ (\A c : Scheduled(c)' <=> Scheduled(c))
  BY <1>1 DEF Planned, Overtaken, Unanswered, Scheduled
<1>3. InCall' /\ InPhase' /\ Named' /\ CmdLimit' = CmdLimit
  BY <1>1, <1>2 DEF Together, InCall, InPhase, Named, CmdLimit
<1> QED
  BY <1>1, <1>2, <1>3

\* While something is under way, or about to happen, no time limit is up, but
\* for what may be stale.
LEMMA TimingStays ==
  ASSUME Together, UNCHANGED vars, ~Quiet,
         Left /\ pending \in {None, "getMoteStatus"} => Left'
  PROVE  Timing'
BY LibraryStays DEF Together, Timing

\* The mote answers the command the library waits for, and does not boot.
LEMMA TogetherAnswered ==
  ASSUME SysTypeOK, Together, UNCHANGED vars, ~Left, ~Rebooting,
         toMote # <<>>, toMote' = Tail(toMote), NEW m \in Message,
         fromMote' = Append(fromMote, m),
         IsReply(m, Head(toMote).cmd),
         \/ mote' = mote
         \/ Head(toMote).cmd = "join" /\ mote' = "JOINING",
         \/ svcChanging' = svcChanging
         \/ Head(toMote).cmd = "requestService" /\ mote = "OPERATIONAL"
  PROVE  Together'
<1>1. ~AwaitsNotice
  BY DEF Together, OnLink, OnlyNotice
<1>2. OnlyPending
  BY <1>1 DEF Together, OnLink
<1>3. fromMote = <<>> /\ toMote' = <<>> /\ Head(toMote).cmd = pending
      /\ pending \in Commands /\ ~Unanswered
  BY <1>2, OneOnTheWay
<1>4. ~Overtaken
  BY DEF Together, MotePhase, Overtaken, Left
<1>5. state = Home(pending) /\ timer.armed /\ pending # None
  BY <1>3, <1>4 DEF Together, InPhase, None, Commands
<1>6. ~Left' /\ ~Rebooting' /\ ~AwaitsNotice'
  <2>1. CASE mote' = mote
    BY <1>1, <1>5, <2>1, LibraryStays DEF Left, Rebooting, AwaitsNotice
  <2>2. CASE pending = "join" /\ mote' = "JOINING"
    BY <1>3, <1>5, <2>2, HomeOf, LibraryStays DEF Left, Rebooting, AwaitsNotice
  <2> QED
    BY <1>3, <2>1, <2>2
<1>7. OnlyPending'
  <2>1. /\ Len(fromMote') = Len(fromMote) + 1
        /\ \A i \in DOMAIN fromMote' : i = Len(fromMote) + 1 \/ i \in DOMAIN fromMote
        /\ fromMote'[Len(fromMote) + 1] = m /\ Len(fromMote) = 0 /\ DOMAIN fromMote = {}
    BY <1>3, LinkIs, WithOne
  <2>2. Len(toMote') = 0 /\ DOMAIN toMote' = {}
    BY <1>3, EmptyIs
  <2>3. pending' = pending /\ ~Unanswered'
    BY <1>3, LibraryStays
  <2>4. IsReply(m, pending)
    BY <1>3
  <2> QED
    BY <2>1, <2>2, <2>3, <2>4 DEF OnlyPending, IsReply
<1>8. MotePhase'
  <2>1. CASE mote' = mote /\ svcChanging' = svcChanging
    <3>1. svcChanging => state = "REQ_SERVICE" /\ pending = "requestService"
      BY <1>5 DEF Together, MotePhase
    <3> QED
      BY <2>1, <3>1, LibraryStays DEF Together, MotePhase
  <2>2. CASE mote' = mote /\ pending = "requestService" /\ mote = "OPERATIONAL"
    BY <1>3, <1>5, <2>2, LibraryStays, HomeOf DEF Together, MotePhase
  <2>3. CASE pending = "join" /\ mote' = "JOINING" /\ svcChanging' = svcChanging
    <3>1. state = "JOINING" /\ ~svcChanging
      BY <1>3, <1>5, <2>3, HomeOf DEF Together, MotePhase
    <3>2. ~Planned /\ ~Scheduled("join")
      BY <1>3, <1>4, <1>5 DEF Together, InPhase, Planned, Scheduled
    <3> QED
      BY <1>3, <1>4, <2>3, <3>1, <3>2, LibraryStays
      DEF Together, MotePhase, OnNetwork, Setup, Overtaken, Unanswered
  <2> QED
    BY <1>3, <2>1, <2>2, <2>3
<1>9. Timing'
  BY TimingStays DEF Quiet
<1> QED
  BY <1>6, <1>7, <1>8, <1>9, LibraryStays DEF Together, OnLink

\* A mote that is not idle reports its state to a library that has given up.
LEMMA TogetherStatus ==
  ASSUME SysTypeOK, Together, UNCHANGED vars, UNCHANGED <<mote, svcChanging>>, Left,
         toMote # <<>>, toMote' = Tail(toMote), NEW m \in Message,
         fromMote' = Append(fromMote, m), Stale(m)
  PROVE  Together'
<1>1. Left' /\ ~Rebooting' /\ ~AwaitsNotice'
  BY LibraryStays DEF Left, Rebooting, AwaitsNotice
<1>2. \A i \in DOMAIN toMote' :
        /\ i + 1 \in DOMAIN toMote /\ toMote'[i] = toMote[i + 1]
        /\ i + 1 = Len(toMote) => i = Len(toMote')
  <2> DEFINE R == [cmd : Commands, socket : SocketIds]
  <2>1. toMote \in Seq(R)
    BY LinkIs
  <2> HIDE DEF R
  <2> QED
    BY <2>1, WithoutFirst
<1>3. \A i \in DOMAIN fromMote' : Stale(fromMote'[i])
  <2>1. \A i \in DOMAIN fromMote : Stale(fromMote[i])
    BY DEF Together, OnLink, MayBeStale
  <2>2. \A i \in DOMAIN fromMote' :
          fromMote'[i] = m \/ (i \in DOMAIN fromMote /\ fromMote'[i] = fromMote[i])
    BY LinkIs, WithOne
  <2> QED
    BY <2>1, <2>2
<1>4. MayBeStale'
  BY <1>2, <1>3, LibraryStays DEF Together, OnLink, MayBeStale, Stale
<1>5. MotePhase'
  BY <1>1, LibraryStays DEF Together, MotePhase, Left
<1>6. Timing'
  BY <1>1, TimingStays DEF Quiet
<1> QED
  BY <1>1, <1>4, <1>5, <1>6, LibraryStays DEF Together, OnLink

\* The mote takes the command to boot; what was under way is stale.
LEMMA TogetherBoots ==
  ASSUME SysTypeOK, Together, UNCHANGED vars, state = "RESETTING",
         pending \in Boots, toMote' = <<>>, mote' = "IDLE", svcChanging' = FALSE,
         \A i \in DOMAIN fromMote : Stale(fromMote[i]),
         NEW r \in Message, IsReply(r, pending), r.rc = "OK",
         NEW n \in Message, Reports(n, "IDLE"), fromMote' = fromMote \o <<r, n>>,
         ~Quiet
  PROVE  Together'
<1>1. ~Planned' /\ ~Scheduled("join")' /\ ~Overtaken' /\ ~Unanswered' /\ timer'.armed
  BY LibraryStays
  DEF Together, InPhase, Planned, Overtaken, Unanswered, Boots, Scheduled, None
<1>2. Rebooting' /\ ~Left' /\ ~AwaitsNotice'
  BY LibraryStays DEF Rebooting, Left, AwaitsNotice
<1>3. BootComesLast'
  <2>1. /\ Len(fromMote) \in Nat /\ Len(fromMote') = Len(fromMote) + 2
        /\ DOMAIN fromMote = 1 .. Len(fromMote)
        /\ DOMAIN fromMote' = 1 .. (Len(fromMote) + 2)
        /\ fromMote'[Len(fromMote) + 1] = r /\ fromMote'[Len(fromMote) + 2] = n
        /\ \A i \in DOMAIN fromMote : fromMote'[i] = fromMote[i]
    BY LinkIs, WithTwo
  <2>2. \A i \in DOMAIN fromMote' :
          \/ i \in DOMAIN fromMote /\ i < Len(fromMote') /\ Stale(fromMote'[i])
          \/ i < Len(fromMote') /\ fromMote'[i] = r
          \/ i = Len(fromMote') /\ fromMote'[i] = n
    <3> SUFFICES ASSUME NEW i \in DOMAIN fromMote'
                 PROVE  \/ i \in DOMAIN fromMote /\ i < Len(fromMote') /\ Stale(fromMote'[i])
                        \/ i < Len(fromMote') /\ fromMote'[i] = r
                        \/ i = Len(fromMote') /\ fromMote'[i] = n
      OBVIOUS
    <3>1. i \in DOMAIN fromMote \/ i = Len(fromMote) + 1 \/ i = Len(fromMote) + 2
      BY <2>1
    <3>2. i \in DOMAIN fromMote => i < Len(fromMote')
      BY <2>1
    <3> QED
      BY <2>1, <3>1, <3>2
  <2>3. \A i \in DOMAIN fromMote' :
          \/ i = Len(fromMote') /\ Reports(fromMote'[i], "IDLE")
          \/ /\ i < Len(fromMote')
             /\ \/ Stale(fromMote'[i])
                \/ \E c \in Boots : IsReply(fromMote'[i], c) /\ fromMote'[i].rc = "OK"
    BY <2>2
  <2> QED
    BY <1>1, <2>3 DEF BootComesLast, Stale, Reports, IsReply
<1>4. MotePhase'
  <2>1. state' = "RESETTING" /\ pending' \in Boots
    BY LibraryStays
  <2> QED
    BY <1>1, <2>1 DEF MotePhase, OnNetwork, Boots, Setup
<1>5. Timing'
  <2>1. pending \notin {None, "getMoteStatus"}
    BY DEF Boots, None
  <2> QED
    BY <2>1, TimingStays
<1> QED
  BY <1>2, <1>3, <1>4, <1>5, LibraryStays DEF Together, OnLink

\* The mote takes a command of a library that has given up its network.
LEMMA TogetherLeftTakes ==
  ASSUME SysTypeOK, Together, MoteTakes, Left
  PROVE  Together'
<1> DEFINE R == [cmd : Commands, socket : SocketIds]
<1> DEFINE c == Head(toMote)
<1>0. /\ toMote # <<>> /\ toMote' = Tail(toMote) /\ UNCHANGED vars /\ ~Quiet
  BY DEF MoteTakes, Quiet
<1>1. /\ 1 \in DOMAIN toMote /\ c = toMote[1] /\ c.cmd \in Commands
  <2>1. toMote \in Seq(R) /\ \A i \in DOMAIN toMote : toMote[i].cmd \in Commands
    BY LinkIs
  <2> HIDE DEF R
  <2>2. 1 \in DOMAIN toMote /\ c = toMote[1]
    BY <1>0, <2>1, WithoutFirst
  <2> QED
    BY <2>1, <2>2
<1> HIDE DEF c
<1>2. \/ c.cmd = "getMoteStatus"
      \/ c.cmd \in Boots /\ Len(toMote) = 1 /\ pending = c.cmd
  BY <1>1 DEF Together, OnLink, MayBeStale
<1>3. CASE c.cmd = "getMoteStatus"
  <2> DEFINE m == [Answer(c.cmd, "OK") EXCEPT !.moteState = ReportedState]
  <2>1. fromMote' = Append(fromMote, m) /\ UNCHANGED <<mote, svcChanging>>
    BY <1>3, SMTT(30) DEF c, MoteTakes, QueryCommands, OnGetMoteStatus, OnOpenSocket,
       OnBindSocket, OnParameter, OnSearch,
       OnJoin, OnRequestService, OnGetServiceInfo, OnSendTo, OnReset, moteVars
  <2>2. ReportedState \in MoteStates \ {"IDLE"}
    BY LinkIs, SMTT(30) DEF ReportedState, MoteStates, Left
  <2>3. m \in Message
    BY <1>1, <2>2, MessagesTyped DEF ResponseCodes
  <2>4. Stale(m)
    BY <1>3, <2>2 DEF Stale, IsReply, Answer
  <2> HIDE DEF m
  <2> QED
    BY <1>0, <2>1, <2>3, <2>4, TogetherStatus
<1>4. CASE c.cmd \in Boots /\ Len(toMote) = 1 /\ pending = c.cmd
  <2> DEFINE r == Answer(c.cmd, "OK")
  <2> DEFINE n == Notification("IDLE", {})
  <2>1. fromMote' = fromMote \o <<r, n>> /\ mote' = "IDLE" /\ svcChanging' = FALSE
    BY <1>4 DEF c, MoteTakes, QueryCommands, OnGetMoteStatus, OnOpenSocket, OnBindSocket,
       OnParameter, OnSearch,
       OnJoin, OnRequestService, OnGetServiceInfo, OnSendTo, OnReset, Booted, Boots
  <2>2. toMote' = <<>>
    <3>1. toMote \in Seq(R)
      BY LinkIs
    <3> HIDE DEF R
    <3> QED
      BY <1>0, <1>4, <3>1, OnlyOne
  <2>3. state = "RESETTING"
    <3>1. ~Overtaken /\ ~Unanswered
      BY <1>4 DEF Together, MotePhase, Left, Overtaken, Boots
    <3> QED
      BY <1>1, <1>4, <3>1, HomeOf DEF Together, InPhase, None, Commands
  <2>4. \A i \in DOMAIN fromMote : Stale(fromMote[i])
    BY DEF Together, OnLink, MayBeStale
  <2>5. r \in Message /\ IsReply(r, pending) /\ r.rc = "OK"
    BY <1>1, <1>4, MessagesTyped DEF ResponseCodes, IsReply, Answer
  <2>6. n \in Message /\ Reports(n, "IDLE")
    BY MessagesTyped DEF MoteStates, Reports, Notification
  <2> HIDE DEF r, n
  <2> QED
    BY <1>0, <1>4, <2>1, <2>2, <2>3, <2>4, <2>5, <2>6, TogetherBoots
<1> QED
  BY <1>2, <1>3, <1>4

\* The mote takes the command the library waits for.
LEMMA TogetherTakesPending ==
  ASSUME SysTypeOK, Together, MoteTakes, ~Left
  PROVE  Together'
<1> DEFINE c == Head(toMote)
<1>0. toMote # <<>> /\ toMote' = Tail(toMote) /\ UNCHANGED vars /\ ~Quiet
  BY DEF MoteTakes, Quiet
<1>1. OnlyPending
  BY <1>0 DEF Together, OnLink, BootComesLast, OnlyNotice
<1>2. fromMote = <<>> /\ toMote' = <<>> /\ c.cmd = pending /\ pending \in Commands
      /\ ~Unanswered
  BY <1>0, <1>1, OneOnTheWay
<1>3. ~Overtaken
  BY DEF Together, MotePhase, Overtaken, Left
<1>4. state = Home(pending) /\ pending # "search"
  BY <1>2, <1>3, HomeOf DEF Together, InPhase, InCall, None, Commands
<1>5. CASE pending \in Boots
  <2> DEFINE r == Answer(pending, "OK")
  <2> DEFINE n == Notification("IDLE", {})
  <2>1. fromMote' = fromMote \o <<r, n>> /\ mote' = "IDLE" /\ svcChanging' = FALSE
    BY <1>2, <1>5 DEF MoteTakes, QueryCommands, OnGetMoteStatus, OnOpenSocket, OnBindSocket,
       OnParameter, OnSearch,
       OnJoin, OnRequestService, OnGetServiceInfo, OnSendTo, OnReset, Booted, Boots
  <2>2. state = "RESETTING"
    BY <1>2, <1>4, <1>5, HomeOf
  <2>3. \A i \in DOMAIN fromMote : Stale(fromMote[i])
    BY <1>2, EmptyIs
  <2>4. r \in Message /\ IsReply(r, pending) /\ r.rc = "OK"
    BY <1>2, MessagesTyped DEF ResponseCodes, IsReply, Answer
  <2>5. n \in Message /\ Reports(n, "IDLE")
    BY MessagesTyped DEF MoteStates, Reports, Notification
  <2> HIDE DEF r, n
  <2> QED
    BY <1>0, <1>2, <1>5, <2>1, <2>2, <2>3, <2>4, <2>5, TogetherBoots
<1>6. CASE pending \notin Boots
  <2>1. ~Rebooting
    BY <1>2, <1>4, <1>6, HomeOf DEF Rebooting
  <2>2. PICK m \in Message : fromMote' = Append(fromMote, m) /\ IsReply(m, pending)
    <3> HIDE DEF c
    <3>1. \/ OnGetMoteStatus(c) \/ OnOpenSocket(c) \/ OnBindSocket(c)
          \/ OnParameter(c) \/ OnJoin(c)
          \/ OnRequestService(c) \/ OnGetServiceInfo(c) \/ OnSendTo(c)
      BY <1>2, <1>4, <1>6 DEF c, MoteTakes, OnReset, OnSearch, Boots
    <3>2. \A rc \in ResponseCodes :
            LET m == Answer(pending, rc) IN m \in Message /\ IsReply(m, pending)
      BY <1>2, MessagesTyped DEF IsReply, Answer
    <3>3. CASE OnGetMoteStatus(c)
      <4> DEFINE m == [Answer(c.cmd, "OK") EXCEPT !.moteState = ReportedState]
      <4>1. ReportedState \in MoteStates
        BY LinkIs, SMTT(30) DEF ReportedState, MoteStates
      <4>2. m \in Message
        BY <1>2, <4>1, MessagesTyped, ZenonT(30) DEF c, ResponseCodes
      <4>3. IsReply(m, pending)
        BY <1>2 DEF c, IsReply, Answer
      <4> QED
        BY <3>3, <4>2, <4>3 DEF OnGetMoteStatus
    <3>4. CASE OnOpenSocket(c)
      <4>1. \A s \in SocketIds : LET m == [Answer(pending, "OK") EXCEPT !.id = s] IN
              m \in Message /\ IsReply(m, pending)
        BY <1>2, MessagesTyped DEF IsReply, Answer, ResponseCodes
      <4>2. "NO_RESOURCES" \in ResponseCodes /\ c.cmd = pending
        BY <1>2 DEF c, ResponseCodes
      <4> QED
        BY <3>2, <3>4, <4>1, <4>2 DEF OnOpenSocket, FreeSockets
    <3>5. CASE OnBindSocket(c)
      <4>1. BindResult(c.socket) \in ResponseCodes /\ c.cmd = pending
        BY <1>2 DEF c, ResponseCodes, BindResult
      <4> QED
        BY <3>2, <3>5, <4>1 DEF OnBindSocket
    <3>6. CASE OnParameter(c)
      <4>1. {"OK", "ERROR"} \subseteq ResponseCodes /\ c.cmd = pending
        BY <1>2 DEF c, ResponseCodes
      <4> QED
        BY <3>2, <3>6, <4>1 DEF OnParameter
    <3>7. CASE OnJoin(c) \/ OnRequestService(c) \/ OnSendTo(c)
      <4>1. c.cmd = pending
            /\ {"OK", "INVALID_STATE", "NOT_FOUND"} \subseteq ResponseCodes
        BY <1>2 DEF c, ResponseCodes
      <4> QED
        BY <3>2, <3>7, <4>1 DEF OnJoin, OnRequestService, OnSendTo
    <3>8. CASE OnGetServiceInfo(c)
      <4> DEFINE rc == IF mote = "OPERATIONAL" THEN "OK" ELSE "INVALID_STATE"
      <4> DEFINE m == [Answer(c.cmd, rc)
                         EXCEPT !.completed = ~svcChanging, !.granted = service_ms]
      <4>1. service_ms \in Services /\ (~svcChanging) \in BOOLEAN /\ c.cmd = pending
        BY <1>2, SMTT(30) DEF c, SysTypeOK, TypeOK
      <4>2. m \in Message
        BY <1>2, <4>1, MessagesTyped DEF ResponseCodes
      <4>3. IsReply(m, pending)
        BY <4>1 DEF IsReply, Answer
      <4> QED
        BY <3>8, <4>2, <4>3 DEF OnGetServiceInfo
    <3> QED
      BY <3>1, <3>3, <3>4, <3>5, <3>6, <3>7, <3>8
  <2>3. /\ mote' = mote \/ (pending = "join" /\ mote' = "JOINING")
        /\ svcChanging' = svcChanging \/ (pending = "requestService" /\ mote = "OPERATIONAL")
    BY <1>2, <1>4, <1>6 DEF MoteTakes, QueryCommands, OnGetMoteStatus, OnOpenSocket, OnBindSocket,
       OnParameter, OnSearch,
       OnJoin, OnRequestService, OnGetServiceInfo, OnSendTo, OnReset, Boots, moteVars
  <2> QED
    BY <1>0, <1>2, <2>1, <2>2, <2>3, TogetherAnswered
<1> QED
  BY <1>5, <1>6

\* The mote reports that it has joined, or that its service has changed, to a
\* library that waits for it or has given up.
LEMMA TogetherReports ==
  ASSUME SysTypeOK, Together, UNCHANGED vars, mote # "IDLE", mote' = "OPERATIONAL",
         svcChanging' => svcChanging /\ Left, toMote' = toMote,
         NEW m \in Message, Reports(m, "OPERATIONAL"), fromMote' = Append(fromMote, m),
         ~Quiet, pending # "join", ~Scheduled("join"),
         \/ Left
         \/ toMote = <<>> /\ fromMote = <<>> /\ state = "JOINING"
         \/ /\ toMote = <<>> /\ fromMote = <<>> /\ state = "REQ_SERVICE"
            /\ pending = None /\ ~timer.armed,
         pending \notin Setup /\ ~(Planned /\ timer.cb \in Setup),
         ~Unanswered
  PROVE  Together'
<1>1. ~Rebooting' /\ (Left' <=> Left)
  BY LibraryStays DEF Left, Rebooting
<1>2. MotePhase'
  BY <1>1, LibraryStays DEF Together, MotePhase, Scheduled
<1>3. Timing'
  BY <1>1, TimingStays
<1>4. /\ Len(fromMote') = Len(fromMote) + 1
      /\ \A i \in DOMAIN fromMote' :
           fromMote'[i] = m \/ (i \in DOMAIN fromMote /\ fromMote'[i] = fromMote[i])
  BY LinkIs, WithOne
<1>5. CASE Left
  <2>1. ~AwaitsNotice'
    BY <1>5, LibraryStays DEF Left, AwaitsNotice
  <2>2. MayBeStale'
    BY <1>4, <1>5, LibraryStays DEF Together, OnLink, MayBeStale, Stale, Reports, IsReply
  <2> QED
    BY <1>1, <1>2, <1>3, <1>5, <2>1, <2>2, LibraryStays DEF Together, OnLink
<1>6. CASE ~Left
  <2>1. AwaitsNotice'
    BY <1>6, LibraryStays DEF AwaitsNotice
  <2>2. OnlyNotice'
    <3>1. toMote' = <<>> /\ Len(fromMote') = 1
      BY <1>4, <1>6, LinkIs
    <3>2. \A i \in DOMAIN fromMote' : fromMote'[i] = m
      BY <1>4, <1>6, EmptyIs
    <3> QED
      BY <3>1, <3>2 DEF OnlyNotice, Reports
  <2> QED
    BY <1>1, <1>2, <1>3, <1>6, <2>1, <2>2, LibraryStays DEF Together, OnLink
<1> QED
  BY <1>5, <1>6

\* The mote does something on its own.
LEMMA TogetherMoteActs ==
  ASSUME SysTypeOK, Together, Steady, MoteJoins \/ ServiceChanges \/ MoteHears \/ MoteRestarts
  PROVE  Together'
<1> DEFINE e == IF MoteJoins THEN "OPERATIONAL" ELSE "SVC_CHANGE"
<1> DEFINE m == Notification("OPERATIONAL", {e})
<1>1. ~MoteHears /\ ~MoteRestarts
  <2>1. ~MoteHears
    BY DEF MoteHears, SearchEnds, Together, InCall
  <2>2. ~MoteRestarts
    <3>1. restarts \in 0 .. 0 /\ MaxRestarts = 0
      BY DEF SysTypeOK, Steady
    <3> QED
      BY <3>1 DEF MoteRestarts
  <2> QED
    BY <2>1, <2>2
<1>2. m \in Message /\ Reports(m, "OPERATIONAL")
  BY MessagesTyped DEF MoteStates, MoteEvents, Notification, Reports
<1>3. CASE MoteJoins
  <2>1. /\ mote = "JOINING" /\ pending # "join" /\ mote' = "OPERATIONAL" /\ UNCHANGED vars
        /\ fromMote' = Append(fromMote, m) /\ toMote' = toMote /\ svcChanging' = svcChanging
        /\ ~Quiet
    BY <1>3 DEF MoteJoins, JoinEnds, Says, Quiet
  <2>2. ~svcChanging /\ ~Scheduled("join") /\ state \notin OnNetwork /\ ~Unanswered
        /\ pending \notin Setup /\ ~(Planned /\ timer.cb \in Setup)
        /\ state \notin {"NOT_INITIALIZED", "PROMISCUOUS"}
    BY <2>1 DEF Together, MotePhase, InCall
  <2>3. state \in States
    BY DEF SysTypeOK, TypeOK
  <2>4. Left \/ state = "JOINING"
    BY <2>1, <2>2, <2>3 DEF Left, OnNetwork, States, ConnectingStates
  <2>5. ASSUME state = "JOINING" PROVE toMote = <<>> /\ fromMote = <<>>
    <3>1. ~Left /\ ~Rebooting /\ ~AwaitsNotice
      BY <2>1, <2>5 DEF Left, Rebooting, AwaitsNotice
    <3>2. pending = None
      <4>1. pending \in Commands \cup {None}
        BY DEF SysTypeOK, TypeOK
      <4> QED
        BY <2>1, <2>5, <4>1, HomeOf DEF Together, InPhase, Overtaken, Unanswered
    <3> QED
      BY <3>1, <3>2, FreeIsEmpty DEF Together, OnLink
  <2> HIDE DEF m
  <2> QED
    BY <1>2, <2>1, <2>2, <2>4, <2>5, TogetherReports
<1>4. CASE ServiceChanges /\ ~MoteJoins
  <2>1. /\ svcChanging /\ pending # "requestService" /\ mote' = mote /\ ~svcChanging' /\ UNCHANGED vars
        /\ fromMote' = Append(fromMote, m) /\ toMote' = toMote
        /\ ~Quiet
    BY <1>4 DEF ServiceChanges, ServiceEnds, Says, Quiet
  <2>2. mote = "OPERATIONAL" /\ pending # "join" /\ ~Scheduled("join") /\ ~Unanswered
        /\ pending \notin Setup /\ ~(Planned /\ timer.cb \in Setup)
    BY <2>1 DEF Together, MotePhase
  <2>3. \/ Left
        \/ state = "REQ_SERVICE" /\ pending = None /\ ~timer.armed /\ fromMote = <<>>
    BY <2>1 DEF Together, MotePhase
  <2>4. ASSUME state = "REQ_SERVICE", pending = None, ~timer.armed PROVE toMote = <<>>
    BY <2>4 DEF Together, OnLink, AwaitsNotice, OnlyNotice
  <2> HIDE DEF m
  <2> QED
    BY <1>2, <2>1, <2>2, <2>3, <2>4, TogetherReports
<1> QED
  BY <1>1, <1>3, <1>4

-----------------------------------------------------------------------------
(* The link.                                                                *)

\* The first frame from the mote leaves the link: what is behind it moves up.
LEMMA MovesUp ==
  ASSUME SysTypeOK, fromMote # <<>>, fromMote' = Tail(fromMote)
  PROVE  /\ 1 \in DOMAIN fromMote /\ Head(fromMote) = fromMote[1]
         /\ Head(fromMote) \in Message
         /\ Len(fromMote') = Len(fromMote) - 1 /\ Len(fromMote) \in Nat \ {0}
         /\ \A i \in DOMAIN fromMote' :
              /\ i + 1 \in DOMAIN fromMote /\ fromMote'[i] = fromMote[i + 1]
              /\ i + 1 = Len(fromMote) <=> i = Len(fromMote')
              /\ i + 1 < Len(fromMote) <=> i < Len(fromMote')
BY LinkIs, WithoutFirst

\* A sequence that stays, or loses its first element.
LEMMA StaysOrShortens ==
  ASSUME NEW S, NEW s \in Seq(S), NEW t,
         t = s \/ (s # <<>> /\ t = Tail(s))
  PROVE  /\ \A i \in DOMAIN t :
              \/ i \in DOMAIN s /\ t[i] = s[i] /\ t = s
              \/ /\ i + 1 \in DOMAIN s /\ t[i] = s[i + 1]
                 /\ i + 1 = Len(s) <=> i = Len(t)
                 /\ i + 1 < Len(s) <=> i < Len(t)
         /\ Len(t) \in Nat /\ Len(t) <= Len(s)
         /\ s = <<>> => t = <<>>
<1>1. CASE t = s
  BY <1>1
<1>2. CASE s # <<>> /\ t = Tail(s)
  <2>1. /\ Len(s) \in Nat \ {0} /\ Len(t) = Len(s) - 1 /\ DOMAIN t = 1 .. (Len(s) - 1)
        /\ \A i \in DOMAIN t : i + 1 \in DOMAIN s /\ t[i] = s[i + 1]
    BY <1>2, WithoutFirst
  <2>2. ASSUME NEW i \in DOMAIN t
        PROVE  /\ i + 1 = Len(s) <=> i = Len(t)
               /\ i + 1 < Len(s) <=> i < Len(t)
    BY <2>1
  <2>3. Len(t) \in Nat /\ Len(t) <= Len(s)
    BY <2>1
  <2> QED
    BY <1>2, <2>1, <2>2, <2>3, Zenon
<1> QED
  BY <1>1, <1>2

\* The shapes of the link stay when its first frame is lost, or ignored.
LEMMA TogetherDrops ==
  ASSUME SysTypeOK, Together, UNCHANGED <<vars, mote, svcChanging>>,
         \/ toMote # <<>> /\ toMote' = Tail(toMote) /\ fromMote' = fromMote
         \/ fromMote # <<>> /\ fromMote' = Tail(fromMote) /\ toMote' = toMote
  PROVE  Together'
<1>1. /\ UNCHANGED <<vars, mote, svcChanging>> /\ ~Quiet
      /\ \/ toMote # <<>> /\ toMote' = Tail(toMote) /\ fromMote' = fromMote
         \/ fromMote # <<>> /\ fromMote' = Tail(fromMote) /\ toMote' = toMote
  BY DEF Quiet
<1>2. /\ (Left' <=> Left) /\ (Rebooting' <=> Rebooting) /\ (AwaitsNotice' <=> AwaitsNotice)
  BY <1>1, LibraryStays DEF Left, Rebooting, AwaitsNotice
<1>3. Timing'
  BY <1>1, <1>2, TimingStays
<1>4. MotePhase'
  <2>1. fromMote = <<>> => fromMote' = <<>>
    BY <1>1
  <2> QED
    BY <1>1, <1>2, <2>1, LibraryStays DEF Together, MotePhase
<1>5. UNCHANGED <<pending>> /\ (Unanswered' <=> Unanswered) /\ (Planned' <=> Planned)
  BY <1>1, LibraryStays
<1>6. /\ \A i \in DOMAIN toMote' :
           \/ i \in DOMAIN toMote /\ toMote'[i] = toMote[i] /\ toMote' = toMote
           \/ /\ i + 1 \in DOMAIN toMote /\ toMote'[i] = toMote[i + 1]
              /\ i + 1 = Len(toMote) <=> i = Len(toMote')
              /\ i + 1 < Len(toMote) <=> i < Len(toMote')
      /\ Len(toMote') \in Nat /\ Len(toMote') <= Len(toMote)
      /\ toMote = <<>> => toMote' = <<>>
  <2> DEFINE R == [cmd : Commands, socket : SocketIds]
  <2>1. toMote \in Seq(R)
    BY LinkIs
  <2> HIDE DEF R
  <2> QED
    BY <1>1, <2>1, StaysOrShortens
<1>7. /\ \A i \in DOMAIN fromMote' :
           \/ i \in DOMAIN fromMote /\ fromMote'[i] = fromMote[i] /\ fromMote' = fromMote
           \/ /\ i + 1 \in DOMAIN fromMote /\ fromMote'[i] = fromMote[i + 1]
              /\ i + 1 = Len(fromMote) <=> i = Len(fromMote')
              /\ i + 1 < Len(fromMote) <=> i < Len(fromMote')
      /\ Len(fromMote') \in Nat /\ Len(fromMote') <= Len(fromMote)
      /\ fromMote = <<>> => fromMote' = <<>>
  <2>1. fromMote \in Seq(Message)
    BY LinkIs
  <2> QED
    BY <1>1, <2>1, StaysOrShortens
<1>8. ASSUME OnlyPending PROVE OnlyPending'
  <2>1. Len(toMote') + Len(fromMote') <= 1
    BY <1>6, <1>7, <1>8, LinkIs DEF OnlyPending
  <2>2. \A i \in DOMAIN toMote' : toMote'[i].cmd = pending /\ ~Unanswered
    BY <1>6, <1>8 DEF OnlyPending
  <2>3. \A i \in DOMAIN fromMote' : IsReply(fromMote'[i], pending) /\ ~Unanswered
    BY <1>7, <1>8 DEF OnlyPending
  <2> QED
    BY <1>5, <2>1, <2>2, <2>3 DEF OnlyPending, IsReply
<1>9. ASSUME MayBeStale PROVE MayBeStale'
  <2>1. \A i \in DOMAIN toMote' :
          \/ toMote'[i].cmd = "getMoteStatus"
          \/ toMote'[i].cmd \in Boots /\ i = Len(toMote') /\ pending = toMote'[i].cmd
    BY <1>6, <1>9 DEF MayBeStale
  <2>2. \A i \in DOMAIN fromMote' : Stale(fromMote'[i])
    BY <1>7, <1>9 DEF MayBeStale
  <2> QED
    BY <1>5, <2>1, <2>2 DEF MayBeStale, Stale, IsReply, Reports
<1>10. ASSUME BootComesLast PROVE BootComesLast'
  <2>1. \A i \in DOMAIN fromMote' :
          \/ i = Len(fromMote') /\ Reports(fromMote'[i], "IDLE")
          \/ /\ i < Len(fromMote')
             /\ \/ Stale(fromMote'[i])
                \/ \E c \in Boots : IsReply(fromMote'[i], c) /\ fromMote'[i].rc = "OK"
    BY <1>7, <1>10 DEF BootComesLast
  <2>2. toMote' = <<>> /\ (Planned' => fromMote' = <<>>)
    BY <1>5, <1>6, <1>7, <1>10 DEF BootComesLast
  <2> QED
    BY <2>1, <2>2 DEF BootComesLast, Stale, IsReply, Reports
<1>11. ASSUME OnlyNotice PROVE OnlyNotice'
  <2>1. \A i \in DOMAIN fromMote' : Reports(fromMote'[i], "OPERATIONAL")
    BY <1>7, <1>11 DEF OnlyNotice
  <2>2. toMote' = <<>> /\ Len(fromMote') <= 1
    BY <1>6, <1>7, <1>11, LinkIs DEF OnlyNotice
  <2> QED
    BY <2>1, <2>2 DEF OnlyNotice, Reports
<1>12. OnLink'
  BY <1>2, <1>8, <1>9, <1>10, <1>11 DEF Together, OnLink
<1> QED
  BY <1>1, <1>3, <1>4, <1>12, LibraryStays DEF Together

\* A frame is lost.
LEMMA TogetherLose ==
  ASSUME SysTypeOK, Together, Lose
  PROVE  Together'
<1>1. /\ UNCHANGED <<vars, mote, svcChanging>>
      /\ \/ toMote # <<>> /\ toMote' = Tail(toMote) /\ fromMote' = fromMote
         \/ fromMote # <<>> /\ fromMote' = Tail(fromMote) /\ toMote' = toMote
  BY DEF Lose, moteVars
<1> QED
  BY <1>1, TogetherDrops

-----------------------------------------------------------------------------
(* The callbacks of the library.                                            *)

\* Nothing is under way any more.
LEMMA EmptyLink ==
  ASSUME toMote' = <<>>, fromMote' = <<>>
  PROVE  OnLink'
<1>1. /\ Len(toMote') = 0 /\ DOMAIN toMote' = {}
      /\ Len(fromMote') = 0 /\ DOMAIN fromMote' = {}
  BY EmptyIs
<1>2. OnlyPending' /\ MayBeStale' /\ OnlyNotice'
  BY <1>1 DEF OnlyPending, MayBeStale, OnlyNotice
<1> QED
  BY <1>2 DEF OnLink

\* What a delivery leaves as it is.
LEMMA DeliverKeeps ==
  ASSUME Deliver
  PROVE  /\ fromMote # <<>> /\ fromMote' = Tail(fromMote) /\ ~Quiet
         /\ UNCHANGED <<toMote, mote, svcChanging, pc, api, cmdAge>>
         /\ CmdLimit' = CmdLimit
<1>1. /\ fromMote # <<>> /\ fromMote' = Tail(fromMote)
      /\ UNCHANGED <<toMote, mote, svcChanging>>
  BY DEF Deliver, Idling, moteVars
<1>2. UNCHANGED callVars
  BY DEF Deliver, ReplyCb, NotifEvents, NotifAdvReceived, vars
<1> QED
  BY <1>1, <1>2 DEF callVars, CmdLimit, Quiet

\* Where the reply to the outstanding command takes the machine.
Follows ==
  \/ state' = state /\ ~timer'.armed /\ state \in {"RESETTING", "JOINING", "REQ_SERVICE"}
  \/ /\ state' = state /\ timer'.armed /\ state = Home(timer'.cb)
     /\ \/ timer'.cb = "reset"
        \/ timer'.cb = "getServiceInfo" /\ pending = "getServiceInfo"
        \/ timer'.cb \in Setup /\ mote = "IDLE"
  \/ /\ state \in ConnectingStates /\ state' = "RESETTING"
     /\ timer'.armed /\ timer'.cb \in Boots
  \/ /\ state \in ConnectingStates /\ mote = "IDLE" /\ state' = "JOINING"
     /\ timer'.armed /\ timer'.cb = "join"
  \/ /\ state \in ConnectingStates \/ pending \in Asking
     /\ state' = "DISCONNECTED" /\ ~timer'.armed
  \/ /\ state \in OnNetwork /\ pending # "requestService"
     /\ state' = "CONNECTED" /\ ~timer'.armed
  \/ state = "SENDING" /\ state' = "SEND_FAILED" /\ ~timer'.armed

\* The reply to the outstanding command is parsed by its own reply function.
LEMMA FollowsReply ==
  ASSUME SysTypeOK, Together, ~Left, state = Home(pending), replyCb = pending,
         NEW rc, NEW moteState, NEW id, NEW completed, NEW granted,
         ReplyCb(rc, moteState, id, completed, granted)
  PROVE  Follows
<1> USE DEF Enter, EnterState, EntryTimer, CancelEvent, Wait, Proceed, Stay, ScheduleEvent
<1>1. /\ pending \in Commands /\ pending # "search" /\ Reply(rc, moteState, id, completed, granted)
      /\ pending \in Setup => mote = "IDLE"
      /\ state \in ConnectingStates => networkId # PromiscuousId
      /\ state = "PRE_JOIN" => mote = "IDLE"
  BY HomeOf DEF ReplyCb, SysTypeOK, TypeOK, Together, InCall, MotePhase, Named, ConnectingStates, Left
<1>2. CASE pending \in Boots
  <2>1. state = "RESETTING"
    BY <1>1, <1>2, HomeOf
  <2> QED
    BY <1>1, <1>2, <2>1 DEF Follows, Reply, ReplyReset, ReplyDisconnect, Boots, ConnectingStates, Home, Chain
<1>3. CASE pending \in Chain
  <2>1. state = "PRE_JOIN"
    BY <1>1, <1>3, HomeOf
  <2>2. \A c \in Setup : Home(c) = "PRE_JOIN"
    BY DEF Setup, Home, Chain
  <2>3. mote = "IDLE" /\ networkId # PromiscuousId
    BY <1>1, <2>1 DEF ConnectingStates
  <2>4. \/ \E c \in Setup : Proceed(c)
        \/ Enter("RESETTING") \/ Enter("JOINING") \/ Enter("DISCONNECTED")
    BY <1>1, <1>3, <2>3 DEF Reply, ReplyGetMoteStatus, ReplyOpenSocket, ReplyBindSocket,
       ReplySetJoinKey, ReplySetNetworkId, Chain, Setup
  <2> QED
    BY <2>1, <2>2, <2>3, <2>4 DEF Follows, ConnectingStates, Boots
<1>4. CASE pending = "join"
  <2>1. state = "JOINING"
    BY <1>1, <1>4, HomeOf
  <2> QED
    BY <1>1, <1>4, <2>1 DEF Follows, Reply, ReplyJoin, ConnectingStates, Boots
<1>5. CASE pending \in {"requestService", "getServiceInfo"}
  <2>1. state = "REQ_SERVICE"
    BY <1>1, <1>5, HomeOf
  <2> QED
    BY <1>1, <1>5, <2>1 DEF Follows, Reply, ReplyRequestService, ReplyGetServiceInfo,
       ConnectingStates, OnNetwork, Home, Chain
<1>6. CASE pending = "sendTo"
  <2>1. state = "SENDING"
    BY <1>1, <1>6, HomeOf
  <2> QED
    BY <1>1, <1>6, <2>1 DEF Follows, Reply, ReplySendTo, OnNetwork
<1>7. CASE pending \in Asking
  <2>1. state = "CONNECTED"
    BY <1>1, <1>7, HomeOf
  <2> QED
    BY <1>1, <1>7, <2>1 DEF Follows, Reply, ReplyGetTime, ReplySetTxPower, OnNetwork, Asking
<1> QED
  BY <1>1, <1>2, <1>3, <1>4, <1>5, <1>6, <1>7 DEF Commands, Boots, Chain, Asking

\* The answer to the outstanding command has come, and nothing else is under way.
LEMMA TogetherReply ==
  ASSUME SysTypeOK, Together, Deliver, ~Left, OnlyPending, Follows,
         pending # None, pending' = None, UNCHANGED networkId
  PROVE  Together'
<1>1. toMote' = <<>> /\ fromMote' = <<>> /\ ~Quiet
      /\ UNCHANGED <<mote, svcChanging, pc, api, cmdAge>> /\ CmdLimit' = CmdLimit
  BY DeliverKeeps, OneComesBack
<1>2. pc \in {"test", "run"} /\ api \in Apis
  BY DEF Together, InCall, SysTypeOK, TypeOK
<1>3. InCall'
  <2>1. state \in ConnectingStates => api = "connect"
    BY <1>2 DEF Together, InCall, Apis, Asking, ConnectingStates
  <2>2. state = "SENDING" => api = "send"
    BY <1>2 DEF Together, InCall, Apis, Asking, ConnectingStates
  <2>3. state \in OnNetwork => state = "REQ_SERVICE" \/ state \in {"CONNECTED", "SENDING", "SEND_FAILED"}
    BY DEF OnNetwork
  <2>4. state' # "PROMISCUOUS"
    BY DEF Follows, Together, InCall
  <2>5. api = "connect" => state' \in ConnectingStates \cup {"CONNECTED", "DISCONNECTED"}
    BY DEF Follows, Together, InCall, ConnectingStates
  <2>6. api = "send" => state' \in {"SENDING", "SEND_FAILED", "CONNECTED"}
    <3>1. api = "send" => state \notin ConnectingStates /\ pending \notin Asking
      BY <2>1 DEF Together, InCall, Asking
    <3> QED
      BY <3>1 DEF Follows, Together, InCall, ConnectingStates
  <2>7. api \in Asking => state' \in {"CONNECTED", "DISCONNECTED"}
    BY <2>1, <2>2 DEF Follows, Together, InCall, ConnectingStates, Asking
  <2> QED
    BY <1>1, <1>2, <2>4, <2>5, <2>6, <2>7 DEF InCall, Apis, None, Asking
<1>4. InPhase'
  <2>1. Planned' => state' = Home(timer'.cb)
    BY DEF Follows, Planned, Home, Boots, Chain
  <2>2. ~Scheduled("responseTimeout")'
    BY DEF Follows, Scheduled, Boots, Setup
  <2>3. state' = "PRE_JOIN" => timer'.armed
    BY DEF Follows
  <2> QED
    BY <2>1, <2>2, <2>3 DEF InPhase
<1>5. MotePhase'
  <2>1. ~Overtaken' /\ ~Unanswered' /\ pending' \notin Setup /\ pending' # "join"
    BY DEF Overtaken, Unanswered, Setup, Boots, None
  <2>2. state' \in OnNetwork => mote = "OPERATIONAL"
    BY DEF Follows, OnNetwork, Together, MotePhase
  <2>3. /\ Planned' /\ timer'.cb \in Setup => mote = "IDLE"
        /\ Scheduled("join")' => mote = "IDLE"
        /\ state' # "NOT_INITIALIZED"
    BY DEF Follows, Planned, Setup, Boots, Scheduled, Home, Chain
  <2>4. ASSUME svcChanging
        PROVE  /\ mote = "OPERATIONAL"
               /\ \/ Left'
                  \/ state' = "REQ_SERVICE" /\ ~timer'.armed
    <3>1. mote = "OPERATIONAL" /\ state = "REQ_SERVICE" /\ pending = "requestService"
      BY <2>4 DEF Together, MotePhase
    <3> QED
      BY <1>1, <3>1 DEF Follows, Left, Home, Chain
  <2> QED
    BY <1>1, <2>1, <2>2, <2>3, <2>4 DEF Together, MotePhase
<1>6. Timing'
  <2>1. ~Scheduled("responseTimeout")'
    BY DEF Follows, Scheduled, Boots, Setup
  <2> QED
    BY <1>1, <2>1 DEF Together, Timing
<1>7. Named'
  BY DEF Together, Named, Follows, ConnectingStates, OnNetwork
<1> QED
  BY <1>1, <1>3, <1>4, <1>5, <1>6, <1>7, EmptyLink DEF Together

\* What is left of a link that may hold stale frames may be stale.
LEMMA StillStale ==
  ASSUME SysTypeOK, Together, Left, Deliver, pending' \in {pending, None},
         pending' # pending => pending \notin Boots
  PROVE  MayBeStale' /\ Stale(Head(fromMote))
<1>1. fromMote # <<>> /\ fromMote' = Tail(fromMote) /\ toMote' = toMote
  BY DeliverKeeps
<1>2. MayBeStale
  BY DEF Together, OnLink
<1>3. \A i \in DOMAIN fromMote' : Stale(fromMote'[i])
  BY <1>1, <1>2, MovesUp DEF MayBeStale
<1>4. \A i \in DOMAIN toMote :
        \/ toMote[i].cmd = "getMoteStatus"
        \/ toMote[i].cmd \in Boots /\ i = Len(toMote) /\ pending' = toMote[i].cmd
  BY <1>2 DEF MayBeStale
<1>5. MayBeStale'
  BY <1>1, <1>3, <1>4 DEF MayBeStale, Stale, IsReply, Reports
<1> QED
  BY <1>1, <1>2, <1>5, MovesUp DEF MayBeStale

\* A library that is giving up its network goes on to make the mote boot, or
\* gives up altogether.
LEMMA TogetherLeaves ==
  ASSUME SysTypeOK, Together, Left, Deliver, UNCHANGED networkId, pc # "return", api # None,
         state \in {"PRE_JOIN", "RESETTING"},
         \/ state' = "RESETTING" /\ ~timer'.armed /\ pending' = None
         \/ state' = "RESETTING" /\ timer'.armed /\ timer'.cb \in Boots
         \/ state' = "DISCONNECTED" /\ ~timer'.armed /\ pending' = None,
         pending \in {None, "getMoteStatus"}, pending' \in {pending, None},
         pending' # None => replyCb' = "getMoteStatus"
  PROVE  Together'
<1>1. /\ ~Quiet /\ UNCHANGED <<mote, svcChanging, pc, api, cmdAge>> /\ CmdLimit' = CmdLimit
  BY DeliverKeeps
<1>2. Left' /\ ~Rebooting' /\ ~AwaitsNotice'
  BY <1>1 DEF Left, Rebooting, AwaitsNotice
<1>3. MayBeStale'
  BY StillStale DEF Boots, None
<1>4. api = "connect" /\ api \in Apis
  BY DEF SysTypeOK, TypeOK, Together, InCall, Apis, Asking
<1>5. InCall'
  BY <1>1, <1>4 DEF Together, InCall, ConnectingStates, Asking, None
<1>6. InPhase'
  BY DEF InPhase, Planned, Overtaken, Scheduled, Home, Chain, Boots, None
<1>7. MotePhase'
  <2>1. ~(Planned' /\ timer'.cb \in Setup) /\ ~Scheduled("join")' /\ ~Unanswered'
    BY DEF Planned, Setup, Boots, Scheduled, Unanswered, None
  <2>2. pending' \notin Setup /\ pending' # "join" /\ state' \notin OnNetwork
    BY DEF Setup, None, OnNetwork
  <2>3. mote # "IDLE"
    BY DEF Left
  <2> QED
    BY <1>1, <1>2, <2>1, <2>2, <2>3 DEF Together, MotePhase
<1>8. Timing'
  <2>1. ~Scheduled("responseTimeout")'
    BY DEF Scheduled, Boots
  <2> QED
    BY <1>1, <1>2, <2>1 DEF Together, Timing
<1>9. Named'
  BY DEF Together, Named
<1> QED
  BY <1>2, <1>3, <1>5, <1>6, <1>7, <1>8, <1>9 DEF Together, OnLink

\* A late answer reaches a library that has given up its network.
LEMMA TogetherLeftReply ==
  ASSUME SysTypeOK, Together, Left, Deliver, Head(fromMote).kind = "reply",
         Head(fromMote).cmd = pending, pending \in Commands
  PROVE  Together'
<1> DEFINE m == Head(fromMote)
<1>1. PICK moteState \in MoteStates, id \in SocketIds,
           completed \in BOOLEAN, granted \in Services :
        /\ replyCb = m.cmd => moteState = m.moteState
        /\ ReplyCb(m.rc, moteState, id, completed, granted)
  BY DEF Deliver
<1>2. Stale(m)
  BY DeliverKeeps, MovesUp DEF Together, OnLink, MayBeStale
<1>3. pending = "getMoteStatus" /\ m.moteState # "IDLE"
  BY <1>2 DEF Stale, IsReply, Reports
<1>4. /\ state \in {"PRE_JOIN", "RESETTING"}
      /\ \/ replyCb = "getMoteStatus"
         \/ replyCb \in Boots /\ state = "RESETTING"
  BY <1>3 DEF Together, InPhase, Home, Chain, Overtaken, Unanswered, Boots, None
<1>5. pc # "return" /\ api # None
  BY <1>3 DEF Together, InCall, SysTypeOK, TypeOK, None
<1>6. /\ pending' = None /\ UNCHANGED networkId
      /\ Reply(m.rc, moteState, id, completed, granted)
  BY <1>1 DEF ReplyCb, confVars
<1>7. \/ state' = "RESETTING" /\ ~timer'.armed /\ pending' = None
      \/ state' = "RESETTING" /\ timer'.armed /\ timer'.cb \in Boots
      \/ state' = "DISCONNECTED" /\ ~timer'.armed /\ pending' = None
  BY <1>1, <1>3, <1>4, <1>6
  DEF Reply, ReplyGetMoteStatus, ReplyReset, ReplyDisconnect, Enter, EnterState, EntryTimer,
      Wait, Proceed, Stay, CancelEvent, ScheduleEvent, Boots
<1> QED
  BY <1>3, <1>4, <1>5, <1>6, <1>7, TogetherLeaves

\* A late report reaches a library that has given up its network.
LEMMA TogetherLeftReport ==
  ASSUME SysTypeOK, Together, Left, Deliver, Head(fromMote).kind = "events"
  PROVE  Together'
<1> DEFINE m == Head(fromMote)
<1>1. NotifEvents(m.moteState, m.events)
  BY DEF Deliver
<1>2. UNCHANGED libVars /\ UNCHANGED <<networkId, dataVars, callVars, confVars>>
  BY <1>1 DEF NotifEvents, confVars
<1>3. Stale(m)
  BY <1>2, StillStale DEF libVars
<1>4. m.moteState = "OPERATIONAL" /\ ~ExpectedEvent(m.events)
  BY <1>3 DEF Stale, IsReply, Reports, ExpectedEvent, Left
<1>5. CASE state = "PRE_JOIN"
  <2>1. /\ state' = "RESETTING" /\ timer'.armed /\ timer'.cb \in Boots
    BY <1>1, <1>4, <1>5
    DEF NotifEvents, StateOn, EnterState, EntryTimer, ScheduleEvent, Boots, ConnectingStates, None
  <2>2. pc # "return" /\ api # None
    BY <1>5 DEF Together, InCall, SysTypeOK, TypeOK, ConnectingStates, Apis, Asking
  <2>3. pending \in {None, "getMoteStatus"} /\ (pending # None => replyCb = "getMoteStatus")
    <3>1. ~Unanswered /\ ~Overtaken /\ pending \notin Setup
      BY <1>5 DEF Together, MotePhase, Left, Overtaken
    <3>2. pending \in Commands \cup {None}
      BY DEF SysTypeOK, TypeOK
    <3> QED
      BY <1>5, <3>1, <3>2, HomeOf DEF Together, InPhase, Chain, Setup
  <2> QED
    BY <1>2, <1>5, <2>1, <2>2, <2>3, TogetherLeaves DEF libVars
<1>6. CASE state # "PRE_JOIN"
  <2>1. UNCHANGED vars
    BY <1>1, <1>2, <1>4, <1>6
    DEF NotifEvents, StateOn, Stay, Left, None, vars, fsmVars
  <2> QED
    BY <2>1, DeliverKeeps, TogetherDrops
<1> QED
  BY <1>5, <1>6

\* The mote has taken the command to boot, and its answer comes in.
LEMMA TogetherBootAnswered ==
  ASSUME SysTypeOK, Together, Rebooting, BootComesLast, Deliver,
         Head(fromMote).kind = "reply", Head(fromMote).cmd = pending, pending \in Commands
  PROVE  Together'
<1> DEFINE m == Head(fromMote)
<1>0. /\ fromMote # <<>> /\ fromMote' = Tail(fromMote) /\ ~Quiet /\ ~Left
      /\ UNCHANGED <<toMote, mote, svcChanging, pc, api, cmdAge>> /\ CmdLimit' = CmdLimit
  BY DeliverKeeps DEF Rebooting, Left
<1>1. PICK moteState \in MoteStates, id \in SocketIds,
           completed \in BOOLEAN, granted \in Services :
        ReplyCb(m.rc, moteState, id, completed, granted)
  BY DEF Deliver
<1>2. ~Overtaken /\ ~Unanswered
  BY DEF Together, MotePhase, Rebooting, Overtaken, Unanswered
<1>3. state = Home(pending) /\ replyCb = pending /\ pending \in Boots /\ state = "RESETTING"
  <2>1. state = Home(pending) /\ replyCb = pending
    BY <1>2 DEF Together, InPhase, None, Commands, Overtaken
  <2> QED
    BY <2>1, HomeOf DEF Rebooting
<1>4. m.rc = "OK"
  <2>1. \/ Reports(m, "IDLE") \/ Stale(m)
        \/ \E c \in Boots : IsReply(m, c) /\ m.rc = "OK"
    BY <1>0, MovesUp DEF BootComesLast
  <2> QED
    BY <1>3, <2>1 DEF Reports, Stale, IsReply, Boots
<1>5. state' = state /\ ~timer'.armed /\ pending' = None /\ UNCHANGED networkId
  BY <1>1, <1>3, <1>4
  DEF ReplyCb, Reply, ReplyReset, ReplyDisconnect, Wait, Stay, CancelEvent, Boots, confVars
<1>6. Rebooting' /\ ~Left' /\ ~AwaitsNotice'
  BY <1>0, <1>3, <1>5 DEF Rebooting, Left, AwaitsNotice
<1>7. BootComesLast'
  <2>1. \A i \in DOMAIN fromMote' :
          \/ i = Len(fromMote') /\ Reports(fromMote'[i], "IDLE")
          \/ /\ i < Len(fromMote')
             /\ \/ Stale(fromMote'[i])
                \/ \E c \in Boots : IsReply(fromMote'[i], c) /\ fromMote'[i].rc = "OK"
    BY <1>0, MovesUp DEF BootComesLast
  <2>2. toMote' = <<>> /\ ~Planned'
    BY <1>0, <1>5 DEF BootComesLast, Planned
  <2> QED
    BY <2>1, <2>2 DEF BootComesLast, Stale, IsReply, Reports
<1>8. InCall'
  BY <1>0, <1>3, <1>5 DEF Together, InCall, Asking, None
<1>9. InPhase'
  BY <1>3, <1>5 DEF InPhase, Planned, Scheduled
<1>10. MotePhase'
  BY <1>0, <1>3, <1>5 DEF Together, MotePhase, Rebooting, OnNetwork, Planned, Scheduled, Setup,
    Overtaken, Unanswered, Boots, None
<1>11. Timing' /\ Named'
  BY <1>0, <1>5 DEF Together, Timing, Named, Scheduled
<1> QED
  BY <1>6, <1>7, <1>8, <1>9, <1>10, <1>11 DEF Together, OnLink

\* A report comes in while the mote boots: a late one is ignored, that of the
\* boot starts the connection over.
LEMMA TogetherBootReported ==
  ASSUME SysTypeOK, Together, Rebooting, BootComesLast, Deliver,
         Head(fromMote).kind = "events"
  PROVE  Together'
<1> DEFINE m == Head(fromMote)
<1>0. /\ fromMote # <<>> /\ fromMote' = Tail(fromMote) /\ ~Quiet /\ ~Left
      /\ UNCHANGED <<toMote, mote, svcChanging, pc, api, cmdAge>> /\ CmdLimit' = CmdLimit
      /\ state = "RESETTING" /\ mote = "IDLE" /\ toMote = <<>>
  BY DeliverKeeps DEF Rebooting, Left, BootComesLast
<1>1. NotifEvents(m.moteState, m.events)
  BY DEF Deliver
<1>2. UNCHANGED libVars /\ UNCHANGED <<networkId, dataVars, callVars, confVars>>
  BY <1>1 DEF NotifEvents, confVars
<1>3. \/ Reports(m, "OPERATIONAL")
      \/ Reports(m, "IDLE") /\ Len(fromMote) = 1
  BY <1>0, MovesUp DEF BootComesLast, Stale, IsReply, Reports
<1>4. CASE Reports(m, "OPERATIONAL")
  <2>1. UNCHANGED vars
    BY <1>0, <1>1, <1>2, <1>4
    DEF NotifEvents, ExpectedEvent, StateOn, Stay, None, vars, fsmVars, Reports
  <2> QED
    BY <1>0, <2>1, TogetherDrops
<1>5. CASE Reports(m, "IDLE") /\ Len(fromMote) = 1
  <2>1. toMote' = <<>> /\ fromMote' = <<>>
    BY <1>0, <1>5, LinkIs, OnlyOne
  <2>2. state' = "PRE_JOIN" /\ timer'.armed /\ timer'.cb = "getMoteStatus"
    BY <1>0, <1>1, <1>5
    DEF NotifEvents, ExpectedEvent, StateOn, EnterState, EntryTimer, ScheduleEvent, Reports,
        ConnectingStates, None
  <2>3. pending' = pending /\ networkId' = networkId
    BY <1>2 DEF libVars
  <2>4. pending = None \/ pending \in Boots
    <3>1. ~Overtaken /\ pending \in Commands \cup {None}
      BY <1>0 DEF Together, MotePhase, SysTypeOK, TypeOK
    <3> QED
      BY <1>0, <3>1, HomeOf DEF Together, InPhase, Unanswered
  <2>5. pending' # None => Unanswered' /\ timer'.cb = "getMoteStatus"
    BY <2>2, <2>3, <2>4 DEF Unanswered
  <2>6. InCall'
    <3>1. api = "connect" /\ pc # "return" /\ pc # "idle"
      BY <1>0 DEF Together, InCall, SysTypeOK, TypeOK, ConnectingStates, Apis, Asking
    <3> QED
      BY <1>0, <2>2, <2>3, <2>4, <3>1 DEF InCall, ConnectingStates, Asking, None, Boots
  <2>7. InPhase'
    BY <2>2, <2>5 DEF InPhase, Planned, Scheduled, Home, Chain
  <2>8. MotePhase'
    BY <1>0, <2>2, <2>3, <2>4 DEF Together, MotePhase, OnNetwork, Planned, Scheduled, Setup,
       Overtaken, Unanswered, Boots, None
  <2>9. Timing' /\ Named'
    BY <1>0, <2>2, <2>3 DEF Together, Timing, Named, Scheduled
  <2> QED
    BY <2>1, <2>6, <2>7, <2>8, <2>9, EmptyLink DEF Together
<1> QED
  BY <1>3, <1>4, <1>5

\* The report the library waits for comes in.
LEMMA TogetherNoticed ==
  ASSUME SysTypeOK, Together, AwaitsNotice, Deliver
  PROVE  Together'
<1> DEFINE m == Head(fromMote)
<1>0. /\ fromMote # <<>> /\ fromMote' = Tail(fromMote) /\ ~Quiet /\ ~Left
      /\ UNCHANGED <<toMote, mote, svcChanging, pc, api, cmdAge>> /\ CmdLimit' = CmdLimit
      /\ OnlyNotice /\ toMote = <<>>
  BY DeliverKeeps DEF AwaitsNotice, Left, Together, OnLink, OnlyNotice
<1>1. Reports(m, "OPERATIONAL") /\ fromMote' = <<>> /\ toMote' = <<>>
  <2>1. Len(fromMote) = 1 /\ Reports(m, "OPERATIONAL")
    BY <1>0, MovesUp DEF OnlyNotice
  <2> QED
    BY <1>0, <2>1, LinkIs, OnlyOne
<1>2. NotifEvents(m.moteState, m.events)
  BY <1>1 DEF Deliver, Reports
<1>3. UNCHANGED libVars /\ UNCHANGED <<networkId, dataVars, callVars, confVars>>
  BY <1>2 DEF NotifEvents, confVars
<1>4. /\ pending = None /\ ~timer.armed /\ mote = "OPERATIONAL" /\ ~svcChanging
      /\ state \in {"JOINING", "REQ_SERVICE"}
  <2>1. CASE state = "JOINING" /\ mote = "OPERATIONAL"
    <3>1. pending \in Commands \cup {None} /\ timer.cb \in Commands \cup {"responseTimeout", None}
          /\ (timer.armed => timer.cb # None)
      BY DEF SysTypeOK, TypeOK, TimerType, Events
    <3>2. pending = None
      BY <2>1, <3>1, HomeOf DEF Together, InPhase, MotePhase, Overtaken, Unanswered
    <3>3. ~timer.armed
      BY <2>1, <3>1, <3>2, HomeOf DEF Together, InPhase, MotePhase, Planned, Scheduled
    <3> QED
      BY <2>1, <3>2, <3>3, <1>0 DEF Together, MotePhase
  <2>2. CASE state = "REQ_SERVICE" /\ pending = None /\ ~timer.armed
    BY <1>0, <2>2 DEF Together, MotePhase, OnNetwork, None
  <2> QED
    BY <2>1, <2>2 DEF AwaitsNotice
<1>5. pending' = None /\ networkId' = networkId /\ api = "connect" /\ pc \notin {"idle", "return"}
  BY <1>3, <1>4 DEF libVars, Together, InCall, SysTypeOK, TypeOK, ConnectingStates, Apis, Asking
<1>6. \/ state' = state /\ ~timer'.armed
      \/ /\ state' = "REQ_SERVICE" /\ timer'.armed
         /\ timer'.cb \in {"requestService", "getServiceInfo"}
      \/ state' = "CONNECTED" /\ ~timer'.armed
  BY <1>1, <1>2, <1>4
  DEF NotifEvents, ExpectedEvent, OnExpectedEvent, StateOn, EnterState, EntryTimer, Stay,
      ScheduleEvent, Reports, None
<1>7. InCall'
  BY <1>0, <1>4, <1>5, <1>6 DEF Together, InCall, ConnectingStates, Asking, None
<1>8. InPhase'
  BY <1>4, <1>5, <1>6 DEF InPhase, Planned, Scheduled, Home, Chain
<1>9. MotePhase'
  BY <1>0, <1>4, <1>5, <1>6 DEF MotePhase, Planned, Scheduled, Setup, Overtaken, Unanswered, Boots, None
<1>10. Timing' /\ Named'
  BY <1>0, <1>4, <1>5, <1>6 DEF Together, Timing, Named, Scheduled
<1> QED
  BY <1>1, <1>7, <1>8, <1>9, <1>10, EmptyLink DEF Together

\* The link delivers a frame.
LEMMA TogetherDeliver ==
  ASSUME SysTypeOK, Together, Deliver
  PROVE  Together'
<1> DEFINE m == Head(fromMote)
<1>0. /\ fromMote # <<>> /\ fromMote' = Tail(fromMote)
      /\ UNCHANGED <<toMote, mote, svcChanging>>
      /\ 1 \in DOMAIN fromMote /\ m = fromMote[1] /\ m \in Message
  BY DeliverKeeps, MovesUp
<1>1. pending \in Commands \cup {None}
  BY DEF SysTypeOK, TypeOK
<1>2. m.kind = "reply" => m.cmd \in Commands
  BY <1>0 DEF Message
<1>3. CASE m.kind = "reply" /\ m.cmd # pending
  <2>1. UNCHANGED vars
    BY <1>3 DEF Deliver
  <2> QED
    BY <1>0, <2>1, TogetherDrops
<1>4. CASE m.kind = "reply" /\ m.cmd = pending
  <2>1. pending \in Commands
    BY <1>2, <1>4
  <2>2. CASE Left
    BY <1>4, <2>1, <2>2, TogetherLeftReply
  <2>3. CASE Rebooting /\ BootComesLast
    BY <1>4, <2>1, <2>3, TogetherBootAnswered
  <2>4. CASE ~Left /\ ~(Rebooting /\ BootComesLast)
    <3>1. ~AwaitsNotice
      BY <1>0, <1>4 DEF Together, OnLink, AwaitsNotice, OnlyNotice, Reports, Left
    <3>2. OnlyPending
      BY <2>4, <3>1 DEF Together, OnLink
    <3>3. ~Unanswered
      BY <1>0, <3>2, OneComesBack
    <3>4. ~Overtaken
      BY <2>4 DEF Together, MotePhase, Overtaken, Left
    <3>5. state = Home(pending) /\ replyCb = pending /\ pending # None
      BY <2>1, <3>3, <3>4 DEF Together, InPhase, None, Commands
    <3>6. PICK moteState \in MoteStates, id \in SocketIds,
               completed \in BOOLEAN, granted \in Services :
            ReplyCb(m.rc, moteState, id, completed, granted)
      BY <1>4 DEF Deliver
    <3>7. Follows
      BY <2>4, <3>3, <3>5, <3>6, FollowsReply
    <3>8. pending' = None /\ UNCHANGED networkId
      BY <3>6 DEF ReplyCb, confVars
    <3> QED
      BY <2>4, <3>2, <3>5, <3>7, <3>8, TogetherReply
  <2> QED
    BY <2>2, <2>3, <2>4
<1>5. CASE m.kind # "reply"
  <2>1. CASE Left
    <3>1. m.kind = "events"
      BY <1>0, <1>5, <2>1 DEF Together, OnLink, MayBeStale, Stale, IsReply, Reports
    <3> QED
      BY <2>1, <3>1, TogetherLeftReport
  <2>2. CASE AwaitsNotice
    BY <2>2, TogetherNoticed
  <2>3. CASE ~Left /\ ~AwaitsNotice
    <3>1. ~OnlyPending
      BY <1>0, <1>5 DEF OnlyPending, IsReply
    <3>2. Rebooting /\ BootComesLast
      BY <2>3, <3>1 DEF Together, OnLink
    <3>3. m.kind = "events"
      BY <1>0, <1>5, <3>2 DEF BootComesLast, Stale, IsReply, Reports
    <3> QED
      BY <3>2, <3>3, TogetherBootReported
  <2> QED
    BY <2>1, <2>2, <2>3
<1> QED
  BY <1>3, <1>4, <1>5

-----------------------------------------------------------------------------
(* Together is inductive.                                                   *)

\* The invariant is about the variables only.
LEMMA TogetherStutter ==
  ASSUME Together, UNCHANGED sysVars
  PROVE  Together'
<1>1. UNCHANGED vars /\ UNCHANGED <<mote, svcChanging, toMote, fromMote>>
  BY DEF sysVars, envVars, moteVars, linkVars
<1>2. MotePhase'
  BY <1>1, LibraryStays DEF Together, MotePhase, Left
<1>3. OnLink'
  BY <1>1, LibraryStays DEF Together, OnLink, Left, Rebooting, AwaitsNotice, OnlyPending,
     MayBeStale, BootComesLast, OnlyNotice
<1>4. Timing'
  BY <1>1, LibraryStays DEF Together, Timing, Quiet, JoinEnds, ServiceEnds, Left
<1> QED
  BY <1>1, <1>2, <1>3, <1>4, LibraryStays DEF Together

\* Every step of the system keeps Together.
LEMMA TogetherStep ==
  ASSUME Steady, Known, Together, [SysNext]_sysVars
  PROVE  Together'
<1> USE DEF Known
<1>1. CASE App \/ AppQueries
  BY <1>1, TogetherApp
<1>2. CASE SysLoop
  BY <1>2, TogetherLoopTest, TogetherRun, TogetherReturn DEF SysLoop
<1>3. CASE MoteTakes
  BY <1>3, TogetherLeftTakes, TogetherTakesPending
<1>4. CASE MoteJoins \/ ServiceChanges \/ MoteHears \/ MoteRestarts
  BY <1>4, TogetherMoteActs
<1>5. CASE Deliver
  BY <1>5, TogetherDeliver
<1>6. CASE Lose
  BY <1>6, TogetherLose
<1>7. CASE UNCHANGED sysVars
  BY <1>7, TogetherStutter
<1> QED
  BY <1>1, <1>2, <1>3, <1>4, <1>5, <1>6, <1>7 DEF SysNext, Mote

\* What QslFsm guarantees holds in the system.
LEMMA KnownAlways == SysSpec => []Known
<1>1. EventOrder => AnsweredIsOver /\ OwnEvents
  BY DEF EventOrder
<1> QED
  BY <1>1, SysTypeCorrect, SystemRefinesFsm, EventsInOrder, PTL DEF Known

-----------------------------------------------------------------------------

\* Library, link and mote stay together: whatever is lost or late, what is under
\* way is the outstanding command or its answer, or belongs to a network that
\* the library gives up.
THEOREM TogetherAlways ==
  ASSUME Steady
  PROVE  SysSpec => []Together
<1>1. Known /\ Together /\ [SysNext]_sysVars => Together'
  BY TogetherStep
<1> QED
  BY <1>1, TogetherInit, KnownAlways, PTL DEF SysSpec

\* Between two calls the machine is where the next call can start from, for any
\* number of lost frames: no dn_qsl_connect is refused.
THEOREM RestsReadyAlways ==
  ASSUME Steady
  PROVE  SysSpec => []RestsReady
<1>1. Known /\ Together => RestsReady
  BY DEF Known, SysTypeOK, TypeOK, Together, InCall, RestsReady
<1> QED
  BY <1>1, TogetherAlways, KnownAlways, PTL

\* While the library counts itself connected the mote is on the network.
THEOREM ConnectedIsOperational ==
  ASSUME Steady
  PROVE  SysSpec => []ConnectedMeansOperational
<1>1. Together => ConnectedMeansOperational
  BY DEF Together, MotePhase, ConnectedMeansOperational, OnNetwork
<1> QED
  BY <1>1, TogetherAlways, PTL

\* A connect attempt that has fallen back to PRE_JOIN goes on.
THEOREM RetryIsAlwaysScheduled ==
  ASSUME Steady
  PROVE  SysSpec => []RetryIsScheduled
<1>1. Together => RetryIsScheduled
  BY DEF Together, InPhase, RetryIsScheduled
<1> QED
  BY <1>1, TogetherAlways, PTL

-----------------------------------------------------------------------------
(* What the mote has done for the library: bound its socket.                *)

\* What is under way in one direction.
Frames(s) == {s[i] : i \in DOMAIN s}

\* The commands issued once the socket is bound.
AfterBind == {"setJoinKey", "setNetworkId"}

\* The socket is bound once the mote has said so, until the mote boots.
SocketKept ==
  /\ state \in OnNetwork \cup {"JOINING"} => sockets[socketId] = "bound"
  /\ pending \in AfterBind => sockets[socketId] = "bound"
  /\ Planned /\ timer.cb \in AfterBind => sockets[socketId] = "bound"
  /\ \A c \in Frames(toMote) : c.cmd \in {"bindSocket", "sendTo"} => c.socket = socketId
  /\ \A m \in Frames(fromMote) :
       IsReply(m, "bindSocket") /\ m.rc = "OK" => sockets[socketId] = "bound"

\* The frames of a link that has lost its first.
LEMMA FramesOfTail ==
  ASSUME NEW S, NEW s \in Seq(S), s # <<>>
  PROVE  Frames(Tail(s)) \subseteq Frames(s) /\ Head(s) \in Frames(s)
BY WithoutFirst DEF Frames

\* The frames of a link that has gained one.
LEMMA FramesOfOne ==
  ASSUME NEW S, NEW s \in Seq(S), NEW x \in S
  PROVE  Frames(Append(s, x)) \subseteq Frames(s) \cup {x}
<1>1. \A i \in DOMAIN Append(s, x) :
        (i \in DOMAIN s /\ Append(s, x)[i] = s[i]) \/ Append(s, x)[i] = x
  BY WithOne
<1> QED
  BY <1>1 DEF Frames

\* The frames of a link that has gained two.
LEMMA FramesOfTwo ==
  ASSUME NEW S, NEW s \in Seq(S), NEW x \in S, NEW y \in S
  PROVE  Frames(s \o <<x, y>>) \subseteq Frames(s) \cup {x, y}
<1> DEFINE t == s \o <<x, y>>
<1>1. /\ Len(s) \in Nat /\ DOMAIN s = 1 .. Len(s) /\ DOMAIN t = 1 .. (Len(s) + 2)
      /\ t[Len(s) + 1] = x /\ t[Len(s) + 2] = y /\ \A i \in DOMAIN s : t[i] = s[i]
  BY WithTwo
<1> HIDE DEF t
<1>2. \A i \in DOMAIN t : i \in DOMAIN s \/ i = Len(s) + 1 \/ i = Len(s) + 2
  BY <1>1
<1>3. \A i \in DOMAIN t : (i \in DOMAIN s /\ t[i] = s[i]) \/ t[i] = x \/ t[i] = y
  BY <1>1, <1>2
<1>4. Frames(t) \subseteq Frames(s) \cup {x, y}
  BY <1>3 DEF Frames
<1> QED
  BY <1>4 DEF t

\* The frames of an empty link.
LEMMA NoFrames == \A s : s = <<>> => Frames(s) = {}
BY DEF Frames

\* The socket is kept when a step does not free it, and adds nothing that tells
\* more than is true.
LEMMA SocketStays ==
  ASSUME SocketKept, UNCHANGED socketId,
         sockets[socketId] = "bound" => sockets'[socketId] = "bound",
         state' \in OnNetwork \cup {"JOINING"} =>
           \/ state \in OnNetwork \cup {"JOINING"}
           \/ sockets[socketId] = "bound",
         pending' \in AfterBind =>
           \/ pending \in AfterBind
           \/ Planned /\ timer.cb \in AfterBind,
         Planned' /\ timer'.cb \in AfterBind =>
           \/ Planned /\ timer.cb \in AfterBind
           \/ sockets[socketId] = "bound",
         \A c \in Frames(toMote') :
           c \in Frames(toMote) \/ c.cmd \notin {"bindSocket", "sendTo"} \/ c.socket = socketId,
         \A m \in Frames(fromMote') :
           \/ m \in Frames(fromMote)
           \/ IsReply(m, "bindSocket") /\ m.rc = "OK" => sockets'[socketId] = "bound"
  PROVE  SocketKept'
<1>1. sockets'[socketId'] = sockets'[socketId] /\ socketId' = socketId
  OBVIOUS
<1>2. \A m \in Frames(fromMote') :
        IsReply(m, "bindSocket") /\ m.rc = "OK" => sockets'[socketId] = "bound"
  BY DEF SocketKept
<1>3. \A c \in Frames(toMote') : c.cmd \in {"bindSocket", "sendTo"} => c.socket = socketId
  BY DEF SocketKept
<1>4. /\ state' \in OnNetwork \cup {"JOINING"} => sockets'[socketId] = "bound"
      /\ pending' \in AfterBind => sockets'[socketId] = "bound"
      /\ Planned' /\ timer'.cb \in AfterBind => sockets'[socketId] = "bound"
  BY DEF SocketKept
<1> QED
  BY <1>1, <1>2, <1>3, <1>4 DEF SocketKept, IsReply

\* Nothing has been asked of the mote yet.
LEMMA SocketInit == SysInit => SocketKept
<1> SUFFICES ASSUME SysInit PROVE SocketKept
  OBVIOUS
<1>1. /\ state = "NOT_INITIALIZED" /\ pending = None /\ ~timer.armed /\ api = None
      /\ toMote = <<>> /\ fromMote = <<>>
  BY DEF SysInit, Init, CancelEvent
<1>2. Frames(toMote) = {} /\ Frames(fromMote) = {}
  BY <1>1, NoFrames
<1> QED
  BY <1>1, <1>2 DEF SocketKept, OnNetwork, AfterBind, Planned, None

\* The application calls the library.
LEMMA SocketApp ==
  ASSUME SysTypeOK, Together, SocketKept, App \/ AppQueries
  PROVE  SocketKept'
<1>1. pc = "idle"
  BY DEF App, AppInit, AppSend, AppConnect, AppQueries, QslInit, Send, Connect,
     ConnectFromDisconnected, Reconnect, ConnectForService, AlreadyConnected, ConnectRefused,
     Refused, StartLoop, GetTime, SetTxPower
<1>2. /\ UNCHANGED <<socketId, sockets, pending, toMote, fromMote>>
  BY DEF App, AppInit, AppSend, AppConnect, AppQueries, QslInit, Send, Connect,
     GetTime, SetTxPower, dataVars, libVars, envVars, moteVars, linkVars
<1>3. pending = None
  BY <1>1, IdleIs
<1>4. CASE AppSend
  <2>1. state = "CONNECTED" /\ state' = "SENDING" /\ timer' = ScheduleEvent(0, "sendTo")
    BY <1>4 DEF AppSend, Send, EnterState, EntryTimer
  <2>2. toMote' = <<>> /\ fromMote' = <<>>
    BY <1>1, <1>2, <2>1, IdleIs
  <2>3. Frames(toMote') = {} /\ Frames(fromMote') = {}
    BY <2>2, NoFrames
  <2>4. sockets'[socketId'] = "bound"
    BY <1>2, <2>1 DEF SocketKept, OnNetwork
  <2> QED
    BY <2>1, <2>3, <2>4 DEF SocketKept
<1>5. CASE AppInit \/ AppConnect \/ AppQueries
  <2>2. \/ state' = "DISCONNECTED" /\ timer' = timer
        \/ state' = "PRE_JOIN" /\ timer' = ScheduleEvent(CmdPeriod, "getMoteStatus")
        \/ state' = state /\ timer'.cb \in Asking
    <3>1. CASE AppInit
      BY <3>1 DEF AppInit, QslInit, EnterState, EntryTimer
    <3>2. CASE AppConnect
      <4>1. state = "DISCONNECTED"
        BY <1>1, <3>2, IdleIs DEF AppConnect
      <4> QED
        BY <3>2, <4>1 DEF AppConnect, Connect, ConnectFromDisconnected, Reconnect,
           ConnectForService, AlreadyConnected, ConnectRefused, EnterState, EntryTimer
    <3>3. CASE AppQueries
      BY <3>3 DEF AppQueries, GetTime, SetTxPower, Stay, ScheduleEvent, Asking
    <3> QED
      BY <1>5, <3>1, <3>2, <3>3
  <2>3. Planned' /\ timer'.cb \in AfterBind => Planned /\ timer.cb \in AfterBind
    BY <2>2 DEF ScheduleEvent, AfterBind, Asking, Planned
  <2>4. state' \in OnNetwork \cup {"JOINING"} => state \in OnNetwork \cup {"JOINING"}
    BY <2>2 DEF OnNetwork
  <2> QED
    BY <1>2, <2>3, <2>4, SocketStays
<1> QED
  BY <1>4, <1>5 DEF App

\* The loop of a call.
LEMMA SocketLoop ==
  ASSUME SysTypeOK, Together, SocketKept, SysLoop
  PROVE  SocketKept'
<1>1. UNCHANGED <<socketId, sockets, fromMote>>
  BY DEF SysLoop, SysLoopTest, SysRun, SysReturn, LoopTest, Return, Run, Sleep, RunEvent,
     EventReset, EventDisconnect, EventGetMoteStatus, EventOpenSocket, EventBindSocket,
     EventSetJoinKey, EventSetNetworkId, EventSearch, EventJoin, EventRequestService,
     EventGetServiceInfo, EventGetTime, EventSetTxPower, EventSendTo,
     EventResponseTimeout, IssueCommand, dataVars, envVars, moteVars, linkVars
<1>2. CASE SysReturn \/ SysLoopTest \/ (SysRun /\ (~Due \/ timer.cb = "responseTimeout"))
  <2>1. /\ toMote' = toMote /\ pending' \in {pending, None}
        /\ api' \in {api, None}
        /\ timer'.armed =>
             (timer'.cb = timer.cb /\ timer.armed) \/ timer'.cb = "getMoteStatus"
        /\ \/ state' \in {state, "DISCONNECTED", "PRE_JOIN"}
           \/ state = "SENDING" /\ state' = "SEND_FAILED"
           \/ state = "SEND_FAILED" /\ api' = None
    <3>1. CASE SysReturn
      BY <3>1 DEF SysReturn, Return, ReturnConnect, ReturnSend, ReturnGetTime, ReturnSetTxPower,
         fsmVars, EnterState, EntryTimer, envVars, linkVars
    <3>2. CASE SysLoopTest
      BY <3>2 DEF SysLoopTest, LoopTest, CmdTimeout, CancelTx, fsmVars, libVars, EnterState,
         EntryTimer, Stay, CancelEvent, envVars, linkVars
    <3>3. CASE SysRun /\ ~Due
      <4>1. Sleep /\ api' = api
        BY <3>3 DEF SysRun, Run
      <4>2. state' = state /\ pending' = pending
        BY <4>1 DEF Sleep, libVars
      <4>3. timer'.armed => timer'.cb = timer.cb /\ timer.armed
        BY <4>1 DEF Sleep, Older, SysTypeOK, TypeOK, TimerType
      <4> QED
        BY <3>3, <4>1, <4>2, <4>3 DEF SysRun
    <3>4. CASE SysRun /\ Due /\ timer.cb = "responseTimeout"
      <4>1. EventResponseTimeout /\ api' = api
        BY <3>4 DEF SysRun, Run, RunEvent
      <4>2. timer' = Disarmed => ~timer'.armed
        BY DEF Disarmed, SysTypeOK, TypeOK, TimerType
      <4>3. pending' = None /\ toMote' = toMote
        BY <3>4, <4>1 DEF EventResponseTimeout, CancelTx, SysRun
      <4> QED
        BY <4>1, <4>2, <4>3 DEF EventResponseTimeout, EnterState, EntryTimer, ScheduleEvent, Stay
    <3> QED
      BY <1>2, <3>1, <3>2, <3>3, <3>4
  <2>2. pending' \in AfterBind => pending \in AfterBind
    BY <2>1 DEF AfterBind, None
  <2>3. Planned' /\ timer'.cb \in AfterBind => Planned /\ timer.cb \in AfterBind
    BY <2>1 DEF Planned, AfterBind
  <2>4. state' \in OnNetwork \cup {"JOINING"} => state \in OnNetwork \cup {"JOINING"}
    BY <2>1 DEF OnNetwork
  <2> QED
    BY <1>1, <2>1, <2>2, <2>3, <2>4, SocketStays
<1>3. CASE SysRun /\ Due /\ timer.cb \in Commands
  <2>1. /\ Planned /\ state' = state /\ ~Planned' /\ api' = api
        /\ \/ pending' = timer.cb /\ toMote' = Append(toMote, Request(timer.cb))
           \/ pending' = pending /\ toMote' = toMote
    BY <1>3, CommandIs DEF Planned, ScheduleEvent
  <2>2. \A c \in Frames(toMote') : c \in Frames(toMote) \/ c.socket = socketId
    <3> DEFINE R == [cmd : Commands, socket : SocketIds]
    <3>1. toMote \in Seq(R) /\ Request(timer.cb) \in R /\ Request(timer.cb).socket = socketId
      BY <1>3, LinkIs DEF Request, TypeOK
    <3> HIDE DEF R
    <3>2. Frames(Append(toMote, Request(timer.cb))) \subseteq Frames(toMote) \cup {Request(timer.cb)}
      BY <3>1, FramesOfOne
    <3> QED
      BY <2>1, <3>1, <3>2
  <2>3. pending' \in AfterBind =>
          pending \in AfterBind \/ (Planned /\ timer.cb \in AfterBind)
    BY <2>1
  <2> QED
    BY <1>1, <2>1, <2>2, <2>3, SocketStays
<1>4. SysRun => timer.cb \in Commands \/ timer.cb = "responseTimeout" \/ ~Due
  BY DEF Due, SysTypeOK, TypeOK, TimerType, Events
<1> QED
  BY <1>2, <1>3, <1>4 DEF SysLoop

\* What a frame that leaves the link leaves behind.
LEMMA FramesLeft ==
  ASSUME SysTypeOK
  PROVE  /\ toMote # <<>> =>
              Frames(Tail(toMote)) \subseteq Frames(toMote) /\ Head(toMote) \in Frames(toMote)
         /\ fromMote # <<>> =>
              /\ Frames(Tail(fromMote)) \subseteq Frames(fromMote)
              /\ Head(fromMote) \in Frames(fromMote)
<1> DEFINE R == [cmd : Commands, socket : SocketIds]
<1>1. toMote \in Seq(R) /\ fromMote \in Seq(Message)
  BY LinkIs
<1> HIDE DEF R
<1> QED
  BY <1>1, FramesOfTail

\* What the mote takes is a command.
LEMMA TakesCommand ==
  ASSUME SysTypeOK, MoteTakes
  PROVE  /\ Head(toMote).cmd \in Commands /\ Head(toMote).socket \in SocketIds
         /\ Head(toMote) \in Frames(toMote) /\ Frames(toMote') \subseteq Frames(toMote)
         /\ toMote # <<>> /\ UNCHANGED vars
<1> DEFINE R == [cmd : Commands, socket : SocketIds]
<1>1. toMote \in Seq(R) /\ toMote # <<>> /\ toMote' = Tail(toMote) /\ UNCHANGED vars
  BY LinkIs DEF MoteTakes
<1>2. \A r \in R : r.cmd \in Commands /\ r.socket \in SocketIds
  OBVIOUS
<1> HIDE DEF R
<1>3. Head(toMote) \in R
  BY <1>1, WithoutFirst
<1> QED
  BY <1>1, <1>2, <1>3, FramesLeft

\* The mote answers and does not boot: it knows no more of the socket and the
\* packet than it says.
LEMMA SocketTakes ==
  ASSUME SysTypeOK, Together, SocketKept, MoteTakes, Head(toMote).cmd \notin Boots
  PROVE  SocketKept'
<1> DEFINE c == Head(toMote)
<1> DEFINE True(m) == IsReply(m, "bindSocket") /\ m.rc = "OK" => sockets'[socketId] = "bound"
<1>0. /\ c.cmd \in Commands /\ c.socket \in SocketIds /\ c \in Frames(toMote)
      /\ Frames(toMote') \subseteq Frames(toMote) /\ UNCHANGED vars
  BY TakesCommand
<1>1. UNCHANGED <<state, timer, pending, api, socketId>> /\ (Planned' <=> Planned)
      /\ socketId \in SocketIds /\ sockets \in [SocketIds -> {"free", "open", "bound"}]
  BY <1>0 DEF vars, fsmVars, libVars, callVars, dataVars, Planned, SysTypeOK, TypeOK
<1> HIDE DEF c
<1>3. \/ OnGetMoteStatus(c) \/ OnOpenSocket(c) \/ OnBindSocket(c)
      \/ OnParameter(c) \/ OnSearch(c) \/ OnJoin(c)
      \/ OnRequestService(c) \/ OnGetServiceInfo(c) \/ OnSendTo(c)
  BY DEF c, MoteTakes, OnReset, Boots
<1>4. ASSUME NEW m \in Message, fromMote' = Append(fromMote, m), True(m),
             sockets[socketId] = "bound" => sockets'[socketId] = "bound"
      PROVE  SocketKept'
  <2>1. fromMote \in Seq(Message)
    BY LinkIs
  <2>2. Frames(fromMote') \subseteq Frames(fromMote) \cup {m}
    BY <1>4, <2>1, FramesOfOne
  <2>3. \A f \in Frames(fromMote') : f \in Frames(fromMote) \/ True(f)
    BY <1>4, <2>2
  <2> HIDE <1>4
  <2> QED
    BY <1>0, <1>1, <1>4, <2>3, SocketStays
<1>5. \A rc \in ResponseCodes : Answer(c.cmd, rc) \in Message
      /\ Answer(c.cmd, rc).cmd = c.cmd /\ Answer(c.cmd, rc).rc = rc
  BY <1>0, MessagesTyped DEF Answer
<1>6. CASE OnGetMoteStatus(c) \/ OnParameter(c) \/ OnSearch(c) \/ OnJoin(c)
           \/ OnRequestService(c) \/ OnGetServiceInfo(c)
  <2>1. sockets' = sockets /\ c.cmd # "bindSocket"
    BY <1>6 DEF QueryCommands, OnGetMoteStatus, OnParameter, OnSearch, OnJoin, OnRequestService,
                OnGetServiceInfo, moteVars
  <2>2. PICK m \in Message : fromMote' = Append(fromMote, m) /\ m.cmd = c.cmd
    <3>1. CASE OnGetMoteStatus(c)
      <4>1. ReportedState \in MoteStates
        BY LinkIs, SMTT(30) DEF ReportedState, MoteStates
      <4>2. [Answer(c.cmd, "OK") EXCEPT !.moteState = ReportedState] \in Message
        BY <1>0, <4>1, MessagesTyped DEF ResponseCodes
      <4>3. [Answer(c.cmd, "OK") EXCEPT !.moteState = ReportedState].cmd = c.cmd
        BY DEF Answer
      <4> QED
        BY <3>1, <4>2, <4>3 DEF OnGetMoteStatus
    <3>2. CASE OnParameter(c) \/ OnSearch(c) \/ OnJoin(c) \/ OnRequestService(c)
      <4>1. {"OK", "INVALID_STATE", "ERROR"} \subseteq ResponseCodes
        BY DEF ResponseCodes
      <4> QED
        BY <1>5, <3>2, <4>1 DEF OnParameter, OnSearch, OnJoin, OnRequestService
    <3>3. CASE OnGetServiceInfo(c)
      <4> DEFINE rc == IF mote = "OPERATIONAL" THEN "OK" ELSE "INVALID_STATE"
      <4> DEFINE m == [Answer(c.cmd, rc)
                         EXCEPT !.completed = ~svcChanging, !.granted = service_ms]
      <4>1. service_ms \in Services /\ (~svcChanging) \in BOOLEAN
        BY DEF SysTypeOK, TypeOK
      <4>2. m \in Message
        BY <1>0, <4>1, MessagesTyped DEF ResponseCodes
      <4>3. m.cmd = c.cmd
        BY DEF Answer
      <4> QED
        BY <3>3, <4>2, <4>3 DEF OnGetServiceInfo
    <3> QED
      BY <1>6, <3>1, <3>2, <3>3
  <2> QED
    BY <1>4, <2>1, <2>2 DEF IsReply
<1>7. CASE OnOpenSocket(c)
  <2>1. \A s \in SocketIds : [Answer(c.cmd, "OK") EXCEPT !.id = s] \in Message
      /\ [Answer(c.cmd, "OK") EXCEPT !.id = s].cmd = c.cmd
    BY <1>0, MessagesTyped DEF Answer, ResponseCodes
  <2>2. PICK m \in Message : fromMote' = Append(fromMote, m) /\ m.cmd = c.cmd
    BY <1>5, <1>7, <2>1 DEF OnOpenSocket, FreeSockets, ResponseCodes
  <2>3. sockets[socketId] = "bound" => sockets'[socketId] = "bound"
    BY <1>1, <1>7 DEF OnOpenSocket, FreeSockets
  <2>4. c.cmd = "openSocket"
    BY <1>7 DEF OnOpenSocket
  <2> QED
    BY <1>4, <2>2, <2>3, <2>4 DEF IsReply
<1>8. CASE OnBindSocket(c)
  <2>1. c.cmd = "bindSocket" /\ c.socket = socketId
    BY <1>0, <1>8 DEF OnBindSocket, SocketKept
  <2>2. BindResult(c.socket) \in ResponseCodes
    BY DEF BindResult, ResponseCodes
  <2>3. /\ sockets[socketId] = "bound" => sockets'[socketId] = "bound"
        /\ BindResult(c.socket) = "OK" => sockets'[socketId] = "bound"
    BY <1>1, <1>8, <2>1 DEF OnBindSocket
  <2>4. fromMote' = Append(fromMote, Answer(c.cmd, BindResult(c.socket)))
    BY <1>8 DEF OnBindSocket
  <2> QED
    BY <1>4, <1>5, <2>1, <2>2, <2>3, <2>4 DEF IsReply
<1>9. CASE OnSendTo(c)
  <2>1. PICK rc \in ResponseCodes : fromMote' = Append(fromMote, Answer(c.cmd, rc))
    BY <1>9 DEF OnSendTo, ResponseCodes
  <2>2. c.cmd = "sendTo" /\ sockets' = sockets
    BY <1>9 DEF OnSendTo, moteVars
  <2> QED
    BY <1>4, <1>5, <2>1, <2>2 DEF IsReply
<1> QED
  BY <1>3, <1>6, <1>7, <1>8, <1>9

\* The mote boots: it has lost the socket, but the library does not count on it.
LEMMA SocketBoots ==
  ASSUME SysTypeOK, Together, Together', SocketKept, MoteTakes, Head(toMote).cmd \in Boots
  PROVE  SocketKept'
<1> DEFINE c == Head(toMote)
<1>0. c \in Frames(toMote) /\ toMote # <<>> /\ UNCHANGED vars
  BY TakesCommand
<1>1. mote' = "IDLE"
  BY DEF MoteTakes, QueryCommands, OnGetMoteStatus, OnOpenSocket, OnBindSocket,
       OnParameter, OnSearch,
     OnJoin, OnRequestService, OnGetServiceInfo, OnSendTo, OnReset, Booted, Boots
<1>2. pending \in Boots
  <2>1. CASE Left
    BY <1>0, <2>1 DEF Together, OnLink, MayBeStale, Frames, Boots
  <2>2. CASE ~Left
    <3>1. OnlyPending
      BY <1>0, <2>2 DEF Together, OnLink, BootComesLast, OnlyNotice
    <3> QED
      BY <1>0, <3>1, OneOnTheWay
  <2> QED
    BY <2>1, <2>2
<1>3. /\ UNCHANGED <<state, timer, pending, api>>
      /\ state \in {"RESETTING", "PRE_JOIN"}
      /\ Planned => timer.cb \in Boots \cup {"getMoteStatus"}
      /\ (Planned' <=> Planned) /\ (Unanswered' <=> Unanswered)
  BY <1>0, <1>2, HomeOf, LibraryStays
  DEF Together, InPhase, Overtaken, Unanswered, Boots, Commands, None
<1>4. OnlyPending' \/ BootComesLast'
  BY <1>1, <1>3 DEF Together, OnLink, Left, Rebooting, AwaitsNotice
<1>5. \A f \in Frames(toMote') : f.cmd \notin {"bindSocket", "sendTo"}
  <2>1. CASE OnlyPending'
    BY <1>2, <1>3, <2>1 DEF OnlyPending, Frames, Boots
  <2>2. CASE BootComesLast'
    BY <2>2, NoFrames DEF BootComesLast
  <2> QED
    BY <1>4, <2>1, <2>2
<1>6. \A f \in Frames(fromMote') : ~IsReply(f, "bindSocket")
  <2>1. CASE OnlyPending'
    BY <1>2, <1>3, <2>1 DEF OnlyPending, Frames, Boots, IsReply
  <2>2. CASE BootComesLast'
    BY <2>2 DEF BootComesLast, Frames, Boots, IsReply, Reports, Stale
  <2> QED
    BY <1>4, <2>1, <2>2
<1> QED
  BY <1>2, <1>3, <1>5, <1>6 DEF SocketKept, OnNetwork, AfterBind, Boots, IsReply

\* The mote reports something, or a frame is lost.
LEMMA SocketOthers ==
  ASSUME SysTypeOK, SocketKept, Steady,
         MoteJoins \/ ServiceChanges \/ MoteHears \/ MoteRestarts \/ Lose
  PROVE  SocketKept'
<1>1. ~MoteRestarts
  <2>1. restarts \in 0 .. 0 /\ MaxRestarts = 0
    BY DEF SysTypeOK, Steady
  <2> QED
    BY <2>1 DEF MoteRestarts
<1>2. UNCHANGED <<vars, sockets>>
  BY <1>1 DEF MoteJoins, ServiceChanges, MoteHears, Lose, moteVars
<1>3. UNCHANGED <<state, timer, pending, api, socketId>> /\ (Planned' <=> Planned)
  BY <1>2 DEF vars, fsmVars, libVars, callVars, dataVars, Planned
<1>4. Frames(toMote') \subseteq Frames(toMote)
  BY <1>1, FramesLeft DEF MoteJoins, ServiceChanges, MoteHears, Lose
<1>5. \A f \in Frames(fromMote') : f \in Frames(fromMote) \/ f.kind # "reply"
  <2>1. CASE MoteJoins \/ ServiceChanges \/ MoteHears
    <3>1. PICK m \in Message : fromMote' = Append(fromMote, m) /\ m.kind # "reply"
      <4>1. \A e \in {"OPERATIONAL", "SVC_CHANGE"} :
              LET m == Notification("OPERATIONAL", {e}) IN m \in Message /\ m.kind # "reply"
        BY MessagesTyped DEF MoteStates, MoteEvents, Notification
      <4>2. \A netId \in Networks :
              LET m == Advertisement(netId) IN m \in Message /\ m.kind # "reply"
        BY MessagesTyped DEF Advertisement
      <4> QED
        BY <2>1, <4>1, <4>2 DEF MoteJoins, ServiceChanges, MoteHears, Says
    <3>2. fromMote \in Seq(Message)
      BY LinkIs
    <3>3. Frames(fromMote') \subseteq Frames(fromMote) \cup {m}
      BY <3>1, <3>2, FramesOfOne
    <3> QED
      BY <3>1, <3>3
  <2>2. CASE Lose
    BY <2>2, FramesLeft DEF Lose
  <2> QED
    BY <1>1, <2>1, <2>2
<1> QED
  BY <1>2, <1>3, <1>4, <1>5, SocketStays DEF IsReply

\* The answer that names the socket comes while nothing depends on it.
LEMMA SocketNamed ==
  ASSUME SysTypeOK, Together, Deliver, pending = "openSocket", pending' = None,
         UNCHANGED callVars, NEW rc, NEW id, ReplyOpenSocket(rc, id)
  PROVE  SocketKept'
<1>1. ~Left
  BY DEF Together, MotePhase, Left, Setup
<1>2. state = "PRE_JOIN"
  <2>1. "openSocket" \in Commands /\ Home("openSocket") = "PRE_JOIN"
    BY DEF Commands, Home, Chain
  <2> QED
    BY <2>1 DEF Together, InPhase, Overtaken, Unanswered, Boots, None
<1>3. OnlyPending
  BY <1>1, <1>2 DEF Together, OnLink, Rebooting, AwaitsNotice
<1>4. toMote' = <<>> /\ fromMote' = <<>>
  BY <1>3, DeliverKeeps, OneComesBack
<1>5. Frames(toMote') = {} /\ Frames(fromMote') = {}
  BY <1>4, NoFrames
<1>6. /\ state' \in {"PRE_JOIN", "RESETTING", "DISCONNECTED"}
      /\ timer'.armed => timer'.cb \in {"bindSocket", "reset", "disconnect"}
  BY <1>2 DEF ReplyOpenSocket, Proceed, Enter, EnterState, EntryTimer, Stay, ScheduleEvent, CancelEvent
<1> QED
  BY <1>5, <1>6 DEF SocketKept, OnNetwork, AfterBind, Planned, None

\* The answer to the outstanding command: what it says is true.
LEMMA SocketReply ==
  ASSUME SysTypeOK, Together, SocketKept, Deliver, Head(fromMote).kind = "reply",
         Head(fromMote).cmd = pending, pending \in Commands
  PROVE  SocketKept'
<1> DEFINE m == Head(fromMote)
<1>0. /\ UNCHANGED <<toMote, sockets, api>>
      /\ m \in Frames(fromMote) /\ Frames(fromMote') \subseteq Frames(fromMote)
  BY DeliverKeeps, FramesLeft DEF Deliver, Idling, moteVars
<1>1. PICK moteState \in MoteStates, id \in SocketIds,
           completed \in BOOLEAN, granted \in Services :
        ReplyCb(m.rc, moteState, id, completed, granted)
  BY DEF Deliver
<1>2. /\ pending' = None /\ UNCHANGED callVars
      /\ Reply(m.rc, moteState, id, completed, granted)
  BY <1>1 DEF ReplyCb
<1>3. /\ pending = "bindSocket" /\ m.rc = "OK" => sockets[socketId] = "bound"
      /\ pending \in AfterBind => sockets[socketId] = "bound"
  BY <1>0 DEF SocketKept, IsReply
<1>4. \/ replyCb = pending /\ (state = Home(pending) \/ pending = "getMoteStatus")
      \/ replyCb \in Boots
  <2>1. ASSUME Unanswered PROVE FALSE
    <3>1. ~Left /\ ~Rebooting /\ ~AwaitsNotice
      BY <2>1 DEF Together, MotePhase, Unanswered, Left, Rebooting, AwaitsNotice
    <3>2. fromMote = <<>>
      BY <2>1, <3>1, FreeIsEmpty DEF Together, OnLink
    <3> QED
      BY <3>2 DEF Deliver
  <2>2. pending # None
    BY DEF Commands, None
  <2> QED
    BY <2>1, <2>2 DEF Together, InPhase, Overtaken
<1>5. CASE replyCb = "openSocket"
  <2>1. pending = "openSocket" /\ ReplyOpenSocket(m.rc, id)
    BY <1>2, <1>4, <1>5 DEF Reply, Boots
  <2> QED
    BY <1>2, <2>1, SocketNamed
<1>6. CASE replyCb # "openSocket"
  <2> USE DEF Enter, EnterState, EntryTimer, CancelEvent, Wait, Proceed, Stay, ScheduleEvent
  <2>1. CASE replyCb \in Boots \cup {"getMoteStatus", "join", "search", "requestService"}
    <3>1. /\ UNCHANGED socketId /\ state' \in {state, "DISCONNECTED", "RESETTING"}
          /\ timer'.armed => timer'.cb \in {"reset", "disconnect", "openSocket"}
      BY <1>2, <2>1
      DEF Reply, ReplyReset, ReplyDisconnect, ReplyGetMoteStatus, ReplyJoin, ReplySearch,
          ReplyRequestService, Boots, dataVars
    <3>2. ~(Planned' /\ timer'.cb \in AfterBind) /\ pending' \notin AfterBind
      BY <1>2, <3>1 DEF Planned, AfterBind, None
    <3> QED
      BY <1>0, <3>1, <3>2, SocketStays DEF OnNetwork
  <2>2. CASE replyCb \in {"bindSocket", "setJoinKey", "setNetworkId"}
    <3>1. replyCb = pending /\ pending' \notin AfterBind
      BY <1>2, <1>4, <2>2 DEF Boots, AfterBind, None
    <3>2. /\ UNCHANGED socketId
          /\ state' \in {state, "DISCONNECTED", "RESETTING", "PROMISCUOUS", "JOINING"}
          /\ state' # "JOINING" \/ replyCb = "setNetworkId" \/ state' = state
          /\ timer'.armed /\ timer'.cb \in AfterBind =>
               (replyCb = "bindSocket" /\ m.rc = "OK") \/ replyCb = "setJoinKey"
      BY <1>2, <2>2
      DEF Reply, ReplyBindSocket, ReplySetJoinKey, ReplySetNetworkId, AfterBind, dataVars
    <3>3. Planned' /\ timer'.cb \in AfterBind => sockets[socketId] = "bound"
      BY <1>3, <3>1, <3>2 DEF Planned, AfterBind
    <3>4. state' \in OnNetwork \cup {"JOINING"} =>
            state \in OnNetwork \cup {"JOINING"} \/ sockets[socketId] = "bound"
      BY <1>3, <3>1, <3>2 DEF OnNetwork, AfterBind
    <3> QED
      BY <1>0, <3>1, <3>2, <3>3, <3>4, SocketStays
  <2>3. CASE replyCb \in {"getServiceInfo", "sendTo", "getTime", "setTxPower"}
    <3>1. replyCb = pending /\ state = Home(pending) /\ pending' \notin AfterBind
      BY <1>2, <1>4, <2>3 DEF Boots, AfterBind, None
    <3>2. /\ UNCHANGED socketId
          /\ timer'.armed => timer'.cb = "getServiceInfo"
      BY <1>2, <2>3, <3>1
      DEF Reply, ReplyGetServiceInfo, ReplySendTo, ReplyGetTime, ReplySetTxPower, dataVars,
          Home, Chain, Boots
    <3>3. state \in OnNetwork
      BY <2>3, <3>1 DEF Home, Chain, Boots, Asking, OnNetwork
    <3>5. ~(Planned' /\ timer'.cb \in AfterBind)
      BY <3>2 DEF Planned, AfterBind
    <3> HIDE DEF m
    <3> QED
      BY <1>0, <3>1, <3>2, <3>3, <3>5, SocketStays
  <2> QED
    BY <1>2, <1>6, <2>1, <2>2, <2>3 DEF Reply, Boots
<1> QED
  BY <1>5, <1>6

\* The link delivers a frame.
LEMMA SocketDeliver ==
  ASSUME SysTypeOK, Together, SocketKept, Deliver
  PROVE  SocketKept'
<1> DEFINE m == Head(fromMote)
<1>0. /\ UNCHANGED <<toMote, sockets, api>> /\ m \in Message
      /\ Frames(fromMote') \subseteq Frames(fromMote)
  BY DeliverKeeps, MovesUp, FramesLeft DEF Deliver, Idling, moteVars
<1>1. CASE m.kind = "reply" /\ m.cmd = pending
  <2>1. pending \in Commands
    BY <1>0, <1>1 DEF Message
  <2> QED
    BY <1>1, <2>1, SocketReply
<1>2. CASE m.kind = "reply" /\ m.cmd # pending
  <2>1. UNCHANGED vars
    BY <1>2 DEF Deliver
  <2>2. UNCHANGED <<state, timer, pending, socketId>>
    BY <2>1 DEF vars, fsmVars, libVars, dataVars
  <2> QED
    BY <1>0, <2>2, SocketStays DEF Planned
<1>3. CASE m.kind = "events"
  <2>1. NotifEvents(m.moteState, m.events)
    BY <1>3 DEF Deliver
  <2>2. UNCHANGED <<pending, socketId>>
    BY <2>1 DEF NotifEvents, libVars, dataVars
  <2>3. /\ \/ state' \in {state, "PRE_JOIN", "DISCONNECTED", "RESETTING"}
           \/ state = "JOINING" /\ state' \in {"REQ_SERVICE", "CONNECTED"}
        /\ \/ timer' = timer
           \/ timer'.cb \in Boots \cup {"getMoteStatus", "requestService", "getServiceInfo"}
    BY <2>1 DEF NotifEvents, ExpectedEvent, OnExpectedEvent, StateOn, EnterState, EntryTimer, Stay,
       ScheduleEvent, Boots
  <2>4. Planned' /\ timer'.cb \in AfterBind => Planned /\ timer.cb \in AfterBind
    BY <2>3 DEF Planned, AfterBind, Boots
  <2>6. state' \in OnNetwork \cup {"JOINING"} => state \in OnNetwork \cup {"JOINING"}
    BY <2>3 DEF OnNetwork
  <2> QED
    BY <1>0, <2>2, <2>4, <2>6, SocketStays
<1>4. CASE m.kind = "advReceived"
  <2>1. NotifAdvReceived(m.netId) /\ state # "PROMISCUOUS"
    BY <1>4 DEF Deliver, Together, InCall
  <2>2. UNCHANGED <<state, timer, pending, socketId>>
    BY <2>1 DEF NotifAdvReceived, Stay, libVars, dataVars
  <2> QED
    BY <1>0, <2>2, SocketStays DEF Planned
<1> QED
  BY <1>0, <1>1, <1>2, <1>3, <1>4 DEF Message

\* Every step of the system keeps the socket.
LEMMA SocketStep ==
  ASSUME Steady, Known, Together, Together', SocketKept, [SysNext]_sysVars
  PROVE  SocketKept'
<1> USE DEF Known
<1>1. CASE App \/ AppQueries
  BY <1>1, SocketApp
<1>2. CASE SysLoop
  BY <1>2, SocketLoop
<1>3. CASE MoteTakes
  BY <1>3, SocketTakes, SocketBoots
<1>4. CASE MoteJoins \/ ServiceChanges \/ MoteHears \/ MoteRestarts \/ Lose
  BY <1>4, SocketOthers
<1>5. CASE Deliver
  BY <1>5, SocketDeliver
<1>6. CASE UNCHANGED sysVars
  <2>1. UNCHANGED <<state, timer, pending, socketId, api, sockets, toMote, fromMote>>
    BY <1>6 DEF sysVars, vars, fsmVars, libVars, dataVars, callVars, envVars, moteVars, linkVars
  <2> QED
    BY <2>1, SocketStays DEF Planned
<1> QED
  BY <1>1, <1>2, <1>3, <1>4, <1>5, <1>6 DEF SysNext, Mote

\* The mote has done what the library counts on.
THEOREM SocketAlways ==
  ASSUME Steady
  PROVE  SysSpec => []SocketKept
<1>1. Known /\ Together /\ Together' /\ SocketKept /\ [SysNext]_sysVars => SocketKept'
  BY SocketStep
<1> QED
  BY <1>1, SocketInit, TogetherAlways, KnownAlways, PTL DEF SysSpec

\* The socket that dn_event_sendTo uses is bound at the mote while the library
\* counts itself connected.
THEOREM ConnectedIsBound ==
  ASSUME Steady
  PROVE  SysSpec => []ConnectedMeansBound
<1>1. SocketKept => ConnectedMeansBound
  BY DEF SocketKept, ConnectedMeansBound, OnNetwork
<1> QED
  BY <1>1, SocketAlways, PTL

-----------------------------------------------------------------------------
(* What the mote has answered to a send or a query.                         *)

\* What the mote is asked for in a send or a query.
Asked == {"sendTo"} \cup QueryCommands

\* The mote answers a send or a query once, and the library goes by the answer
\* to this very call.
VerdictKept ==
  /\ Planned /\ timer.cb \in Asked => verdict = None
  /\ \A c \in Frames(toMote) : c.cmd \in Asked => verdict = None
  /\ \A m \in Frames(fromMote) : m.kind = "reply" /\ m.cmd \in Asked =>
       /\ verdict = m.rc
       /\ m.rc \in {"OK", "ERROR"}
  /\ api = "send" /\ state = "CONNECTED" => verdict = "OK"
  /\ api = "getTime" /\ timeValid => verdict = "OK"
  /\ api = "setTxPower" /\ txPowerValid => verdict = "OK"
  /\ api \in Asking /\ state # "CONNECTED" => verdict = "ERROR"

\* The verdict stands when a step does not ask again, and takes nothing for
\* answered that is not.
LEMMA VerdictStays ==
  ASSUME VerdictKept, verdict' = verdict,
         Planned' /\ timer'.cb \in Asked => Planned /\ timer.cb \in Asked,
         \A c \in Frames(toMote') :
           c \in Frames(toMote) \/ c.cmd \notin Asked \/ verdict = None,
         \A m \in Frames(fromMote') :
           m \in Frames(fromMote) \/ ~(m.kind = "reply" /\ m.cmd \in Asked),
         api' = "send" /\ state' = "CONNECTED" =>
           (api = "send" /\ state = "CONNECTED") \/ verdict = "OK",
         api' = "getTime" /\ timeValid' => (api = "getTime" /\ timeValid) \/ verdict = "OK",
         api' = "setTxPower" /\ txPowerValid' =>
           (api = "setTxPower" /\ txPowerValid) \/ verdict = "OK",
         api' \in Asking /\ state' # "CONNECTED" =>
           (api \in Asking /\ state # "CONNECTED") \/ verdict = "ERROR"
  PROVE  VerdictKept'
<1>1. Planned' /\ timer'.cb \in Asked => verdict' = None
  BY DEF VerdictKept
<1>2. \A c \in Frames(toMote') : c.cmd \in Asked => verdict' = None
  BY DEF VerdictKept
<1>3. \A m \in Frames(fromMote') : m.kind = "reply" /\ m.cmd \in Asked =>
        verdict' = m.rc /\ m.rc \in {"OK", "ERROR"}
  BY DEF VerdictKept
<1>4. /\ api' = "send" /\ state' = "CONNECTED" => verdict' = "OK"
      /\ api' = "getTime" /\ timeValid' => verdict' = "OK"
      /\ api' = "setTxPower" /\ txPowerValid' => verdict' = "OK"
      /\ api' \in Asking /\ state' # "CONNECTED" => verdict' = "ERROR"
  BY DEF VerdictKept
<1> QED
  BY <1>1, <1>2, <1>3, <1>4 DEF VerdictKept, Asked, QueryCommands, Asking

\* Nothing has been asked of the mote yet.
LEMMA VerdictInit == SysInit => VerdictKept
<1> SUFFICES ASSUME SysInit PROVE VerdictKept
  OBVIOUS
<1>1. /\ verdict = None /\ api = None /\ toMote = <<>> /\ fromMote = <<>>
  BY DEF SysInit, Init
<1>2. Frames(toMote) = {} /\ Frames(fromMote) = {}
  BY <1>1, NoFrames
<1> QED
  BY <1>1, <1>2 DEF VerdictKept, Asking, None

\* A send or a query begins, and nothing of an earlier one is under way.
LEMMA VerdictBegins ==
  ASSUME verdict' = None, toMote' = <<>>, fromMote' = <<>>,
         \/ api' = "send" /\ state' = "SENDING"
         \/ api' = "getTime" /\ state' = "CONNECTED" /\ ~timeValid'
         \/ api' = "setTxPower" /\ state' = "CONNECTED" /\ ~txPowerValid'
  PROVE  VerdictKept'
<1>1. Frames(toMote') = {} /\ Frames(fromMote') = {}
  BY NoFrames
<1> QED
  BY <1>1 DEF VerdictKept, Asking

\* The application calls the library.
LEMMA VerdictApp ==
  ASSUME SysTypeOK, Together, VerdictKept, App \/ AppQueries
  PROVE  VerdictKept'
<1>1. pc = "idle"
  BY DEF App, AppInit, AppSend, AppConnect, AppQueries, QslInit, Send, Connect,
     ConnectFromDisconnected, Reconnect, ConnectForService, AlreadyConnected, ConnectRefused,
     Refused, StartLoop, GetTime, SetTxPower
<1>2. UNCHANGED <<toMote, fromMote>>
  BY DEF App, AppInit, AppSend, AppConnect, AppQueries, envVars, linkVars
<1>3. state = "CONNECTED" => toMote' = <<>> /\ fromMote' = <<>>
  BY <1>1, <1>2, IdleIs
<1>4. CASE AppSend
  BY <1>3, <1>4, VerdictBegins DEF AppSend, Send, EnterState, StartLoop
<1>5. CASE AppQueries
  <2>1. /\ state = "CONNECTED" /\ state' = state /\ verdict' = None
        /\ \/ api' = "getTime" /\ ~timeValid'
           \/ api' = "setTxPower" /\ ~txPowerValid'
    BY <1>5 DEF AppQueries, GetTime, SetTxPower, Stay, StartLoop
  <2> QED
    BY <1>3, <2>1, VerdictBegins
<1>6. CASE AppInit
  BY <1>1, <1>2, <1>6, IdleIs, VerdictStays
  DEF AppInit, QslInit, EnterState, EntryTimer, callVars, Planned, Asking, None
<1>7. CASE AppConnect
  <2>1. state = "DISCONNECTED"
    BY <1>1, <1>7, IdleIs DEF AppConnect
  <2>2. ConnectFromDisconnected(NetIdArg, Unset, Unset, ServiceArg)
    BY <1>7, <2>1
    DEF AppConnect, Connect, Reconnect, ConnectForService, AlreadyConnected, ConnectRefused
  <2>3. verdict' = verdict /\ api' = "connect"
        /\ timer' = ScheduleEvent(CmdPeriod, "getMoteStatus")
    BY <1>7, <2>2 DEF AppConnect, ConnectFromDisconnected, EnterState, EntryTimer, StartLoop
  <2> QED
    BY <1>2, <2>3, VerdictStays
    DEF ScheduleEvent, Planned, Asked, QueryCommands, Asking
<1> QED
  BY <1>4, <1>5, <1>6, <1>7 DEF App

\* The loop of a call.
LEMMA VerdictLoop ==
  ASSUME SysTypeOK, Together, VerdictKept, SysLoop
  PROVE  VerdictKept'
<1>1. UNCHANGED <<verdict, fromMote, timeValid, txPowerValid>>
  BY DEF SysLoop, SysLoopTest, SysRun, SysReturn, LoopTest, Return, Run, Sleep, RunEvent,
     EventReset, EventDisconnect, EventGetMoteStatus, EventOpenSocket, EventBindSocket,
     EventSetJoinKey, EventSetNetworkId, EventSearch, EventJoin, EventRequestService,
     EventGetServiceInfo, EventGetTime, EventSetTxPower, EventSendTo,
     EventResponseTimeout, IssueCommand, dataVars, envVars, linkVars
<1>2. CASE SysReturn
  <2>1. /\ toMote' = toMote /\ api' = None /\ timer' = timer
    BY <1>2 DEF SysReturn, Return, ReturnConnect, ReturnSend, ReturnGetTime, ReturnSetTxPower,
       fsmVars, EnterState, EntryTimer, envVars, linkVars
  <2> QED
    BY <1>1, <2>1, VerdictStays DEF Planned, Asking, None
<1>3. CASE SysLoopTest \/ (SysRun /\ (~Due \/ timer.cb = "responseTimeout"))
  <2>1. /\ toMote' = toMote /\ api' = api
        /\ timer'.armed =>
             (timer'.cb = timer.cb /\ timer.armed) \/ timer'.cb = "getMoteStatus"
        /\ state' = "CONNECTED" <=> state = "CONNECTED"
    <3>1. CASE SysLoopTest
      BY <3>1 DEF SysLoopTest, LoopTest, CmdTimeout, CancelTx, fsmVars, EnterState,
         EntryTimer, Stay, CancelEvent, ConnectingStates, envVars, linkVars
    <3>2. CASE SysRun /\ ~Due
      <4>1. Sleep /\ api' = api
        BY <3>2 DEF SysRun, Run
      <4>2. state' = state /\ pending' = pending
        BY <4>1 DEF Sleep, libVars
      <4>3. timer'.armed => timer'.cb = timer.cb /\ timer.armed
        BY <4>1 DEF Sleep, Older, SysTypeOK, TypeOK, TimerType
      <4> QED
        BY <3>2, <4>1, <4>2, <4>3 DEF SysRun
    <3>3. CASE SysRun /\ Due /\ timer.cb = "responseTimeout"
      <4>1. EventResponseTimeout /\ api' = api
        BY <3>3 DEF SysRun, Run, RunEvent
      <4>2. timer' = Disarmed => ~timer'.armed
        BY DEF Disarmed, SysTypeOK, TypeOK, TimerType
      <4>3. pending' = None /\ toMote' = toMote
        BY <3>3, <4>1 DEF EventResponseTimeout, CancelTx, SysRun
      <4> QED
        BY <4>1, <4>2, <4>3
        DEF EventResponseTimeout, EnterState, EntryTimer, ScheduleEvent, Stay, ConnectingStates
    <3> QED
      BY <1>3, <3>1, <3>2, <3>3
  <2>2. Planned' /\ timer'.cb \in Asked => Planned /\ timer.cb \in Asked
    BY <2>1 DEF Planned, Asked, QueryCommands
  <2> QED
    BY <1>1, <2>1, <2>2, VerdictStays
<1>4. CASE SysRun /\ Due /\ timer.cb \in Commands
  <2>1. /\ Planned /\ state' = state /\ ~Planned' /\ api' = api
        /\ \/ toMote' = Append(toMote, Request(timer.cb))
           \/ toMote' = toMote
    BY <1>4, CommandIs DEF Planned, ScheduleEvent
  <2>2. \A c \in Frames(toMote') : c \in Frames(toMote) \/ c.cmd = timer.cb
    <3> DEFINE R == [cmd : Commands, socket : SocketIds]
    <3>1. toMote \in Seq(R) /\ Request(timer.cb) \in R /\ Request(timer.cb).cmd = timer.cb
      BY <1>4, LinkIs DEF Request, TypeOK
    <3> HIDE DEF R
    <3>2. Frames(Append(toMote, Request(timer.cb))) \subseteq Frames(toMote) \cup {Request(timer.cb)}
      BY <3>1, FramesOfOne
    <3> QED
      BY <2>1, <3>1, <3>2
  <2>3. timer.cb \in Asked => verdict = None
    BY <2>1 DEF VerdictKept
  <2> QED
    BY <1>1, <2>1, <2>2, <2>3, VerdictStays
<1>5. SysRun => timer.cb \in Commands \/ timer.cb = "responseTimeout" \/ ~Due
  BY DEF Due, SysTypeOK, TypeOK, TimerType, Events
<1> QED
  BY <1>2, <1>3, <1>4, <1>5 DEF SysLoop

\* The mote takes what a send or a query asks while the call waits for that.
LEMMA AskedIsOfCall ==
  ASSUME SysTypeOK, Together, MoteTakes, Head(toMote).cmd \in Asked
  PROVE  /\ fromMote = <<>> /\ toMote' = <<>> /\ Head(toMote).cmd = pending
         /\ state = Home(pending) /\ pending # None /\ mote = "OPERATIONAL"
         /\ ~(Planned /\ timer.cb \in Asked)
         /\ IF pending = "sendTo" THEN state = "SENDING" /\ api = "send"
            ELSE state = "CONNECTED" /\ api = pending
<1>1. toMote # <<>> /\ 1 \in DOMAIN toMote /\ Head(toMote) = toMote[1] /\ toMote' = Tail(toMote)
  BY LinkIs, WithoutFirst DEF MoteTakes
<1>2. OnlyPending
  BY <1>1 DEF Together, OnLink, MayBeStale, BootComesLast, OnlyNotice, Boots, Asked, QueryCommands
<1>3. /\ fromMote = <<>> /\ toMote' = <<>> /\ Head(toMote).cmd = pending
      /\ pending \in Asked /\ ~Unanswered
  BY <1>1, <1>2, OneOnTheWay
<1>4. /\ pending \in Commands /\ pending # None /\ ~Overtaken /\ pending \notin Boots
  BY <1>3 DEF Asked, QueryCommands, Commands, Overtaken, Boots, None
<1>5. state = Home(pending) /\ ~Planned
  BY <1>3, <1>4 DEF Together, InPhase
<1>6. CASE pending = "sendTo"
  <2>1. state = "SENDING"
    BY <1>4, <1>5, <1>6, HomeOf
  <2>2. api = "send" /\ mote = "OPERATIONAL"
    BY <2>1 DEF Together, MotePhase, OnNetwork, InCall, SysTypeOK, TypeOK, Apis, Asking,
                ConnectingStates
  <2> QED
    BY <1>3, <1>4, <1>5, <1>6, <2>1, <2>2
<1>7. CASE pending \in Asking
  <2>1. state = "CONNECTED"
    BY <1>4, <1>5, <1>7, HomeOf
  <2>2. api = pending /\ mote = "OPERATIONAL" /\ pending # "sendTo"
    BY <1>7, <2>1 DEF Together, MotePhase, OnNetwork, InCall, Asking
  <2> QED
    BY <1>3, <1>4, <1>5, <1>7, <2>1, <2>2
<1> QED
  BY <1>3, <1>6, <1>7 DEF Asked, QueryCommands, Asking

\* The mote answers a send or a query.
LEMMA VerdictGiven ==
  ASSUME SysTypeOK, Together, AnsweredIsOver, SocketKept, VerdictKept, MoteTakes,
         Head(toMote).cmd \in Asked
  PROVE  /\ VerdictKept'
         /\ verdict = None
         /\ verdict' \in IF api = "send" THEN {"OK"} ELSE {"OK", "ERROR"}
<1> DEFINE c == Head(toMote)
<1>0. /\ c.cmd \in Commands /\ c.socket \in SocketIds /\ c \in Frames(toMote)
      /\ UNCHANGED vars
  BY TakesCommand
<1>1. /\ fromMote = <<>> /\ toMote' = <<>> /\ c.cmd = pending /\ pending # None
      /\ mote = "OPERATIONAL" /\ ~(Planned /\ timer.cb \in Asked)
      /\ IF pending = "sendTo" THEN state = "SENDING" /\ api = "send"
         ELSE state = "CONNECTED" /\ api = pending
  BY AskedIsOfCall
<1>2. verdict = None
  BY <1>0 DEF VerdictKept
<1>3. UNCHANGED <<state, timer, api, timeValid, txPowerValid>> /\ (Planned' <=> Planned)
  BY <1>0 DEF vars, fsmVars, callVars, dataVars, Planned
<1>4. c.cmd = "sendTo" => Deliverable(c)
  <2>1. state = "SENDING" => sockets[socketId] = "bound"
    BY DEF SocketKept, OnNetwork
  <2>2. c.cmd = "sendTo" => c.socket = socketId
    BY <1>0 DEF SocketKept
  <2> QED
    BY <1>1, <2>1, <2>2 DEF Deliverable
<1>5. /\ c.cmd = "sendTo" => OnSendTo(c)
      /\ c.cmd # "sendTo" => OnParameter(c)
  BY DEF MoteTakes, Asked, QueryCommands, OnGetMoteStatus, OnOpenSocket, OnBindSocket,
     OnParameter, OnSearch, OnJoin, OnRequestService, OnGetServiceInfo, OnSendTo, OnReset
<1> HIDE DEF c
<1>6. /\ fromMote' = Append(fromMote, Answer(c.cmd, verdict')) /\ verdict' \in {"OK", "ERROR"}
      /\ c.cmd = "sendTo" => verdict' = "OK"
  <2>1. CASE c.cmd = "sendTo"
    BY <1>4, <1>5, <2>1 DEF OnSendTo
  <2>2. CASE c.cmd # "sendTo"
    <3>1. c.cmd \in QueryCommands
      BY <2>2 DEF Asked, c
    <3> QED
      BY <1>5, <2>2, <3>1 DEF OnParameter
  <2> QED
    BY <2>1, <2>2
<1>7. /\ Answer(c.cmd, verdict') \in Message /\ Answer(c.cmd, verdict').rc = verdict'
  BY <1>0, <1>6, MessagesTyped DEF ResponseCodes, Answer, c
<1>8. \A m \in Frames(fromMote') : m.rc = verdict'
  <2>1. Frames(fromMote') \subseteq Frames(fromMote) \cup {Answer(c.cmd, verdict')}
    BY <1>6, <1>7, LinkIs, FramesOfOne
  <2>2. Frames(fromMote) = {}
    BY <1>1, NoFrames
  <2> QED
    BY <1>7, <2>1, <2>2
<1>9. ~QueryAnswered
  BY <1>1 DEF AnsweredIsOver
<1>10. Frames(toMote') = {}
  BY <1>1, NoFrames
<1>11. VerdictKept'
  <2>1. \A m \in Frames(fromMote') : m.kind = "reply" /\ m.cmd \in Asked =>
          verdict' = m.rc /\ m.rc \in {"OK", "ERROR"}
    BY <1>6, <1>8
  <2>2. /\ ~(api = "send" /\ state = "CONNECTED")
        /\ ~(api \in Asking /\ state # "CONNECTED")
    BY <1>1 DEF c, Asking, Asked, QueryCommands
  <2>3. ~(api = "getTime" /\ timeValid) /\ ~(api = "setTxPower" /\ txPowerValid)
    BY <1>9 DEF QueryAnswered
  <2> QED
    BY <1>1, <1>3, <1>10, <2>1, <2>2, <2>3
    DEF VerdictKept, Asked, QueryCommands, Asking
<1>12. api = "send" => c.cmd = "sendTo"
  BY <1>1 DEF c, Asked, QueryCommands
<1> QED
  BY <1>2, <1>6, <1>11, <1>12

\* The mote takes another command.
LEMMA VerdictTakes ==
  ASSUME SysTypeOK, Together, VerdictKept, MoteTakes, Head(toMote).cmd \notin Asked
  PROVE  VerdictKept' /\ verdict' = verdict
<1> DEFINE c == Head(toMote)
<1>0. /\ c.cmd \in Commands /\ c.cmd \notin Asked /\ Frames(toMote') \subseteq Frames(toMote)
      /\ UNCHANGED vars /\ fromMote \in Seq(Message)
  BY TakesCommand, LinkIs
<1>1. UNCHANGED <<state, timer, api, timeValid, txPowerValid>> /\ (Planned' <=> Planned)
  BY <1>0 DEF vars, fsmVars, callVars, dataVars, Planned
<1>2. verdict' = verdict
  BY <1>0 DEF MoteTakes, Asked, OnParameter, OnSendTo
<1> HIDE DEF c
<1>3. ASSUME NEW m \in Message, fromMote' = Append(fromMote, m), m.cmd = c.cmd
      PROVE  VerdictKept'
  <2>1. Frames(fromMote') \subseteq Frames(fromMote) \cup {m}
    BY <1>0, <1>3, FramesOfOne
  <2> QED
    BY <1>0, <1>1, <1>2, <1>3, <2>1, VerdictStays
<1>4. \A rc \in ResponseCodes : Answer(c.cmd, rc) \in Message /\ Answer(c.cmd, rc).cmd = c.cmd
  BY <1>0, MessagesTyped DEF Answer
<1>5. CASE OnReset(c)
  <2> DEFINE r == Answer(c.cmd, "OK")
  <2> DEFINE n == Notification("IDLE", {})
  <2>1. fromMote' = fromMote \o <<r, n>>
    BY <1>5 DEF OnReset
  <2>2. r \in Message /\ n \in Message /\ r.cmd = c.cmd /\ n.kind = "events"
    BY <1>4, MessagesTyped DEF ResponseCodes, MoteStates, Notification
  <2> HIDE DEF r, n
  <2>3. Frames(fromMote') \subseteq Frames(fromMote) \cup {r, n}
    BY <1>0, <2>1, <2>2, FramesOfTwo
  <2> QED
    BY <1>0, <1>1, <1>2, <2>2, <2>3, VerdictStays
<1>6. CASE OnGetMoteStatus(c)
  <2> DEFINE m == [Answer(c.cmd, "OK") EXCEPT !.moteState = ReportedState]
  <2>1. ReportedState \in MoteStates
    BY LinkIs, SMTT(30) DEF ReportedState, MoteStates
  <2>2. m \in Message /\ m.cmd = c.cmd
    BY <1>0, <2>1, MessagesTyped DEF ResponseCodes, Answer
  <2>3. fromMote' = Append(fromMote, m)
    BY <1>6 DEF OnGetMoteStatus
  <2> HIDE DEF m
  <2> QED
    BY <1>2, <1>3, <2>2, <2>3
<1>7. CASE OnOpenSocket(c)
  <2>1. \A s \in SocketIds : [Answer(c.cmd, "OK") EXCEPT !.id = s] \in Message
      /\ [Answer(c.cmd, "OK") EXCEPT !.id = s].cmd = c.cmd
    BY <1>0, MessagesTyped DEF Answer, ResponseCodes
  <2>2. PICK m \in Message : fromMote' = Append(fromMote, m) /\ m.cmd = c.cmd
    BY <1>4, <1>7, <2>1 DEF OnOpenSocket, FreeSockets, ResponseCodes
  <2> QED
    BY <1>2, <1>3, <2>2
<1>8. CASE OnGetServiceInfo(c)
  <2> DEFINE rc == IF mote = "OPERATIONAL" THEN "OK" ELSE "INVALID_STATE"
  <2> DEFINE m == [Answer(c.cmd, rc) EXCEPT !.completed = ~svcChanging, !.granted = service_ms]
  <2>1. service_ms \in Services /\ (~svcChanging) \in BOOLEAN
    BY DEF SysTypeOK, TypeOK
  <2>2. m \in Message /\ m.cmd = c.cmd
    BY <1>0, <2>1, MessagesTyped, ZenonT(30) DEF ResponseCodes, Answer
  <2>3. fromMote' = Append(fromMote, m)
    BY <1>8 DEF OnGetServiceInfo
  <2> HIDE DEF m
  <2> QED
    BY <1>2, <1>3, <2>2, <2>3
<1>9. CASE OnBindSocket(c) \/ OnParameter(c) \/ OnSearch(c) \/ OnJoin(c) \/ OnRequestService(c)
           \/ OnSendTo(c)
  <2>1. PICK rc \in ResponseCodes : fromMote' = Append(fromMote, Answer(c.cmd, rc))
    <3>1. {"OK", "INVALID_STATE", "NOT_FOUND", "ERROR"} \subseteq ResponseCodes
          /\ BindResult(c.socket) \in ResponseCodes
      BY DEF ResponseCodes, BindResult
    <3>2. ~OnSendTo(c)
      BY <1>0 DEF Asked, OnSendTo
    <3> QED
      BY <1>9, <3>1, <3>2 DEF OnBindSocket, OnParameter, OnSearch, OnJoin, OnRequestService
  <2> QED
    BY <1>2, <1>3, <1>4, <2>1
<1>10. \/ OnGetMoteStatus(c) \/ OnOpenSocket(c) \/ OnBindSocket(c) \/ OnParameter(c)
       \/ OnSearch(c) \/ OnJoin(c) \/ OnRequestService(c) \/ OnGetServiceInfo(c)
       \/ OnSendTo(c) \/ OnReset(c)
  BY DEF c, MoteTakes
<1> QED
  BY <1>2, <1>5, <1>6, <1>7, <1>8, <1>9, <1>10

\* The mote reports something, or restarts, or a frame is lost.
LEMMA VerdictOthers ==
  ASSUME SysTypeOK, VerdictKept,
         MoteJoins \/ ServiceChanges \/ MoteHears \/ MoteRestarts \/ Lose
  PROVE  VerdictKept' /\ verdict' = verdict
<1>1. UNCHANGED vars /\ verdict' = verdict
  BY DEF MoteJoins, ServiceChanges, MoteHears, MoteRestarts, Lose
<1>2. UNCHANGED <<state, timer, api, timeValid, txPowerValid>> /\ (Planned' <=> Planned)
  BY <1>1 DEF vars, fsmVars, callVars, dataVars, Planned
<1>3. Frames(toMote') \subseteq Frames(toMote)
  BY FramesLeft DEF MoteJoins, ServiceChanges, MoteHears, MoteRestarts, Lose
<1>4. \A f \in Frames(fromMote') : f \in Frames(fromMote) \/ f.kind # "reply"
  <2>1. CASE MoteJoins \/ ServiceChanges \/ MoteHears \/ MoteRestarts
    <3>1. PICK m \in Message : fromMote' = Append(fromMote, m) /\ m.kind # "reply"
      <4>1. \A s \in {"OPERATIONAL", "IDLE"}, e \in {{"OPERATIONAL"}, {"SVC_CHANGE"}, {}} :
              LET m == Notification(s, e) IN m \in Message /\ m.kind # "reply"
        BY MessagesTyped DEF MoteStates, MoteEvents, Notification
      <4>2. \A netId \in Networks :
              LET m == Advertisement(netId) IN m \in Message /\ m.kind # "reply"
        BY MessagesTyped DEF Advertisement
      <4> QED
        BY <2>1, <4>1, <4>2 DEF MoteJoins, ServiceChanges, MoteHears, MoteRestarts, Says
    <3>2. Frames(fromMote') \subseteq Frames(fromMote) \cup {m}
      BY <3>1, LinkIs, FramesOfOne
    <3> QED
      BY <3>1, <3>2
  <2>2. CASE Lose
    BY <2>2, FramesLeft DEF Lose
  <2> QED
    BY <2>1, <2>2
<1> QED
  BY <1>1, <1>2, <1>3, <1>4, VerdictStays

\* In a send, and in a query that has not been refused, all that can come in is
\* the answer of the mote to it.
LEMMA AnswerIsOfCall ==
  ASSUME SysTypeOK, Together, Deliver, api \in {"send"} \cup Asking, state # "DISCONNECTED"
  PROVE  /\ Head(fromMote).kind = "reply" /\ Head(fromMote).cmd = pending
         /\ pending \in Asked /\ replyCb = pending /\ state = Home(pending)
         /\ IF api = "send" THEN pending = "sendTo" ELSE pending = api
<1>1. state \in {"SENDING", "SEND_FAILED", "CONNECTED"}
  BY DEF Together, InCall
<1>2. OnlyPending
  BY <1>1 DEF Together, OnLink, Left, Rebooting, AwaitsNotice
<1>3. IsReply(Head(fromMote), pending) /\ ~Unanswered /\ Head(fromMote) \in Message
  BY <1>2, OneComesBack, DeliverKeeps, MovesUp
<1>4. pending \in Commands /\ pending # None
  BY <1>3 DEF IsReply, Message, Commands, None
<1>5. state = Home(pending) /\ replyCb = pending
  BY <1>1, <1>3, <1>4 DEF Together, InPhase, Overtaken
<1>6. pending = "sendTo" \/ pending \in Asking
  BY <1>1, <1>4, <1>5, HomeOf
<1>7. pending = "sendTo" => state = "SENDING"
  BY <1>4, <1>5, HomeOf
<1>8. /\ pending = "sendTo" => api = "send"
      /\ pending \in Asking => api = pending
  BY <1>7 DEF Together, InCall, Asking
<1> QED
  BY <1>3, <1>5, <1>6, <1>8 DEF IsReply, Asked, QueryCommands, Asking

\* The link delivers a frame: the library goes by what the mote has answered.
LEMMA VerdictDeliver ==
  ASSUME SysTypeOK, Together, VerdictKept, Deliver
  PROVE  VerdictKept'
<1> DEFINE m == Head(fromMote)
<1>0. /\ UNCHANGED <<toMote, verdict, api>> /\ m \in Message /\ m \in Frames(fromMote)
      /\ Frames(fromMote') \subseteq Frames(fromMote)
  BY DeliverKeeps, MovesUp, FramesLeft DEF Deliver, Idling
<1>1. Planned' /\ timer'.cb \in Asked => Planned /\ timer.cb \in Asked
  <2>1. \/ timer' = timer
        \/ ~timer'.armed
        \/ timer'.cb \in ConnectCommands
    <3>1. CASE UNCHANGED vars
      BY <3>1 DEF vars, fsmVars
    <3>2. CASE NotifEvents(m.moteState, m.events) \/ NotifAdvReceived(m.netId)
      BY <3>2 DEF NotifEvents, NotifAdvReceived, ExpectedEvent, OnExpectedEvent, StateOn,
         EnterState, EntryTimer, Stay, ScheduleEvent, ConnectCommands, Commands, QueryCommands,
         None
    <3>3. ASSUME NEW moteState, NEW id, NEW completed, NEW granted,
                 ReplyCb(m.rc, moteState, id, completed, granted)
          PROVE  ~timer'.armed \/ timer'.cb \in ConnectCommands
      <4> USE DEF Enter, EnterState, EntryTimer, CancelEvent, Wait, Proceed, Stay, ScheduleEvent,
                  ConnectCommands, Commands, QueryCommands
      <4>1. Reply(m.rc, moteState, id, completed, granted)
        BY <3>3 DEF ReplyCb
      <4>2. CASE replyCb \in {"reset", "disconnect", "getMoteStatus", "openSocket", "bindSocket",
                              "setJoinKey", "setNetworkId"}
        BY <4>1, <4>2 DEF Reply, ReplyReset, ReplyDisconnect, ReplyGetMoteStatus,
           ReplyOpenSocket, ReplyBindSocket, ReplySetJoinKey, ReplySetNetworkId
      <4>3. CASE replyCb \in {"search", "join", "requestService", "getServiceInfo"}
        BY <4>1, <4>3 DEF Reply, ReplySearch, ReplyJoin, ReplyRequestService, ReplyGetServiceInfo
      <4>4. CASE replyCb \in {"sendTo", "getTime", "setTxPower"}
        BY <4>1, <4>4 DEF Reply, ReplySendTo, ReplyGetTime, ReplySetTxPower
      <4> QED
        BY <4>1, <4>2, <4>3, <4>4 DEF Reply
    <3> QED
      BY <3>1, <3>2, <3>3 DEF Deliver
  <2> QED
    BY <2>1 DEF Planned, ConnectCommands, Asked
<1>2. CASE api \notin {"send"} \cup Asking
  BY <1>0, <1>1, <1>2, VerdictStays DEF Asking
<1>3. CASE api \in {"send"} \cup Asking /\ state = "DISCONNECTED"
  <2>1. api \in Asking
    BY <1>3 DEF Together, InCall, Asking
  <2>2. pending = None
    <3> SUFFICES ASSUME pending # None PROVE FALSE
      OBVIOUS
    <3>1. pending \in Commands /\ state = Home(pending)
      BY <1>3 DEF Together, InPhase, Overtaken, Unanswered, SysTypeOK, TypeOK
    <3> QED
      BY <1>3, <3>1, HomeOf
  <2>3. UNCHANGED <<timeValid, txPowerValid>>
    BY <2>2 DEF Deliver, ReplyCb, NotifEvents, NotifAdvReceived, vars, dataVars
  <2> QED
    BY <1>0, <1>1, <1>3, <2>1, <2>3, VerdictStays DEF Asking
<1>4. CASE api \in {"send"} \cup Asking /\ state # "DISCONNECTED"
  <2>1. /\ m.kind = "reply" /\ m.cmd = pending /\ pending \in Asked
        /\ replyCb = pending /\ state = Home(pending)
        /\ IF api = "send" THEN pending = "sendTo" ELSE pending = api
    BY <1>4, AnswerIsOfCall
  <2>2. verdict = m.rc /\ m.rc \in {"OK", "ERROR"}
    BY <1>0, <2>1 DEF VerdictKept
  <2>3. PICK moteState \in MoteStates, id \in SocketIds,
             completed \in BOOLEAN, granted \in Services :
          Reply(m.rc, moteState, id, completed, granted)
    BY <2>1 DEF Deliver, ReplyCb
  <2> HIDE DEF m
  <2>4. CASE pending = "sendTo"
    <3>1. api = "send" /\ state' = (IF m.rc = "OK" THEN "CONNECTED" ELSE "SEND_FAILED")
      BY <1>4, <2>1, <2>3, <2>4 DEF Reply, ReplySendTo, Enter, EnterState, Asking
    <3> QED
      BY <1>0, <1>1, <2>2, <3>1, VerdictStays DEF Asking
  <2>5. CASE pending = "getTime"
    <3>1. /\ api = "getTime" /\ (timeValid' <=> m.rc = "OK")
          /\ state' = (IF m.rc = "OK" THEN "CONNECTED" ELSE "DISCONNECTED")
      BY <1>4, <2>1, <2>3, <2>5 DEF Reply, ReplyGetTime, Enter, EnterState, Asking
    <3> QED
      BY <1>0, <1>1, <2>2, <3>1, VerdictStays DEF Asking
  <2>6. CASE pending = "setTxPower"
    <3>1. /\ api = "setTxPower" /\ (txPowerValid' <=> m.rc = "OK")
          /\ state' = (IF m.rc = "OK" THEN "CONNECTED" ELSE "DISCONNECTED")
      BY <1>4, <2>1, <2>3, <2>6 DEF Reply, ReplySetTxPower, Enter, EnterState, Asking
    <3> QED
      BY <1>0, <1>1, <2>2, <3>1, VerdictStays DEF Asking
  <2> QED
    BY <2>1, <2>4, <2>5, <2>6 DEF Asked, QueryCommands
<1> QED
  BY <1>2, <1>3, <1>4

\* Every step of the system keeps the verdict.
LEMMA VerdictStep ==
  ASSUME Known, Together, SocketKept, VerdictKept, [SysNext]_sysVars
  PROVE  VerdictKept'
<1> USE DEF Known
<1>1. CASE App \/ AppQueries
  BY <1>1, VerdictApp
<1>2. CASE SysLoop
  BY <1>2, VerdictLoop
<1>3. CASE MoteTakes
  BY <1>3, VerdictGiven, VerdictTakes
<1>4. CASE MoteJoins \/ ServiceChanges \/ MoteHears \/ MoteRestarts \/ Lose
  BY <1>4, VerdictOthers
<1>5. CASE Deliver
  BY <1>5, VerdictDeliver
<1>6. CASE UNCHANGED sysVars
  <2>1. UNCHANGED <<state, timer, api, verdict, timeValid, txPowerValid, toMote, fromMote>>
    BY <1>6 DEF sysVars, vars, fsmVars, dataVars, callVars, envVars, linkVars
  <2> QED
    BY <2>1, VerdictStays DEF Planned
<1> QED
  BY <1>1, <1>2, <1>3, <1>4, <1>5, <1>6 DEF SysNext, Mote

\* The mote answers each send and each query at most once, and the library goes
\* by that answer.
THEOREM VerdictAlways ==
  ASSUME Steady
  PROVE  SysSpec => []VerdictKept
<1>1. Known /\ Together /\ SocketKept /\ VerdictKept /\ [SysNext]_sysVars => VerdictKept'
  BY VerdictStep
<1> QED
  BY <1>1, VerdictInit, TogetherAlways, SocketAlways, KnownAlways, PTL DEF SysSpec

\* dn_qsl_send returns TRUE only for a packet that the mote has queued in this
\* very call, whatever was lost or answered late.
THEOREM SentMeansQueued ==
  ASSUME Steady
  PROVE  SysSpec => SendTrueMeansQueued
<1>1. ASSUME Known, VerdictKept, [SysNext]_sysVars,
             pc = "return", pc' = "idle", api = "send", ret'
      PROVE  verdict = "OK"
  <2>1. ASSUME ~SysReturn PROVE pc' = pc \/ pc' # "idle"
    BY <1>1, <2>1
    DEF SysNext, App, AppInit, AppSend, AppConnect, AppQueries, QslInit, Send, Connect,
        ConnectFromDisconnected, Reconnect, ConnectForService, AlreadyConnected,
        ConnectRefused, Refused, StartLoop, GetTime, SetTxPower,
        SysLoop, SysLoopTest, LoopTest, SysRun, Run, Mote, MoteTakes, MoteJoins,
        ServiceChanges, MoteHears, MoteRestarts, Lose, Deliver, ReplyCb, NotifEvents,
        NotifAdvReceived, vars, callVars, sysVars
  <2>2. SysReturn
    BY <1>1, <2>1
  <2>3. state = "CONNECTED"
    BY <1>1, <2>2 DEF SysReturn, Return, ReturnSend, ReturnConnect, ReturnGetTime, ReturnSetTxPower
  <2> QED
    BY <1>1, <2>3 DEF VerdictKept
<1>2. Known /\ VerdictKept /\ [SysNext]_sysVars =>
        [pc = "return" /\ pc' = "idle" /\ api = "send" /\ ret' => verdict = "OK"]_sysVars
  BY <1>1
<1> QED
  BY <1>2, VerdictAlways, KnownAlways, PTL DEF SysSpec, SendTrueMeansQueued

\* A query takes down the connection only if the mote has refused it: not when
\* its answer is lost, when it times out, or when an older answer comes in.
THEOREM QueriesKeepConnection ==
  ASSUME Steady
  PROVE  SysSpec => QueryKeepsConnection
<1>1. ASSUME Known, VerdictKept', [SysNext]_sysVars,
             api \in QueryCommands, state = "CONNECTED", state' # "CONNECTED"
      PROVE  verdict \notin {None, "OK"}
  <2>1. pc # "idle"
    BY <1>1 DEF Known, SysTypeOK, TypeOK, None, QueryCommands
  <2>3. ~SysReturn
    BY <1>1 DEF SysReturn, Return, ReturnConnect, ReturnSend, ReturnGetTime,
       ReturnSetTxPower, fsmVars, QueryCommands
  <2>4. api' = api \/ SysReturn
    BY <1>1, <2>1
    DEF SysNext, App, AppInit, AppSend, AppConnect, AppQueries, QslInit, Send, Connect,
        ConnectFromDisconnected, Reconnect, ConnectForService, AlreadyConnected,
        ConnectRefused, Refused, StartLoop, GetTime, SetTxPower,
        SysLoop, SysLoopTest, LoopTest, SysRun, Run, Mote, MoteTakes, MoteJoins,
        ServiceChanges, MoteHears, MoteRestarts, Lose, Deliver, ReplyCb, NotifEvents,
        NotifAdvReceived, vars, callVars, sysVars
  <2>5. verdict' = "ERROR"
    BY <1>1, <2>3, <2>4 DEF VerdictKept, QueryCommands, Asking
  <2>6. verdict' = verdict
    BY <1>1, <2>1 DEF SysNext, App, AppInit, AppSend, AppConnect, AppQueries, QslInit, Send,
       Connect, ConnectFromDisconnected, Reconnect, ConnectForService, AlreadyConnected,
       ConnectRefused, Refused, StartLoop, GetTime, SetTxPower, SysLoop, SysLoopTest, SysRun,
       SysReturn, Mote, MoteTakes, MoteJoins, ServiceChanges, MoteHears, MoteRestarts, Lose,
       Deliver, Idling, vars, fsmVars, sysVars
  <2> QED
    BY <2>5, <2>6 DEF None
<1>2. Known /\ VerdictKept' /\ [SysNext]_sysVars =>
        [(/\ api \in QueryCommands /\ state = "CONNECTED" /\ state' # "CONNECTED"
          /\ mote = "OPERATIONAL" /\ ~RestartUnderWay)
         => verdict \notin {None, "OK"}]_sysVars
  BY <1>1
<1> QED
  BY <1>2, VerdictAlways, KnownAlways, PTL DEF SysSpec, QueryKeepsConnection

-----------------------------------------------------------------------------
(* What the application sees: the library implements QslApi.                *)

\* Nothing is seen of a step that leaves these alone.
LEMMA NothingSeen ==
  ASSUME UNCHANGED <<api, ret, verdict>>, HasConnection' <=> HasConnection
  PROVE  UNCHANGED Api!apiVars
BY DEF Api!apiVars, HasConnection

\* Before dn_qsl_init there is no connection and no call.
LEMMA ApiInit == SysInit => Api!Init
BY DEF SysInit, Init, Api!Init, HasConnection, None

\* The application connects when it is not connected, and sends and asks when it
\* is; no call is refused.
LEMMA ApiApp ==
  ASSUME SysTypeOK, Together, App \/ AppQueries
  PROVE  Api!Next \/ UNCHANGED Api!apiVars
<1>1. pc = "idle"
  BY DEF App, AppQueries, AppInit, AppSend, AppConnect, QslInit, Send, GetTime, SetTxPower,
         Connect, ConnectFromDisconnected, Reconnect, ConnectForService, AlreadyConnected,
         ConnectRefused, Refused, StartLoop
<1>2. api = "none" /\ state \in {"NOT_INITIALIZED", "DISCONNECTED", "CONNECTED"}
  BY <1>1, IdleIs DEF None
<1>3. CASE AppInit
  BY <1>3, NothingSeen DEF AppInit, QslInit, EnterState, HasConnection, callVars
<1>4. CASE AppConnect
  <2>1. ConnectFromDisconnected(NetIdArg, Unset, Unset, ServiceArg)
    BY <1>2, <1>4
    DEF AppConnect, Connect, Reconnect, ConnectForService, AlreadyConnected, ConnectRefused
  <2>2. state = "DISCONNECTED" /\ state' = "PRE_JOIN" /\ api' = "connect"
        /\ UNCHANGED <<ret, verdict>>
    BY <1>4, <2>1 DEF AppConnect, ConnectFromDisconnected, EnterState, StartLoop
  <2> QED
    BY <1>2, <2>2 DEF Api!Next, Api!BeginConnect, Api!Begin, HasConnection
<1>5. CASE AppSend
  <2>1. /\ state = "CONNECTED" /\ state' = "SENDING" /\ api' = "send"
        /\ ret' = ret /\ verdict' = "none"
    BY <1>5 DEF AppSend, Send, EnterState, StartLoop, None
  <2> QED
    BY <1>2, <2>1 DEF Api!Next, Api!BeginSend, Api!Begin, HasConnection
<1>6. CASE AppQueries
  <2>1. /\ state = "CONNECTED" /\ state' = state /\ api' \in {"getTime", "setTxPower"}
        /\ ret' = ret /\ verdict' = "none"
    BY <1>6 DEF AppQueries, GetTime, SetTxPower, Stay, StartLoop, None
  <2> QED
    BY <1>2, <2>1 DEF Api!Next, Api!BeginQuery, Api!Begin, HasConnection
<1> QED
  BY <1>3, <1>4, <1>5, <1>6 DEF App

\* Nothing is seen of the loop of a call: when a command or the call runs out of
\* time, a connection being made falls back and a send fails.
LEMMA ApiLoop ==
  ASSUME SysTypeOK, Together, SysLoopTest \/ SysRun
  PROVE  UNCHANGED Api!apiVars
<1>1. UNCHANGED <<api, ret, verdict>>
  BY DEF SysLoopTest, SysRun, LoopTest, Run
<1>2. CASE SysLoopTest
  BY <1>1, <1>2, NothingSeen
  DEF SysLoopTest, LoopTest, CmdTimeout, EnterState, Stay, HasConnection, ConnectingStates, fsmVars
<1>3. CASE SysRun
  <2>1. CASE Sleep
    BY <1>1, <2>1, NothingSeen DEF Sleep, HasConnection
  <2>2. CASE Due /\ RunEvent
    <3>1. CASE \E c \in Commands : IssueCommand(c)
      BY <1>1, <3>1, NothingSeen DEF IssueCommand, Stay, HasConnection
    <3>2. CASE timer.cb = "sendTo" /\ EventSendTo
      <4>1. state = "SENDING"
        <5>1. Planned
          BY <2>2, <3>2 DEF Due, Planned
        <5>2. state = Home("sendTo")
          BY <3>2, <5>1 DEF Together, InPhase
        <5> QED
          BY <5>2 DEF Home, Chain, Boots
      <4> QED
        BY <1>1, <3>2, <4>1, NothingSeen DEF EventSendTo, HasConnection
    <3>3. CASE EventResponseTimeout
      BY <1>1, <3>3, NothingSeen
      DEF EventResponseTimeout, EnterState, Stay, HasConnection, ConnectingStates
    <3> QED
      BY <2>2, <3>1, <3>2, <3>3
      DEF RunEvent, Commands, EventReset, EventDisconnect, EventGetMoteStatus,
          EventOpenSocket, EventBindSocket, EventSetJoinKey, EventSetNetworkId,
          EventSearch, EventJoin, EventRequestService, EventGetServiceInfo,
          EventGetTime, EventSetTxPower
  <2> QED
    BY <1>3, <2>1, <2>2 DEF SysRun, Run
<1> QED
  BY <1>2, <1>3

\* A call returns what is true of the connection, of the packet or of the query.
LEMMA ApiReturn ==
  ASSUME SysTypeOK, Together, VerdictKept, SysReturn
  PROVE  Api!Finish
<1>1. /\ pc = "return" /\ api' = "none" /\ UNCHANGED <<verdict, dataVars>>
      /\ api \in Apis /\ timeValid \in BOOLEAN /\ txPowerValid \in BOOLEAN
  BY DEF SysReturn, Return, None, SysTypeOK, TypeOK
<1>2. api # "none"
  BY <1>1 DEF Apis
<1>3. CASE ReturnConnect
  <2>1. state \in ConnectingStates \cup {"CONNECTED", "DISCONNECTED"}
    BY <1>3 DEF ReturnConnect, Together, InCall
  <2>2. ret' = HasConnection /\ HasConnection' = HasConnection
    BY <1>3, <2>1 DEF ReturnConnect, HasConnection, ConnectingStates, fsmVars
  <2>3. ret' \in Api!Truth
    BY <1>3, <2>2 DEF ReturnConnect, Api!Truth
  <2> QED
    BY <1>1, <1>2, <2>2, <2>3 DEF Api!Finish
<1>4. CASE ReturnSend
  <2>1. state \in {"SEND_FAILED", "CONNECTED"} /\ (state = "CONNECTED" => verdict = "OK")
    BY <1>1, <1>4 DEF ReturnSend, Together, InCall, VerdictKept
  <2>2. HasConnection /\ HasConnection'
    BY <1>4, <2>1 DEF ReturnSend, EnterState, HasConnection, fsmVars
  <2>3. HasConnection' = HasConnection
    BY <2>2 DEF HasConnection
  <2>4. ret' = FALSE \/ (ret' = TRUE /\ verdict = "OK")
    BY <1>1, <1>4, <2>1 DEF ReturnSend
  <2>5. ret' \in Api!Truth
    BY <1>4, <2>4 DEF ReturnSend, Api!Truth
  <2> QED
    BY <1>1, <1>2, <2>3, <2>5 DEF Api!Finish
<1>5. CASE ReturnGetTime \/ ReturnSetTxPower
  <2>1. ret' = FALSE \/ (ret' = TRUE /\ verdict = "OK")
    BY <1>1, <1>5 DEF ReturnGetTime, ReturnSetTxPower, VerdictKept
  <2>2. HasConnection' = HasConnection
    BY <1>5 DEF ReturnGetTime, ReturnSetTxPower, HasConnection, fsmVars
  <2>3. ret' \in Api!Truth
    BY <1>5, <2>1 DEF ReturnGetTime, ReturnSetTxPower, Api!Truth
  <2> QED
    BY <1>1, <1>2, <2>2, <2>3 DEF Api!Finish
<1> QED
  BY <1>3, <1>4, <1>5 DEF SysReturn, Return

\* Of the mote only its answer to the packet or the query under way is seen.
LEMMA ApiMote ==
  ASSUME SysTypeOK, Together, AnsweredIsOver, SocketKept, VerdictKept,
         Mote \/ MoteRestarts \/ Lose \/ UNCHANGED sysVars
  PROVE  Api!Next \/ UNCHANGED Api!apiVars
<1>1. UNCHANGED <<state, api, ret>> /\ (HasConnection' <=> HasConnection)
  BY DEF Mote, MoteTakes, MoteJoins, ServiceChanges, MoteHears, MoteRestarts, Lose, sysVars,
         vars, fsmVars, callVars, HasConnection
<1>2. CASE verdict' = verdict
  BY <1>1, <1>2, NothingSeen
<1>3. CASE verdict' # verdict
  <2>1. MoteTakes
    BY <1>3 DEF Mote, MoteJoins, ServiceChanges, MoteHears, MoteRestarts, Lose, sysVars
  <2>2. Head(toMote).cmd \in Asked
    BY <1>3, <2>1, VerdictTakes
  <2>3. verdict = "none" /\ verdict' \in IF api = "send" THEN {"OK"} ELSE {"OK", "ERROR"}
    BY <2>1, <2>2, VerdictGiven DEF None
  <2>4. api \in {"send", "getTime", "setTxPower"}
    <3>1. Head(toMote).cmd = pending
          /\ IF pending = "sendTo" THEN state = "SENDING" /\ api = "send"
             ELSE state = "CONNECTED" /\ api = pending
      BY <2>1, <2>2, AskedIsOfCall
    <3> QED
      BY <2>2, <3>1 DEF Asked, QueryCommands
  <2> QED
    BY <1>1, <2>3, <2>4 DEF Api!Next, Api!Answers, HasConnection
<1> QED
  BY <1>2, <1>3

\* Nothing comes in that could end a connection: while the library counts itself
\* connected and does not wait for an answer, the link is empty.
LEMMA ConnectedIsFree ==
  ASSUME SysTypeOK, Together, state = "CONNECTED", api \in {None, "connect"}
  PROVE  fromMote = <<>>
<1>1. OnlyPending
  BY DEF Together, OnLink, Left, Rebooting, AwaitsNotice
<1>2. pending = None
  <2> SUFFICES ASSUME pending # None PROVE FALSE
    OBVIOUS
  <2>1. pending \in Commands /\ state = Home(pending)
    BY DEF Together, InPhase, Overtaken, Unanswered, SysTypeOK, TypeOK
  <2>2. pending \in Asking
    BY <2>1, HomeOf
  <2> QED
    BY <2>2 DEF Together, InCall, Asking, None
<1> QED
  BY <1>1, <1>2, FreeIsEmpty

\* What comes in from the mote can bring up the connection in a connect, takes it
\* down in a query that was refused, and otherwise leaves it as it is.
LEMMA ApiDeliver ==
  ASSUME SysTypeOK, Together, Together', VerdictKept', Deliver
  PROVE  Api!Next \/ UNCHANGED Api!apiVars
<1>1. UNCHANGED <<pc, api, ret, verdict>> /\ fromMote # <<>>
  BY DEF Deliver, Idling, ReplyCb, NotifEvents, NotifAdvReceived, vars, callVars
<1>2. api \in Apis \cup {None} /\ InCall /\ InCall'
  BY DEF Together, SysTypeOK, TypeOK
<1>3. CASE api = None
  <2>1. state \in {"NOT_INITIALIZED", "DISCONNECTED"} /\ pending = None
    <3>1. pc = "idle"
      BY <1>3 DEF SysTypeOK, TypeOK
    <3> QED
      BY <1>1, <3>1, IdleIs
  <2>2. state' = state
    BY <2>1 DEF Deliver, ReplyCb, NotifEvents, NotifAdvReceived, ExpectedEvent, StateOn,
                Stay, ConnectingStates, None, vars, fsmVars
  <2> QED
    BY <1>1, <2>2, NothingSeen DEF HasConnection
<1>4. CASE api = "send"
  <2>1. HasConnection /\ HasConnection'
    BY <1>1, <1>2, <1>4 DEF InCall, HasConnection
  <2> QED
    BY <1>1, <2>1, NothingSeen
<1>5. CASE api \in Asking
  <2>1. state \in {"CONNECTED", "DISCONNECTED"} /\ state' \in {"CONNECTED", "DISCONNECTED"}
    BY <1>1, <1>2, <1>5 DEF InCall
  <2>2. (HasConnection <=> state = "CONNECTED") /\ (HasConnection' <=> state' = "CONNECTED")
    BY <2>1 DEF HasConnection
  <2>3. CASE state' = state
    BY <1>1, <2>2, <2>3, NothingSeen
  <2>4. CASE state = "CONNECTED" /\ state' = "DISCONNECTED"
    <3>1. verdict = "ERROR"
      BY <1>1, <1>5, <2>4 DEF VerdictKept
    <3>2. HasConnection /\ ~HasConnection' /\ HasConnection' = FALSE
      BY <2>4 DEF HasConnection
    <3> QED
      BY <1>1, <1>5, <3>1, <3>2 DEF Api!Next, Api!GoesDown, Asking
  <2>5. CASE state = "DISCONNECTED"
    <3>1. pending = None
      <4> SUFFICES ASSUME pending # None PROVE FALSE
        OBVIOUS
      <4>1. pending \in Commands /\ state = Home(pending)
        BY <2>5 DEF Together, InPhase, Overtaken, Unanswered, SysTypeOK, TypeOK
      <4> QED
        BY <2>5, <4>1, HomeOf
    <3>2. state' = state
      BY <2>5, <3>1 DEF Deliver, ReplyCb, NotifEvents, NotifAdvReceived, ExpectedEvent, StateOn,
                        Stay, ConnectingStates, None, vars, fsmVars
    <3> QED
      BY <2>3, <3>2
  <2> QED
    BY <2>1, <2>3, <2>4, <2>5
<1>6. CASE api = "connect"
  <2>1. state # "CONNECTED"
    BY <1>1, <1>6, ConnectedIsFree
  <2>2. ~HasConnection
    BY <1>2, <1>6, <2>1 DEF InCall, HasConnection, ConnectingStates
  <2>3. CASE HasConnection'
    BY <1>1, <1>6, <2>2, <2>3 DEF Api!Next, Api!ComesUp, HasConnection
  <2>4. CASE ~HasConnection'
    BY <1>1, <2>2, <2>4, NothingSeen
  <2> QED
    BY <2>3, <2>4
<1> QED
  BY <1>2, <1>3, <1>4, <1>5, <1>6 DEF Apis, Asking

\* Whatever frames are lost, the application sees what QslApi promises: only
\* dn_qsl_connect makes a connection and tells the truth about it, only a query
\* that the mote refuses ends it, and a send or a query says TRUE only of what
\* the mote has accepted in that very call.
THEOREM SystemImplementsApi ==
  ASSUME Steady
  PROVE  SysSpec => ImplementsApi
<1>1. ASSUME Known, Together, Together', SocketKept, VerdictKept, VerdictKept',
             [SysNext]_sysVars
      PROVE  Api!Next \/ UNCHANGED Api!apiVars
  <2>1. CASE App \/ AppQueries
    BY <1>1, <2>1, ApiApp DEF Known
  <2>2. CASE SysLoop
    BY <1>1, <2>2, ApiLoop, ApiReturn DEF Known, SysLoop, Api!Next
  <2>3. CASE Mote \/ MoteRestarts \/ Lose \/ UNCHANGED sysVars
    BY <1>1, <2>3, ApiMote DEF Known
  <2>4. CASE Deliver
    BY <1>1, <2>4, ApiDeliver DEF Known
  <2> QED
    BY <1>1, <2>1, <2>2, <2>3, <2>4 DEF SysNext
<1>2. Known /\ Together /\ Together' /\ SocketKept /\ VerdictKept /\ VerdictKept'
      /\ [SysNext]_sysVars
        => [Api!Next]_(Api!apiVars)
  BY <1>1
<1> QED
  BY <1>2, ApiInit, TogetherAlways, SocketAlways, VerdictAlways, KnownAlways, PTL
  DEF SysSpec, ImplementsApi, Api!Spec

=============================================================================
