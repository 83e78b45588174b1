------------------------------ MODULE QslSystem -----------------------------
(***************************************************************************)
(* The library (QslFsm) with what it talks to: the mote at the other end   *)
(* of the serial link, and the application above it.                       *)
(*                                                                         *)
(* The mote and the link are not part of the repository.  They are         *)
(* modelled from how dn_fsm.c uses them: the commands it issues, the       *)
(* replies and the notifications it handles, and the comments that say     *)
(* what the mote does (dn_fsm.c:671-1230, dn_fsm.h:67-99).  The link keeps *)
(* the order of messages in each direction; a damaged frame is dropped.    *)
(* The application is the main loop of examples/*/SimplePublish/main.c,    *)
(* with the further calls AppCalls names.                                  *)
(***************************************************************************)
EXTENDS QslFsm, Sequences

CONSTANTS
  AppCalls,      \* "getTime", "setTxPower": calls the application adds
  NetIdArg,      \* NETID, the network the application asks for
  ServiceArg,    \* BANDWIDTH_MS, the service it asks for
  Networks,      \* the networks in the range of the mote
  MaxRestarts,   \* how often the mote restarts on its own
  MaxLosses,     \* how many frames the link drops
  MaxRefusals,   \* how many parameters and queries the mote answers with an error
  MaxLink        \* bound on the messages under way in each direction

ASSUME SystemAssumption ==
  /\ AppCalls \subseteq {"getTime", "setTxPower"}
  /\ NetIdArg \in NetIds \cup {Unset}
  /\ ServiceArg \in Services
  /\ Networks \subseteq NetIds \ {PromiscuousId}
  /\ MaxRestarts \in Nat /\ MaxLosses \in Nat /\ MaxRefusals \in Nat
  /\ MaxLink \in Nat \ {0}

VARIABLES
  mote,          \* what the mote is doing
  sockets,       \* its sockets, lost in a restart
  svcChanging,   \* a service request is with the manager
  toMote,        \* commands under way
  fromMote,      \* replies and notifications under way
  restarts, losses, refusals,
  verdict        \* history: the mote's answer to the packet or the query of the
                 \* call under way, or None

moteVars == <<mote, sockets, svcChanging>>
linkVars == <<toMote, fromMote>>
countVars == <<restarts, losses, refusals>>
envVars == <<moteVars, linkVars, countVars>>
sysVars == <<vars, envVars, verdict>>

-----------------------------------------------------------------------------
(* Messages. *)

Notification(moteState, events) ==
  [kind |-> "events", moteState |-> moteState, events |-> events]

Advertisement(netId) == [kind |-> "advReceived", netId |-> netId]

\* A reply carries the parameters of its own type; rest stands for the others.
Answer(c, rc) ==
  [kind |-> "reply", cmd |-> c, rc |-> rc, moteState |-> "SEARCHING",
   id |-> 0, completed |-> TRUE, granted |-> 0]

\* A command carries the socket it uses, if any.
Request(c) == [cmd |-> c, socket |-> socketId]

ReportedState ==
  CASE mote = "IDLE" -> "IDLE"
    [] mote \in {"SEARCHING", "JOINING"} -> "SEARCHING"
    [] mote = "OPERATIONAL" -> "OPERATIONAL"

-----------------------------------------------------------------------------
(* The mote. *)

FreeSockets == {s \in SocketIds : sockets[s] = "free"}

\* The mote takes the next command; its answer m and what it does.
OnGetMoteStatus(c) ==
  /\ c.cmd = "getMoteStatus"
  /\ fromMote' = Append(fromMote,
       [Answer(c.cmd, "OK") EXCEPT !.moteState = ReportedState])
  /\ UNCHANGED moteVars

OnOpenSocket(c) ==
  /\ c.cmd = "openSocket"
  /\ \/ \E s \in FreeSockets :
          /\ \A r \in FreeSockets : s <= r
          /\ sockets' = [sockets EXCEPT ![s] = "open"]
          /\ fromMote' = Append(fromMote, [Answer(c.cmd, "OK") EXCEPT !.id = s])
     \/ /\ FreeSockets = {}
        /\ fromMote' = Append(fromMote, Answer(c.cmd, "NO_RESOURCES"))
        /\ UNCHANGED sockets
  /\ UNCHANGED <<mote, svcChanging>>

BindResult(s) ==
  IF sockets[s] = "free" THEN "NOT_FOUND"
  ELSE IF \E r \in SocketIds : sockets[r] = "bound" THEN "BUSY"
  ELSE "OK"

OnBindSocket(c) ==
  /\ c.cmd = "bindSocket"
  /\ fromMote' = Append(fromMote, Answer(c.cmd, BindResult(c.socket)))
  /\ sockets' = IF BindResult(c.socket) = "OK"
                THEN [sockets EXCEPT ![c.socket] = "bound"] ELSE sockets
  /\ UNCHANGED <<mote, svcChanging>>

\* Parameters are written to storage and survive a restart; the mote may refuse
\* to set or to get one, and counts itself connected all the same.
OnParameter(c) ==
  /\ c.cmd \in {"setJoinKey", "setNetworkId"} \cup QueryCommands
  /\ \E rc \in {"OK", "ERROR"} :
       /\ rc = "ERROR" => refusals < MaxRefusals
       /\ refusals' = IF rc = "ERROR" THEN refusals + 1 ELSE refusals
       /\ fromMote' = Append(fromMote, Answer(c.cmd, rc))
       /\ verdict' = IF c.cmd \in QueryCommands THEN rc ELSE verdict
  /\ UNCHANGED moteVars

OnSearch(c) ==
  /\ c.cmd = "search"
  /\ IF mote = "IDLE"
     THEN mote' = "SEARCHING" /\ fromMote' = Append(fromMote, Answer(c.cmd, "OK"))
     ELSE /\ fromMote' = Append(fromMote, Answer(c.cmd, "INVALID_STATE"))
          /\ UNCHANGED mote
  /\ UNCHANGED <<sockets, svcChanging>>

OnJoin(c) ==
  /\ c.cmd = "join"
  /\ IF mote \in {"IDLE", "SEARCHING"}
     THEN mote' = "JOINING" /\ fromMote' = Append(fromMote, Answer(c.cmd, "OK"))
     ELSE /\ fromMote' = Append(fromMote, Answer(c.cmd, "INVALID_STATE"))
          /\ UNCHANGED mote
  /\ UNCHANGED <<sockets, svcChanging>>

OnRequestService(c) ==
  /\ c.cmd = "requestService"
  /\ IF mote = "OPERATIONAL"
     THEN svcChanging' = TRUE /\ fromMote' = Append(fromMote, Answer(c.cmd, "OK"))
     ELSE /\ fromMote' = Append(fromMote, Answer(c.cmd, "INVALID_STATE"))
          /\ UNCHANGED svcChanging
  /\ UNCHANGED <<mote, sockets>>

\* The manager grants what was requested (service_ms).
OnGetServiceInfo(c) ==
  /\ c.cmd = "getServiceInfo"
  /\ fromMote' = Append(fromMote,
       [Answer(c.cmd, IF mote = "OPERATIONAL" THEN "OK" ELSE "INVALID_STATE")
          EXCEPT !.completed = ~svcChanging, !.granted = service_ms])
  /\ UNCHANGED moteVars

Deliverable(c) == mote = "OPERATIONAL" /\ sockets[c.socket] # "free"

OnSendTo(c) ==
  /\ c.cmd = "sendTo"
  /\ verdict' = IF Deliverable(c) THEN "OK" ELSE "NOT_FOUND"
  /\ fromMote' = Append(fromMote, Answer(c.cmd, verdict'))
  /\ UNCHANGED <<moteVars, refusals>>

Booted ==
  /\ mote' = "IDLE"
  /\ sockets' = [s \in SocketIds |-> "free"]
  /\ svcChanging' = FALSE

\* Reset, or disconnect: answered, then the mote boots and says so.
OnReset(c) ==
  /\ c.cmd \in {"reset", "disconnect"}
  /\ Booted
  /\ fromMote' = fromMote \o <<Answer(c.cmd, "OK"), Notification("IDLE", {})>>

MoteTakes ==
  /\ toMote # <<>> /\ Len(fromMote) < MaxLink
  /\ toMote' = Tail(toMote)
  /\ LET c == Head(toMote) IN
       \/ OnParameter(c) \/ OnSendTo(c)
       \/ /\ \/ OnGetMoteStatus(c) \/ OnOpenSocket(c) \/ OnBindSocket(c)
             \/ OnSearch(c) \/ OnJoin(c) \/ OnRequestService(c)
             \/ OnGetServiceInfo(c) \/ OnReset(c)
          /\ UNCHANGED <<refusals, verdict>>
  /\ UNCHANGED <<vars, restarts, losses>>

Says(m) == Len(fromMote) < MaxLink /\ fromMote' = Append(fromMote, m)

\* Joining, a change of service and hearing a network take seconds, so the
\* library has the answer to its command, or has given it up, when they happen.
JoinEnds == mote = "JOINING" /\ pending # "join" /\ Networks # {}

ServiceEnds == svcChanging /\ pending # "requestService"

\* Advertisements the library would ignore are left out.
SearchEnds ==
  /\ mote = "SEARCHING" /\ pending # "search" /\ Networks # {}
  /\ fromMote = <<>>
  /\ state = "PROMISCUOUS" /\ networkId = PromiscuousId

MoteJoins ==
  /\ JoinEnds
  /\ mote' = "OPERATIONAL"
  /\ Says(Notification("OPERATIONAL", {"OPERATIONAL"}))
  /\ UNCHANGED <<vars, sockets, svcChanging, toMote, countVars, verdict>>

ServiceChanges ==
  /\ ServiceEnds
  /\ svcChanging' = FALSE
  /\ Says(Notification("OPERATIONAL", {"SVC_CHANGE"}))
  /\ UNCHANGED <<vars, mote, sockets, toMote, countVars, verdict>>

MoteHears ==
  /\ SearchEnds
  /\ \E netId \in Networks : Says(Advertisement(netId))
  /\ UNCHANGED <<vars, moteVars, toMote, countVars, verdict>>

\* The mote restarts on its own (power, its own watchdog, loss of the network).
MoteRestarts ==
  /\ restarts < MaxRestarts /\ restarts' = restarts + 1
  /\ state # "NOT_INITIALIZED"
  /\ Booted
  /\ Says(Notification("IDLE", {}))
  /\ UNCHANGED <<vars, toMote, losses, refusals, verdict>>

-----------------------------------------------------------------------------
(* The link, and the callbacks of the library. *)

Idling == UNCHANGED <<moteVars, toMote, countVars, verdict>>

Deliver ==
  /\ fromMote # <<>>
  /\ fromMote' = Tail(fromMote)
  /\ LET m == Head(fromMote) IN
       \/ /\ m.kind = "reply" /\ m.cmd = pending
          /\ \E moteState \in MoteStates, id \in SocketIds,
                completed \in BOOLEAN, granted \in Services :
               /\ replyCb = m.cmd =>
                    /\ moteState = m.moteState /\ id = m.id
                    /\ completed = m.completed /\ granted = m.granted
               /\ ReplyCb(m.rc, moteState, id, completed, granted)
       \/ m.kind = "reply" /\ m.cmd # pending /\ UNCHANGED vars
       \/ m.kind = "events" /\ NotifEvents(m.moteState, m.events)
       \/ m.kind = "advReceived" /\ NotifAdvReceived(m.netId)
  /\ Idling

Lose ==
  /\ losses < MaxLosses /\ losses' = losses + 1
  /\ \/ toMote # <<>> /\ toMote' = Tail(toMote) /\ UNCHANGED fromMote
     \/ fromMote # <<>> /\ fromMote' = Tail(fromMote) /\ UNCHANGED toMote
  /\ UNCHANGED <<vars, moteVars, restarts, refusals, verdict>>

-----------------------------------------------------------------------------
(* The library and the application. *)

InTransit == toMote # <<>> \/ fromMote # <<>>

\* Timing of the mote (dn_fsm.h:70-72): a command is answered well before the
\* response timeout, and joining ends well before the connect timeout.
TimeMayPass ==
  \/ timer.armed /\ timer.cb # "responseTimeout"
  \/ ~InTransit /\ ~JoinEnds /\ ~ServiceEnds /\ ~SearchEnds

SysRun ==
  /\ Run
  /\ ~Due => TimeMayPass
  /\ Due /\ timer.cb \in Commands =>
       /\ Len(toMote) < MaxLink
       /\ pending = None => pending' = timer.cb    \* a free library accepts
  /\ toMote' = IF pending = None /\ pending' # None
               THEN Append(toMote, Request(pending')) ELSE toMote
  /\ UNCHANGED <<moteVars, fromMote, countVars, verdict>>

SysLoopTest == LoopTest /\ UNCHANGED <<envVars, verdict>>

SysReturn == Return /\ UNCHANGED <<envVars, verdict>>

\* main: send when connected, connect when not.
AppSend ==
  /\ state = "CONNECTED" /\ Send(TRUE)
  /\ verdict' = None
  /\ UNCHANGED envVars

AppConnect ==
  /\ state \notin {"CONNECTED", "NOT_INITIALIZED"}
  /\ Connect(NetIdArg, Unset, Unset, ServiceArg)
  /\ UNCHANGED <<envVars, verdict>>

AppInit == QslInit /\ UNCHANGED <<envVars, verdict>>

\* An application that asks dn_qsl_isConnected first.
AppQueries ==
  /\ state = "CONNECTED"
  /\ \/ "getTime" \in AppCalls /\ GetTime
     \/ "setTxPower" \in AppCalls /\ SetTxPower
  /\ verdict' = None
  /\ UNCHANGED envVars

SysInit ==
  /\ Init
  /\ mote = "IDLE" /\ sockets = [s \in SocketIds |-> "free"]
  /\ svcChanging = FALSE
  /\ toMote = <<>> /\ fromMote = <<>>
  /\ restarts = 0 /\ losses = 0 /\ refusals = 0
  /\ verdict = None

SysLoop == SysLoopTest \/ SysRun \/ SysReturn

App == AppInit \/ AppSend \/ AppConnect

Mote == MoteTakes \/ MoteJoins \/ ServiceChanges \/ MoteHears

SysNext ==
  \/ App \/ AppQueries \/ SysLoop \/ Mote \/ Deliver
  \/ MoteRestarts \/ Lose

SysSpec == SysInit /\ [][SysNext]_sysVars

\* The application's main loop comes back to its connect or send whatever else
\* it calls, the scheduler keeps running the loop of a call, the mote keeps
\* working and the link keeps delivering.
SysFairSpec ==
  /\ SysSpec
  /\ SF_sysVars(App) /\ WF_sysVars(SysLoop)
  /\ WF_sysVars(Mote) /\ WF_sysVars(Deliver)

-----------------------------------------------------------------------------
(* Properties.                                                              *)

\* What the mote sends.
Message ==
  [kind : {"reply"}, cmd : Commands, rc : ResponseCodes, moteState : MoteStates,
   id : SocketIds, completed : BOOLEAN, granted : Services]
  \cup [kind : {"events"}, moteState : MoteStates, events : SUBSET MoteEvents]
  \cup [kind : {"advReceived"}, netId : Networks]

\* Type invariant.
SysTypeOK ==
  /\ TypeOK
  /\ mote \in {"IDLE", "SEARCHING", "JOINING", "OPERATIONAL"}
  /\ sockets \in [SocketIds -> {"free", "open", "bound"}]
  /\ svcChanging \in BOOLEAN /\ verdict \in ResponseCodes \cup {None}
  /\ toMote \in Seq([cmd : Commands, socket : SocketIds])
  /\ fromMote \in Seq(Message)
  /\ restarts \in 0 .. MaxRestarts /\ losses \in 0 .. MaxLosses
  /\ refusals \in 0 .. MaxRefusals

\* A restart of the mote is about to be reported.
RestartUnderWay ==
  \E i \in DOMAIN fromMote :
     fromMote[i].kind = "events" /\ fromMote[i].moteState = "IDLE"

\* dn_qsl_send returns TRUE only if the mote has queued the packet of that very
\* call, whatever was lost or answered late meanwhile, as long as the mote does
\* not restart on its own.
SendTrueMeansQueued ==
  [][pc = "return" /\ pc' = "idle" /\ api = "send" /\ ret' => verdict = "OK"]_sysVars

\* A query (getTime, setTxPower) takes down a connection the mote still has only
\* when the mote has refused that very query: not when its answer is lost, when
\* it times out, or when the answer to an older query comes in instead.
QueryKeepsConnection ==
  [][(/\ api \in QueryCommands /\ state = "CONNECTED" /\ state' # "CONNECTED"
      /\ mote = "OPERATIONAL" /\ ~RestartUnderWay)
       => verdict \notin {None, "OK"}]_sysVars

\* When no call is active the machine is where the next call can start from:
\* dn_qsl_connect never has to refuse because of an "unexpected state".
RestsReady ==
  pc = "idle" => state \in {"NOT_INITIALIZED", "DISCONNECTED", "CONNECTED"}

\* While the library counts itself connected the mote is on the network, or the
\* report of its restart has not reached the library yet.
ConnectedMeansOperational ==
  state \in {"CONNECTED", "SENDING"} => mote = "OPERATIONAL" \/ RestartUnderWay

\* The socket that dn_event_sendTo uses is open and bound at the mote while
\* both sides count themselves connected.
ConnectedMeansBound ==
  state \in {"CONNECTED", "SENDING"} /\ mote = "OPERATIONAL" =>
    sockets[socketId] = "bound" \/ RestartUnderWay

\* A connect attempt that has fallen back to PRE_JOIN is under way: its first
\* command is scheduled or waits for an answer.
RetryIsScheduled == pc = "run" /\ state = "PRE_JOIN" => timer.armed

\* A send does not give up the connection, even if it fails.
HasConnection == state \in {"CONNECTED", "SENDING", "SEND_FAILED"}

\* With a mote that does not restart on its own and a network asked for by name
\* the library implements QslApi, whatever frames are lost: dn_qsl_connect alone
\* makes a connection and tells the truth about it, only a query the mote has
\* refused ends it, and no send or query claims more than the mote has answered
\* to it.
Api == INSTANCE QslApi WITH
         connected <- HasConnection, call <- api

ImplementsApi == Api!Spec

\* The application gets connected again and again, whenever the mote restarts and
\* whatever frames are lost.  This is what dn_qsl_isConnected says, which may be
\* stale: see ConnectedMeansOperational.
KeepsConnecting == []<>(state = "CONNECTED")

\* The application's main loop gets packets accepted again and again.
KeepsSending == []<>(api = "send" /\ verdict = "OK")

=============================================================================
