---------------------------- MODULE QslReconnect ----------------------------
(***************************************************************************)
(* dn_qsl_connect called again by an application that already has a        *)
(* connection: QslFsm with a memory of the arguments of the calls.  The    *)
(* application only connects and sends here, with arguments from CallArgs. *)
(***************************************************************************)
EXTENDS QslFsm

CONSTANT CallArgs    \* the argument lists the application uses

ASSUME CallArgsAssumption ==
  CallArgs \subseteq [netID : NetIds \cup {Unset}, key : JoinKeys \cup {Unset},
                      port : SrcPorts \cup {Unset}, service : Services]

VARIABLES
  calling,     \* history: the arguments of the last call of connect
  granted      \* history: those of the last one that returned TRUE

NoArgs == [netID |-> Unset, key |-> Unset, port |-> Unset, service |-> -1]

reVars == <<vars, calling, granted>>

CallAgain ==
  \E a \in CallArgs :
     /\ Connect(a.netID, a.key, a.port, a.service)
     /\ calling' = a
     /\ UNCHANGED granted

Step ==
  /\ QslInit \/ Send(TRUE) \/ Idle \/ LoopTest \/ Run
     \/ MoteReplies \/ MoteReports \/ MoteHearsNetwork
  /\ UNCHANGED <<calling, granted>>

ReturnAgain ==
  /\ Return
  /\ granted' = IF api = "connect" THEN (IF ret' THEN calling ELSE NoArgs)
                ELSE granted
  /\ UNCHANGED calling

ReInit == Init /\ calling = NoArgs /\ granted = NoArgs

ReNext == CallAgain \/ Step \/ ReturnAgain

ReSpec == ReInit /\ [][ReNext]_reVars

\* The call repeats the arguments of the last one that returned TRUE, over a
\* connection that has not been lost.
Repeats == pc = "idle" /\ pc' = "test" /\ calling' = granted /\ state = "CONNECTED"

\* Repeating a successful call of dn_qsl_connect with the arguments it had
\* leaves the connection alone.
RepeatKeepsConnection ==
  [][Repeats /\ api' = "connect" => state' = "CONNECTED"]_reVars

\* The same, for the applications that name the network they want.
RepeatKeepsNamedConnection ==
  [][Repeats /\ api' = "connect" /\ granted.netID # PromiscuousId
       => state' = "CONNECTED"]_reVars

=============================================================================
