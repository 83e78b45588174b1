------------------------------- MODULE QslApi -------------------------------
(***************************************************************************)
(* What the QuickStart Library promises its application (dn_qsl_api.h:42-  *)
(* 131), whatever frames the serial link loses, as long as the mote does   *)
(* not restart on its own and the network is asked for by name: a          *)
(* connection is made by dn_qsl_connect alone and is lost only in a query  *)
(* that the mote refuses, and a send or a query says TRUE only of what the *)
(* mote has accepted in that call.  The application connects when it is    *)
(* not connected, and sends or asks when it is.                            *)
(***************************************************************************)

VARIABLES
  connected,   \* dn_qsl_isConnected, between calls
  call,        \* the call under way, or "none"
  ret,         \* what the last call returned
  verdict      \* the mote's answer to the packet or the query of the call, or "none"

apiVars == <<connected, call, ret, verdict>>

Begin(c) == call = "none" /\ call' = c /\ UNCHANGED <<connected, ret>>

BeginConnect == ~connected /\ Begin("connect") /\ UNCHANGED verdict

BeginSend == connected /\ Begin("send") /\ verdict' = "none"

BeginQuery ==
  /\ connected
  /\ Begin("getTime") \/ Begin("setTxPower")
  /\ verdict' = "none"

\* The connection comes up inside dn_qsl_connect and nowhere else.
ComesUp ==
  /\ call = "connect" /\ ~connected /\ connected' = TRUE
  /\ UNCHANGED <<call, ret, verdict>>

\* The mote answers once, while the call is waiting for that and not later.  It
\* takes a packet of a connection; a query it may refuse.
Answers ==
  /\ call \in {"send", "getTime", "setTxPower"} /\ verdict = "none"
  /\ verdict' \in IF call = "send" THEN {"OK"} ELSE {"OK", "ERROR"}
  /\ UNCHANGED <<connected, call, ret>>

\* The library gives the connection up for a query that was refused.
GoesDown ==
  /\ call \in {"getTime", "setTxPower"} /\ verdict = "ERROR"
  /\ connected /\ connected' = FALSE
  /\ UNCHANGED <<call, ret, verdict>>

\* FALSE may also stand for what was accepted, if the answer was lost.
Truth ==
  IF call = "connect" THEN {connected} ELSE {FALSE, verdict = "OK"}

Finish ==
  /\ call # "none" /\ call' = "none"
  /\ ret' \in Truth
  /\ UNCHANGED <<connected, verdict>>

Init == ~connected /\ call = "none" /\ ret = FALSE /\ verdict = "none"

Next ==
  \/ BeginConnect \/ BeginSend \/ BeginQuery
  \/ ComesUp \/ Answers \/ GoesDown \/ Finish

Spec == Init /\ [][Next]_apiVars

=============================================================================
