--------------------------- MODULE MCQslReconnect ---------------------------
(* Instance of QslReconnect: a named network, the default one and the        *)
(* promiscuous search.                                                       *)
EXTENDS QslReconnect

MCCallArgs ==
  { [netID |-> PromiscuousId, key |-> Unset, port |-> Unset, service |-> 0],
    [netID |-> DefaultNetId, key |-> Unset, port |-> DefaultSrcPort, service |-> 1],
    [netID |-> Unset, key |-> DefaultJoinKey, port |-> Unset, service |-> 0] }

=============================================================================
