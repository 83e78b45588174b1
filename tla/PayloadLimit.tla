---------------------------- MODULE PayloadLimit ----------------------------
(***************************************************************************)
(* The largest payload dn_qsl_send accepts (getPayloadLimit of dn_fsm.c),  *)
(* and the limit of the packet it hands over.                              *)
(***************************************************************************)
EXTENDS Integers

CONSTANT DestIsManager   \* whether DN_DEST_IP is the manager's address

ASSUME PayloadAssumption == DestIsManager \in BOOLEAN

\* A number of 16 bits.
Word(high, low) == (256 * high) + low

Ports == 0 .. Word(255, 255)

\* DN_WELL_KNOWN_PORT_1 to DN_WELL_KNOWN_PORT_8.
WellKnownPorts == Word(240, 184) .. Word(240, 191)

DefaultPort == Word(240, 184)

PayloadBufSize == 90

\* The table of dn_defaults.h:45-50, by how many of the two ports are well-known.
SizeLimit(high, med, low, dest, src) ==
  IF dest \in WellKnownPorts /\ src \in WellKnownPorts THEN high
  ELSE IF dest \in WellKnownPorts \/ src \in WellKnownPorts THEN med
  ELSE low

LimitOf(dest, src) ==
  IF DestIsManager THEN SizeLimit(90, 88, 87, dest, src)
                   ELSE SizeLimit(74, 72, 71, dest, src)

\* Fault: a port of 0 is taken for the default, for the source too.
GetPayloadLimitDefaults(destPort, srcPort) ==
  LimitOf(IF destPort = 0 THEN DefaultPort ELSE destPort, DefaultPort)

\* getPayloadLimit sees the argument of dn_qsl_send.
GetPayloadLimit(destPort, srcPort) == LimitOf(destPort, srcPort)

\* The packet goes to the default port if the argument is 0.
DestPortOf(destPort) == IF destPort > 0 THEN destPort ELSE DefaultPort

=============================================================================
