----------------------------- MODULE InboxFifo ------------------------------
(***************************************************************************)
(* What dn_qsl_read promises (dn_qsl_api.h:97-102): the downstream         *)
(* messages come out of a bounded inbox in the order they came in, and a   *)
(* read of an empty inbox, and of no other, finds no message.  When a      *)
(* message finds the inbox full the oldest one is dropped (dn_fsm.c:584).  *)
(*                                                                         *)
(* Messages are numbered in the order of their arrival.                    *)
(***************************************************************************)
EXTENDS Naturals, Sequences

CONSTANT Size          \* DN_INBOX_SIZE

VARIABLES
  queue,       \* the messages in the inbox, oldest first
  arrived,     \* how many messages have arrived
  last,        \* what the last read returned; 0 if it found no message
  reading      \* a read has found a message and has not returned yet

fifoVars == <<queue, arrived, last, reading>>

Arrive ==
  /\ arrived' = arrived + 1
  /\ queue' = Append(IF Len(queue) = Size THEN Tail(queue) ELSE queue, arrived')
  /\ UNCHANGED <<last, reading>>

FindMessage ==
  /\ ~reading /\ queue # <<>>
  /\ reading' = TRUE
  /\ UNCHANGED <<queue, arrived, last>>

Take ==
  /\ reading /\ reading' = FALSE
  /\ last' = Head(queue) /\ queue' = Tail(queue)
  /\ UNCHANGED arrived

FindEmpty ==
  /\ ~reading /\ queue = <<>>
  /\ last' = 0
  /\ UNCHANGED <<queue, arrived, reading>>

Init == queue = <<>> /\ arrived = 0 /\ last = 0 /\ reading = FALSE

Next == Arrive \/ FindMessage \/ Take \/ FindEmpty

Spec == Init /\ [][Next]_fifoVars

=============================================================================
