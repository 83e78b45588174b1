------------------------------- MODULE Inbox --------------------------------
(***************************************************************************)
(* The inbox of dn_fsm.c: the ring buffer that the receive notification    *)
(* fills and dn_qsl_read empties.                                          *)
(*                                                                         *)
(* dn_qsl_read runs in the application thread, one statement per step; its *)
(* unreadPackets-- is a load and a store.  The notification runs in the    *)
(* UART interrupt of the SAM C21 and the Nucleo, where it is one step      *)
(* between any two of those, or in the read daemon of the Raspberry Pi, a  *)
(* thread that takes steps of its own.  dn_lock excludes neither.          *)
(*                                                                         *)
(* A message is its number in the order of arrival.                        *)
(***************************************************************************)
EXTENDS Naturals, Sequences

CONSTANTS
  Size,            \* DN_INBOX_SIZE
  MaxArrivals,     \* bound on the messages that arrive
  MayOverflow,     \* whether messages arrive that find the inbox full
  Threaded         \* whether the notification runs in a thread

ASSUME InboxAssumption ==
  /\ Size \in Nat \ {0} /\ MaxArrivals \in Nat
  /\ MayOverflow \in BOOLEAN /\ Threaded \in BOOLEAN

VARIABLES
  pktBuf,          \* dn_inbox_t; a slot that was never written holds 0
  head, tail,
  unreadPackets,
  readPc,          \* how far the current call of dn_qsl_read is
  got,             \* the message it has copied; 0 outside a call
  readCount,       \* the count it has loaded; 0 if it has not
  pushPc,          \* how far the read daemon is with a notification
  pushCount,       \* the count it has loaded; 0 if it has not
  arrived,         \* history: how many messages have arrived
  taken,           \* history: how many messages have been read
  last,            \* what the last read returned; 0 if the inbox was empty
  newest,          \* history: the latest message any read has returned
  miscounted       \* history: how many messages arrived inside unreadPackets--

readVars == <<readPc, got, readCount>>
pushVars == <<pushPc, pushCount>>
inboxVars == <<pktBuf, head, tail, unreadPackets, readVars, pushVars,
               arrived, taken, last, newest, miscounted>>

Slots == 0 .. Size - 1

\* Fault: the index is not wrapped.
NextSlotUnwrapped(i) == i + 1

NextSlot(i) == (i + 1) % Size

-----------------------------------------------------------------------------
(* CMDID_RECEIVE in dn_ipmt_notif_cb: the message goes to the tail; a full  *)
(* inbox keeps its head and its count.                                      *)

MessageComes ==
  /\ arrived < MaxArrivals
  /\ arrived - taken < Size \/ MayOverflow
  /\ arrived' = arrived + 1
  /\ pktBuf' = [pktBuf EXCEPT ![tail] = arrived + 1]

\* In the interrupt.  Between the load and the store of a read the increment is
\* lost: the store overwrites it.
NotifReceive ==
  /\ ~Threaded
  /\ MessageComes
  /\ tail' = NextSlot(tail)
  /\ unreadPackets' = IF unreadPackets = Size THEN Size ELSE unreadPackets + 1
  /\ miscounted' = IF readPc = "loaded" THEN miscounted + 1 ELSE miscounted
  /\ UNCHANGED <<head, readVars, pushVars, taken, last, newest>>

\* In the read daemon.
PushCopy ==
  /\ Threaded /\ pushPc = "wait" /\ pushPc' = "copied"
  /\ MessageComes
  /\ UNCHANGED <<tail, unreadPackets, pushCount>>

PushAdvance ==
  /\ pushPc = "copied" /\ pushPc' = "advanced"
  /\ tail' = NextSlot(tail)
  /\ UNCHANGED <<pktBuf, unreadPackets, pushCount, arrived>>

PushTest ==
  /\ pushPc = "advanced"
  /\ pushPc' = IF unreadPackets = Size THEN "wait" ELSE "tested"
  /\ UNCHANGED <<pktBuf, tail, unreadPackets, pushCount, arrived>>

PushLoad ==
  /\ pushPc = "tested" /\ pushPc' = "loaded"
  /\ pushCount' = unreadPackets
  /\ UNCHANGED <<pktBuf, tail, unreadPackets, arrived>>

PushStore ==
  /\ pushPc = "loaded" /\ pushPc' = "wait"
  /\ unreadPackets' = pushCount + 1
  /\ pushCount' = 0
  /\ UNCHANGED <<pktBuf, tail, arrived>>

ReadDaemon ==
  /\ PushCopy \/ PushAdvance \/ PushTest \/ PushLoad \/ PushStore
  /\ UNCHANGED <<head, readVars, taken, last, newest, miscounted>>

-----------------------------------------------------------------------------
(* dn_qsl_read. *)

ReadEmpty ==
  /\ readPc = "idle" /\ unreadPackets = 0
  /\ last' = 0
  /\ UNCHANGED <<head, unreadPackets, readVars, taken, newest>>

ReadCopy ==
  /\ readPc = "idle" /\ unreadPackets > 0
  /\ readPc' = "copied" /\ got' = pktBuf[head]
  /\ UNCHANGED <<head, unreadPackets, readCount, taken, last, newest>>

ReadAdvance ==
  /\ readPc = "copied" /\ readPc' = "advanced"
  /\ head' = NextSlot(head)
  /\ UNCHANGED <<unreadPackets, got, readCount, taken, last, newest>>

ReadLoad ==
  /\ readPc = "advanced" /\ readPc' = "loaded"
  /\ readCount' = unreadPackets
  /\ UNCHANGED <<head, unreadPackets, got, taken, last, newest>>

\* Fault: the slot is read again at the end.
ReadStoreRereads ==
  /\ readPc = "loaded" /\ readPc' = "idle"
  /\ unreadPackets' = readCount - 1 /\ readCount' = 0
  /\ last' = pktBuf[head] /\ got' = 0
  /\ taken' = taken + 1
  /\ newest' = IF last' > newest THEN last' ELSE newest
  /\ UNCHANGED head

\* The count is stored and the call returns.
ReadStore ==
  /\ readPc = "loaded" /\ readPc' = "idle"
  /\ unreadPackets' = readCount - 1 /\ readCount' = 0
  /\ last' = got /\ got' = 0
  /\ taken' = taken + 1
  /\ newest' = IF last' > newest THEN last' ELSE newest
  /\ UNCHANGED head

Read ==
  /\ ReadEmpty \/ ReadCopy \/ ReadAdvance \/ ReadLoad \/ ReadStore
  /\ UNCHANGED <<pktBuf, tail, pushVars, arrived, miscounted>>

-----------------------------------------------------------------------------

Init ==
  /\ pktBuf = [i \in Slots |-> 0]
  /\ head = 0 /\ tail = 0 /\ unreadPackets = 0
  /\ readPc = "idle" /\ got = 0 /\ readCount = 0
  /\ pushPc = "wait" /\ pushCount = 0
  /\ arrived = 0 /\ taken = 0 /\ last = 0 /\ newest = 0
  /\ miscounted = 0

Next == NotifReceive \/ ReadDaemon \/ Read

Spec == Init /\ [][Next]_inboxVars

-----------------------------------------------------------------------------
(* Properties.                                                              *)

\* Type invariant; the indices stay inside the buffer.
TypeOK ==
  /\ pktBuf \in [Slots -> 0 .. MaxArrivals]
  /\ head \in Slots /\ tail \in Slots
  /\ unreadPackets \in 0 .. Size
  /\ readPc \in {"idle", "copied", "advanced", "loaded"}
  /\ pushPc \in {"wait", "copied", "advanced", "tested", "loaded"}
  /\ {got, arrived, taken, last, newest, miscounted} \subseteq 0 .. MaxArrivals
  /\ {readCount, pushCount} \subseteq 0 .. Size

\* The message being read is still in its slot, or the head has moved past it.
BehindHead == readPc \in {"advanced", "loaded"}

\* The messages in the inbox, oldest first, counted or not.
Unread ==
  [k \in 1 .. arrived - taken |->
     IF ~BehindHead THEN pktBuf[(head + k - 1) % Size]
     ELSE IF k = 1 THEN got ELSE pktBuf[(head + k - 2) % Size]]

Fifo == INSTANCE InboxFifo WITH
          queue <- Unread,
          reading <- readPc # "idle"

\* A read reports an empty inbox while as many messages wait as have arrived
\* inside an unreadPackets--, or fewer.
MissesMessage ==
  /\ Len(Unread) \in 1 .. miscounted /\ readPc = "idle" /\ last' = 0
  /\ UNCHANGED <<Unread, arrived, readPc>>

\* As long as no message finds the inbox full, every step is one of the FIFO
\* that dn_qsl_api.h:97-102 promises, wherever the interrupt strikes: order is
\* kept, nothing is skipped or returned twice, and only an empty inbox is
\* reported empty.  There is one exception, against that promise: an arrival
\* between the load and the store of unreadPackets-- (dn_fsm.c:252) is not
\* counted, so one message that waits stays unseen for each such arrival.
FifoUnlessMiscounted ==
  Fifo!Init /\ [][Fifo!Next \/ MissesMessage]_(Fifo!fifoVars)

\* A read that returns a message returns one that arrived later than all those
\* read before: oldest first, each at most once.
ReadsInOrder == [][newest' # newest \/ taken' # taken => last' > newest]_inboxVars

=============================================================================
