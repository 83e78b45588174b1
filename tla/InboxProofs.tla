----------------------------- MODULE InboxProofs ----------------------------
(***************************************************************************)
(* Proofs about the inbox where the notification runs in an interrupt: for *)
(* every size and any number of messages that find room in the inbox, what *)
(* dn_qsl_read does is what InboxFifo promises, but for the reads that     *)
(* follow a lost increment and report an empty inbox.                      *)
(***************************************************************************)
EXTENDS Inbox, TLAPS

-----------------------------------------------------------------------------
(* The remainder, which takes the number of a message to its slot.          *)

\* Quotient and remainder.
LEMMA Division ==
  ASSUME NEW N \in Nat \ {0}, NEW x \in Nat
  PROVE  /\ x % N \in 0 .. N - 1 /\ x \div N \in Nat
         /\ x = (N * (x \div N)) + (x % N)
OBVIOUS

\* Different multiples of N are N apart.
LEMMA MultiplesApart ==
  ASSUME NEW N \in Nat \ {0}, NEW p \in Nat, NEW q \in Nat, p < q
  PROVE  (N * p) + N <= N * q
<1>1. PICK d \in Nat : q = p + 1 + d
  <2>1. q - p - 1 \in Nat /\ q = p + 1 + (q - p - 1)
    OBVIOUS
  <2> QED BY <2>1
<1>2. N * q = (N * p) + N + (N * d)
  BY <1>1
<1>3. N * d \in Nat /\ N * p \in Nat
  OBVIOUS
<1> QED
  BY <1>2, <1>3

\* There is one way to divide with a remainder.
LEMMA RemainderIs ==
  ASSUME NEW N \in Nat \ {0}, NEW q \in Nat, NEW r \in 0 .. N - 1
  PROVE  ((N * q) + r) % N = r
<1> DEFINE x == (N * q) + r
           p == x \div N
           s == x % N
<1>1. x \in Nat /\ N * q \in Nat
  OBVIOUS
<1>2. s \in 0 .. N - 1 /\ p \in Nat /\ (N * q) + r = (N * p) + s
  BY <1>1, Division
<1> HIDE DEF x, p, s
<1>3. N * p \in Nat
  BY <1>2
<1>4. p < q => (N * p) + N <= N * q
  BY <1>2, MultiplesApart
<1>5. q < p => (N * q) + N <= N * p
  BY <1>2, MultiplesApart
<1>6. p = q
  BY <1>1, <1>2, <1>3, <1>4, <1>5
<1>7. s = r
  BY <1>1, <1>2, <1>6
<1> QED
  BY <1>7 DEF s, x

\* Slots can be counted from the slot of a message, around the end too.
LEMMA SlotsFrom ==
  ASSUME NEW x \in Nat, NEW j \in Nat
  PROVE  ((x % Size) + j) % Size = (x + j) % Size
<1> DEFINE q == x \div Size
           r == x % Size
           p == (r + j) \div Size
           s == (r + j) % Size
<1>1. Size \in Nat \ {0}
  BY InboxAssumption
<1>2. r \in 0 .. Size - 1 /\ q \in Nat /\ x = (Size * q) + r
  BY <1>1, Division
<1>3. r + j \in Nat
  BY <1>1, <1>2
<1>4. s \in 0 .. Size - 1 /\ p \in Nat /\ r + j = (Size * p) + s
  BY <1>1, <1>3, Division
<1>5. Size * q \in Nat /\ Size * p \in Nat /\ Size * (q + p) = (Size * q) + (Size * p)
  BY <1>1, <1>2, <1>4
<1> HIDE DEF q, r, p, s
<1>6. x + j = (Size * (q + p)) + s /\ q + p \in Nat
  BY <1>1, <1>2, <1>4, <1>5
<1>7. (x + j) % Size = s
  BY <1>1, <1>4, <1>6, RemainderIs
<1> QED
  BY <1>7 DEF s, r

\* NextSlot goes on to the slot of the next message.
LEMMA NextSlotIs ==
  ASSUME NEW x \in Nat
  PROVE  NextSlot(x % Size) = (x + 1) % Size
BY SlotsFrom DEF NextSlot

\* Fewer than Size messages lie in different slots.
LEMMA SlotsDiffer ==
  ASSUME NEW x \in Nat, NEW y \in Nat, x < y, y - x < Size
  PROVE  x % Size # y % Size
<1> DEFINE p == x \div Size
           q == y \div Size
           r == x % Size
           s == y % Size
<1>1. r \in 0 .. Size - 1 /\ p \in Nat /\ x = (Size * p) + r
  BY InboxAssumption, Division
<1>2. s \in 0 .. Size - 1 /\ q \in Nat /\ y = (Size * q) + s
  BY InboxAssumption, Division
<1>3. Size \in Nat \ {0}
  BY InboxAssumption
<1> HIDE DEF p, q, r, s
<1> SUFFICES ASSUME r = s PROVE FALSE
  BY DEF r, s
<1>4. Size * p \in Nat /\ Size * q \in Nat
  BY <1>1, <1>2, <1>3
<1>5. p < q => (Size * p) + Size <= Size * q
  BY <1>1, <1>2, <1>3, MultiplesApart
<1>6. q < p => (Size * q) + Size <= Size * p
  BY <1>1, <1>2, <1>3, MultiplesApart
<1>7. p = q => x = y
  BY <1>1, <1>2
<1> QED
  BY <1>1, <1>2, <1>3, <1>4, <1>5, <1>6, <1>7

\* The slot of a message.
LEMMA SlotTyped == ASSUME NEW x \in Nat PROVE x % Size \in Slots
BY InboxAssumption, Division DEF Slots

\* The slot after it.
LEMMA NextSlotTyped == ASSUME NEW i \in Slots PROVE NextSlot(i) \in Slots
<1>1. i + 1 \in Nat
  BY InboxAssumption DEF Slots
<1> QED
  BY <1>1, SlotTyped DEF NextSlot

-----------------------------------------------------------------------------
(* Type correctness, with or without overflow.                              *)

\* A count that has been loaded is the one that will be stored.
Counted == IF readPc = "loaded" THEN readCount ELSE unreadPackets

\* The count is that of messages which are there, and of one at least while
\* one is being read.
CountTold ==
  /\ pushPc = "wait" /\ pushCount = 0
  /\ Counted <= arrived - taken /\ miscounted <= arrived
  /\ readPc # "idle" => Counted > 0

\* The type invariant with CountTold is inductive if there is no thread.
LEMMA TypeStep ==
  ~Threaded /\ TypeOK /\ CountTold /\ [Next]_inboxVars => TypeOK' /\ CountTold'
<1> SUFFICES ASSUME ~Threaded, TypeOK, CountTold, [Next]_inboxVars
             PROVE  TypeOK' /\ CountTold'
  OBVIOUS
<1> USE InboxAssumption DEF TypeOK, CountTold, Counted, inboxVars, readVars, pushVars
<1>1. \A i \in Slots : NextSlot(i) \in Slots
  BY NextSlotTyped
<1>2. CASE NotifReceive
  BY <1>1, <1>2 DEF NotifReceive, MessageComes
<1>3. ~ReadDaemon
  BY DEF ReadDaemon, PushCopy, PushAdvance, PushTest, PushLoad, PushStore
<1>4. ASSUME Read PROVE TypeOK' /\ CountTold'
  <2>1. CASE ReadEmpty
    BY <2>1, <1>4 DEF Read, ReadEmpty
  <2>2. CASE ReadCopy
    BY <2>2, <1>4 DEF Read, ReadCopy
  <2>3. CASE ReadAdvance
    BY <2>3, <1>4, <1>1 DEF Read, ReadAdvance
  <2>4. CASE ReadLoad
    BY <2>4, <1>4 DEF Read, ReadLoad
  <2>5. CASE ReadStore
    BY <2>5, <1>4 DEF Read, ReadStore
  <2> QED
    BY <1>4, <2>1, <2>2, <2>3, <2>4, <2>5 DEF Read
<1>5. CASE UNCHANGED inboxVars
  BY <1>5
<1> QED
  BY <1>2, <1>3, <1>4, <1>5 DEF Next

\* What holds at first.
LEMMA TypeInit == Init => TypeOK /\ CountTold
<1> SUFFICES ASSUME Init PROVE TypeOK /\ CountTold
  OBVIOUS
<1>1. /\ pktBuf = [i \in Slots |-> 0] /\ head = 0 /\ tail = 0 /\ unreadPackets = 0
      /\ readPc = "idle" /\ got = 0 /\ readCount = 0 /\ pushPc = "wait"
      /\ pushCount = 0 /\ arrived = 0 /\ taken = 0 /\ last = 0 /\ newest = 0
      /\ miscounted = 0
  BY DEF Init
<1> QED
  BY <1>1, InboxAssumption DEF TypeOK, CountTold, Counted, Slots

\* The indices stay inside the buffer and the count inside its range, even
\* when messages are dropped, wherever an interrupt strikes in dn_qsl_read.
THEOREM InboxTypeCorrect == ASSUME ~Threaded PROVE Spec => []TypeOK
BY TypeInit, TypeStep, PTL DEF Spec

-----------------------------------------------------------------------------
(* The inbox is a FIFO as long as no message finds it full.                 *)

\* The messages that dn_qsl_read has moved the head past.
Passed == IF BehindHead THEN taken + 1 ELSE taken

\* Message n is in slot (n - 1) % Size from its arrival until it is read, and
\* every message is counted but those that came inside the decrement.
RingOK ==
  /\ Counted + miscounted = arrived - taken
  /\ arrived - taken \in 0 .. Size
  /\ tail = arrived % Size /\ head = Passed % Size
  /\ \A n \in Passed .. arrived - 1 : pktBuf[n % Size] = n + 1
  /\ readPc # "idle" => got = taken + 1
  /\ newest = taken

\* The inbox starts empty.
LEMMA RingInit == Init => RingOK
<1>1. 0 % Size = 0
  <2>1. (Size * 0) + 0 = 0 /\ 0 \in 0 .. Size - 1
    BY InboxAssumption
  <2> QED
    BY <2>1, InboxAssumption, RemainderIs
<1> QED
  BY <1>1, InboxAssumption DEF Init, RingOK, Passed, BehindHead, Counted

\* The message goes to a slot which holds none that is still to be read.
LEMMA RingReceive ==
  ASSUME ~MayOverflow, TypeOK, CountTold, RingOK, NotifReceive
  PROVE  RingOK'
<1> USE InboxAssumption DEF TypeOK, readVars, pushVars
<1>1. /\ arrived \in Nat /\ taken \in Nat /\ Passed \in Nat
      /\ Passed' = Passed /\ taken' = taken /\ arrived' = arrived + 1
      /\ arrived - taken < Size /\ Passed >= taken
  BY DEF NotifReceive, MessageComes, Passed, BehindHead
<1>2. tail' = (arrived + 1) % Size
  BY <1>1, NextSlotIs DEF NotifReceive, RingOK
<1>3. pktBuf' = [pktBuf EXCEPT ![arrived % Size] = arrived + 1]
  BY DEF NotifReceive, MessageComes, RingOK
<1>4. ASSUME NEW n \in Passed .. arrived
      PROVE  pktBuf'[n % Size] = n + 1
  <2>1. n \in Nat /\ Passed <= n /\ n <= arrived
    BY <1>1, <1>4
  <2>2. n % Size \in Slots /\ arrived % Size \in Slots
    BY <1>1, <2>1, SlotTyped
  <2>3. CASE n = arrived
    BY <1>3, <2>2, <2>3
  <2>4. CASE n < arrived
    <3>1. arrived - n < Size
      BY <1>1, <2>1, <2>4
    <3>2. n % Size # arrived % Size
      BY <1>1, <2>1, <2>4, <3>1, SlotsDiffer
    <3>3. n \in Passed .. arrived - 1
      BY <1>1, <2>1, <2>4
    <3>4. pktBuf[n % Size] = n + 1
      BY <3>3 DEF RingOK
    <3> QED
      BY <1>3, <2>2, <3>2, <3>4
  <2> QED
    BY <1>1, <2>1, <2>3, <2>4
<1>5. /\ arrived' - taken' \in 0 .. Size
      /\ head' = Passed' % Size
      /\ readPc' # "idle" => got' = taken' + 1
      /\ newest' = taken'
  BY <1>1 DEF NotifReceive, RingOK
<1>6. Counted' + miscounted' = arrived' - taken'
  <2>1. CASE readPc = "loaded"
    BY <1>1, <2>1 DEF NotifReceive, RingOK, Counted
  <2>2. CASE readPc # "loaded"
    <3>1. unreadPackets + miscounted = arrived - taken /\ readPc' = readPc
      BY <2>2 DEF NotifReceive, RingOK, Counted
    <3>2. unreadPackets' = unreadPackets + 1 /\ miscounted' = miscounted
      BY <1>1, <2>2, <3>1 DEF NotifReceive
    <3>3. unreadPackets \in Nat /\ miscounted \in Nat
      BY DEF TypeOK
    <3>4. Counted' = unreadPackets'
      BY <2>2, <3>1 DEF Counted
    <3> HIDE DEF TypeOK
    <3> QED
      BY <1>1, <3>1, <3>2, <3>3, <3>4
  <2> QED
    BY <2>1, <2>2
<1> QED
  BY <1>1, <1>2, <1>4, <1>5, <1>6 DEF RingOK

\* A read copies the message at the head, and moves the head past it.
LEMMA RingRead ==
  ASSUME TypeOK, CountTold, RingOK, Read
  PROVE  RingOK'
<1> USE InboxAssumption DEF TypeOK, readVars, pushVars, Read
<1>1. arrived \in Nat /\ taken \in Nat
  OBVIOUS
<1>2. CASE ReadEmpty
  BY <1>2 DEF ReadEmpty, RingOK, Passed, BehindHead, Counted
<1>3. CASE ReadCopy
  <2>1. arrived - taken > 0
    BY <1>3 DEF ReadCopy, CountTold, Counted
  <2>2. pktBuf[head] = taken + 1
    BY <1>3, <2>1 DEF ReadCopy, RingOK, Passed, BehindHead, Counted
  <2> QED
    BY <1>3, <2>2 DEF ReadCopy, RingOK, Passed, BehindHead, Counted
<1>4. CASE ReadAdvance
  <2>1. head' = (taken + 1) % Size
    BY <1>1, <1>4, NextSlotIs DEF ReadAdvance, RingOK, Passed, BehindHead, Counted
  <2> QED
    BY <1>4, <2>1 DEF ReadAdvance, RingOK, Passed, BehindHead, Counted
<1>5. CASE ReadLoad
  BY <1>5 DEF ReadLoad, RingOK, Passed, BehindHead, Counted
<1>6. CASE ReadStore
  <2>1. arrived - taken > 0
    BY <1>6 DEF ReadStore, CountTold, Counted
  <2>2. got = taken + 1 /\ last' = got /\ newest' = taken' /\ taken' = taken + 1
    BY <1>6 DEF ReadStore, RingOK
  <2> QED
    BY <1>6, <2>1, <2>2 DEF ReadStore, RingOK, Passed, BehindHead, Counted
<1> QED
  BY <1>2, <1>3, <1>4, <1>5, <1>6

\* The ring buffer is inductive, given the count.
LEMMA RingStep ==
  ~Threaded /\ ~MayOverflow /\ TypeOK /\ CountTold /\ RingOK /\ [Next]_inboxVars
    => RingOK'
<1>1. ASSUME ~Threaded, UNCHANGED inboxVars, RingOK PROVE RingOK'
  BY <1>1 DEF inboxVars, readVars, pushVars, RingOK, Passed, BehindHead, Counted
<1>2. ~Threaded /\ CountTold => ~ReadDaemon
  BY DEF CountTold, ReadDaemon, PushCopy, PushAdvance, PushTest, PushLoad, PushStore
<1> QED
  BY <1>1, <1>2, RingReceive, RingRead DEF Next

\* Each message that dn_qsl_read returns has arrived later than all it has
\* returned before, if messages arrive in interrupts and find room.
THEOREM InboxInOrder ==
  ASSUME ~Threaded, ~MayOverflow PROVE Spec => ReadsInOrder
<1>1. RingOK /\ TypeOK /\ CountTold /\ [Next]_inboxVars
        => [newest' # newest \/ taken' # taken => last' > newest]_inboxVars
  <2> SUFFICES ASSUME RingOK, TypeOK, CountTold, [Next]_inboxVars,
                      newest' # newest \/ taken' # taken
               PROVE  last' > newest
    OBVIOUS
  <2>1. ReadStore
    BY DEF CountTold, Next, Read, NotifReceive, ReadDaemon, PushCopy, PushAdvance,
           PushTest, PushLoad, PushStore, ReadEmpty, ReadCopy, ReadAdvance,
           ReadLoad, inboxVars
  <2> QED
    BY <2>1, InboxAssumption DEF ReadStore, RingOK, TypeOK
<1> QED
  BY <1>1, TypeInit, TypeStep, RingInit, RingStep, PTL DEF Spec, ReadsInOrder

-----------------------------------------------------------------------------
(* The inbox and the FIFO.                                                  *)

\* The unread messages are those after the number taken, up to arrived.
UnreadOK == Unread = [k \in 1 .. arrived - taken |-> taken + k]

\* What the buffer shows between head and tail.
LEMMA UnreadIs == TypeOK /\ CountTold /\ RingOK => UnreadOK
<1> SUFFICES ASSUME TypeOK, CountTold, RingOK PROVE UnreadOK
  OBVIOUS
<1>1. arrived \in Nat /\ taken \in Nat /\ Size \in Nat \ {0}
  BY InboxAssumption DEF TypeOK
<1>2. ASSUME NEW k \in 1 .. arrived - taken
      PROVE  taken + k =
        IF ~BehindHead THEN pktBuf[(head + k - 1) % Size]
        ELSE IF k = 1 THEN got ELSE pktBuf[(head + k - 2) % Size]
  <2>1. CASE ~BehindHead
    <3>1. head = taken % Size
      BY <2>1 DEF RingOK, Passed
    <3>2. k - 1 \in Nat /\ taken + (k - 1) \in taken .. arrived - 1
      BY <1>1, <1>2
    <3>3. ((taken % Size) + (k - 1)) % Size = (taken + (k - 1)) % Size
      BY <1>1, <3>2, SlotsFrom
    <3>4. pktBuf[(taken + (k - 1)) % Size] = (taken + (k - 1)) + 1
      BY <2>1, <3>2 DEF RingOK, Passed
    <3>5. head + k - 1 = (taken % Size) + (k - 1)
      BY <1>1, <3>1, <1>2, SlotTyped, InboxAssumption DEF Slots
    <3> QED
      BY <1>1, <1>2, <2>1, <3>3, <3>4, <3>5
  <2>2. CASE BehindHead /\ k = 1
    BY <1>1, <2>2 DEF RingOK, BehindHead
  <2>3. CASE BehindHead /\ k # 1
    <3>1. head = (taken + 1) % Size
      BY <2>3 DEF RingOK, Passed
    <3>2. /\ k - 2 \in Nat /\ taken + 1 \in Nat
          /\ (taken + 1) + (k - 2) \in taken + 1 .. arrived - 1
      BY <1>1, <1>2, <2>3
    <3>3. (((taken + 1) % Size) + (k - 2)) % Size = ((taken + 1) + (k - 2)) % Size
      BY <3>2, SlotsFrom
    <3>4. pktBuf[((taken + 1) + (k - 2)) % Size] = ((taken + 1) + (k - 2)) + 1
      BY <2>3, <3>2 DEF RingOK, Passed
    <3>5. head + k - 2 = ((taken + 1) % Size) + (k - 2)
      BY <1>1, <3>1, <3>2, <1>2, SlotTyped, InboxAssumption DEF Slots
    <3> QED
      BY <1>1, <1>2, <2>3, <3>3, <3>4, <3>5
  <2> QED
    BY <2>1, <2>2, <2>3
<1> QED
  BY <1>2 DEF Unread, UnreadOK

\* The inbox starts as the empty FIFO.
LEMMA FifoInit == Init => Fifo!Init
<1>1. Init => Unread = <<>>
  BY DEF Init, Unread, BehindHead
<1> QED
  BY <1>1 DEF Init, Fifo!Init

\* A message that arrives is appended, whether or not it is counted.
LEMMA FifoArrive ==
  ASSUME ~MayOverflow, TypeOK, CountTold, RingOK, NotifReceive,
         UnreadOK, UnreadOK'
  PROVE  Fifo!Arrive
<1>1. /\ arrived \in Nat /\ taken \in Nat /\ arrived - taken \in 0 .. Size
      /\ arrived - taken < Size /\ arrived' = arrived + 1 /\ taken' = taken
      /\ Size \in Nat
  BY InboxAssumption DEF TypeOK, RingOK, NotifReceive, MessageComes
<1>2. Unread = [k \in 1 .. arrived - taken |-> taken + k]
  BY DEF UnreadOK
<1>3. Unread' = [k \in 1 .. arrived' - taken' |-> taken' + k]
  BY DEF UnreadOK
<1>4. Unread' = Append(Unread, arrived') /\ Len(Unread) # Size
  BY <1>1, <1>2, <1>3
<1> QED
  BY <1>4 DEF Fifo!Arrive, NotifReceive, MessageComes, readVars

\* A read finds a message, takes it, or finds none; or nothing is to be seen.
\* Where it finds none there is none, or one was not counted.
LEMMA FifoRead ==
  ASSUME TypeOK, CountTold, RingOK, Read, UnreadOK, UnreadOK'
  PROVE  \/ Fifo!FindMessage \/ Fifo!Take \/ Fifo!FindEmpty \/ MissesMessage
         \/ UNCHANGED Fifo!fifoVars
<1>1. /\ arrived \in Nat /\ taken \in Nat /\ arrived - taken \in 0 .. Size
      /\ arrived' = arrived /\ Size \in Nat /\ unreadPackets \in Nat
      /\ readCount \in Nat
  BY InboxAssumption DEF TypeOK, RingOK, Read
<1>2. Unread = [k \in 1 .. arrived - taken |-> taken + k]
  BY DEF UnreadOK
<1>3. Unread' = [k \in 1 .. arrived' - taken' |-> taken' + k]
  BY DEF UnreadOK
<1>4. CASE ReadEmpty
  <2>1. Unread' = Unread /\ readPc = "idle" /\ readPc' = readPc /\ last' = 0
    BY <1>1, <1>2, <1>3, <1>4 DEF ReadEmpty, readVars
  <2>2. arrived - taken = miscounted /\ miscounted \in Nat
    <3>1. miscounted \in Nat
      BY InboxAssumption DEF TypeOK
    <3>2. Counted = 0
      BY <1>4 DEF ReadEmpty, Counted
    <3> QED
      BY <1>1, <3>1, <3>2 DEF RingOK
  <2>3. CASE miscounted = 0
    <3>1. Unread = <<>>
      BY <1>1, <1>2, <2>2, <2>3
    <3> QED
      BY <1>1, <2>1, <3>1 DEF Fifo!FindEmpty
  <2>4. CASE miscounted > 0
    <3>1. Len(Unread) = miscounted
      BY <1>1, <1>2, <2>2
    <3>2. Len(Unread) \in 1 .. miscounted
      BY <1>1, <2>2, <2>4, <3>1
    <3> QED
      BY <1>1, <2>1, <3>2 DEF MissesMessage
  <2> QED
    BY <1>1, <2>2, <2>3, <2>4
<1>5. CASE ReadCopy
  <2>1. Unread' = Unread
    BY <1>1, <1>2, <1>3, <1>5 DEF ReadCopy
  <2>2. arrived - taken > 0
    BY <1>1, <1>5 DEF ReadCopy, CountTold, Counted
  <2>3. Len(Unread) = arrived - taken
    BY <1>1, <1>2
  <2>4. Unread # <<>>
    BY <1>1, <2>2, <2>3
  <2> QED
    BY <1>1, <1>5, <2>1, <2>4 DEF ReadCopy, Fifo!FindMessage
<1>6. CASE ReadAdvance \/ ReadLoad
  <2>1. Unread' = Unread
    BY <1>1, <1>2, <1>3, <1>6 DEF ReadAdvance, ReadLoad
  <2> QED
    BY <1>1, <1>6, <2>1 DEF ReadAdvance, ReadLoad, Fifo!fifoVars
<1>7. CASE ReadStore
  <2>1. arrived - taken > 0 /\ taken' = taken + 1
    BY <1>1, <1>7 DEF ReadStore, CountTold, Counted
  <2>2. Head(Unread) = taken + 1 /\ Unread' = Tail(Unread)
    BY <1>1, <1>2, <1>3, <2>1
  <2>3. last' = taken + 1
    BY <1>7 DEF ReadStore, RingOK
  <2> QED
    BY <1>1, <1>7, <2>2, <2>3 DEF ReadStore, Fifo!Take
<1> QED
  BY <1>4, <1>5, <1>6, <1>7 DEF Read

\* Every step of the inbox is one of the FIFO, or a read that misses a message,
\* or is not to be seen.
LEMMA FifoStep ==
  ~Threaded /\ ~MayOverflow /\ TypeOK /\ CountTold /\ RingOK
  /\ UnreadOK /\ UnreadOK' /\ [Next]_inboxVars
    => [Fifo!Next \/ MissesMessage]_(Fifo!fifoVars)
<1> SUFFICES ASSUME ~Threaded, ~MayOverflow, TypeOK, CountTold, RingOK,
                    UnreadOK, UnreadOK', [Next]_inboxVars
             PROVE  [Fifo!Next \/ MissesMessage]_(Fifo!fifoVars)
  OBVIOUS
<1>1. CASE NotifReceive
  BY <1>1, FifoArrive DEF Fifo!Next
<1>2. CASE Read
  BY <1>2, FifoRead DEF Fifo!Next
<1>3. ~ReadDaemon
  BY DEF CountTold, ReadDaemon, PushCopy, PushAdvance, PushTest, PushLoad, PushStore
<1>4. CASE UNCHANGED inboxVars
  <2>1. Unread' = Unread
    BY <1>4 DEF inboxVars, readVars, Unread, BehindHead
  <2> QED
    BY <1>4, <2>1 DEF inboxVars, readVars, Fifo!fifoVars
<1> QED
  BY <1>1, <1>2, <1>3, <1>4 DEF Next

\* If the notification runs in an interrupt and no message finds the inbox
\* full, dn_qsl_read does what dn_qsl_api.h promises, but that one message that
\* waits stays unseen for each arrival that has come inside unreadPackets--.
THEOREM InboxIsFifo ==
  ASSUME ~Threaded, ~MayOverflow PROVE Spec => FifoUnlessMiscounted
BY FifoInit, FifoStep, UnreadIs, TypeInit, TypeStep, RingInit, RingStep, PTL
DEF Spec, FifoUnlessMiscounted

=============================================================================
