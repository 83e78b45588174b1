--------------------------- MODULE QslPreemptProofs ---------------------------
(***************************************************************************)
(* Proofs about QslPreempt: what holds wherever the callbacks strike, for  *)
(* every value of the constants, whether or not the compiler loads fsmCb   *)
(* twice.                                                                  *)
(***************************************************************************)
EXTENDS QslPreempt, QslFsmProofs

-----------------------------------------------------------------------------
(* Sequences of statements.                                                 *)

\* The rest of a sequence is the sequence one place further on.
LEMMA TailOf ==
  ASSUME NEW S, NEW s \in Seq(S), s # <<>>
  PROVE  /\ Tail(s) \in Seq(S) /\ Head(s) \in S /\ Head(s) = s[1]
         /\ Len(s) \in Nat \ {0} /\ Len(Tail(s)) = Len(s) - 1
         /\ DOMAIN s = 1 .. Len(s) /\ DOMAIN Tail(s) = 1 .. (Len(s) - 1)
         /\ \A i \in DOMAIN Tail(s) : Tail(s)[i] = s[i + 1]
OBVIOUS

\* Two sequences one after the other.
LEMMA ConcatOf ==
  ASSUME NEW S, NEW p \in Seq(S), NEW s \in Seq(S)
  PROVE  /\ p \o s \in Seq(S)
         /\ Len(p) \in Nat /\ Len(s) \in Nat /\ Len(p \o s) = Len(p) + Len(s)
         /\ DOMAIN p = 1 .. Len(p) /\ DOMAIN s = 1 .. Len(s)
         /\ DOMAIN (p \o s) = 1 .. (Len(p) + Len(s))
         /\ \A i \in DOMAIN p : (p \o s)[i] = p[i]
         /\ \A i \in DOMAIN s : (p \o s)[Len(p) + i] = s[i]
OBVIOUS

\* The statements that schedule an event and enter a state.
PlainStatements ==
  [op : {"storeDelay"}, arg : Nat] \cup [op : {"storeCb"}, arg : Events]
    \cup [op : {"arm"}, arg : {None}] \cup [op : {"storeState"}, arg : States]

\* All statements, with what their operands can be.
Statements ==
  PlainStatements
    \cup [op : {"storeReplyCb"}, arg : Commands \cup {None}]
    \cup [op : {"issue"}, arg : Commands]
    \cup [op : {"callCb"}, arg : Events]
    \cup [op : {"disarm", "cancelTx", "cancelEvent", "noReply", "timedOut",
               "readTime", "testDue", "testCb", "sleep"}, arg : {None}]

\* An operand suits its statement.
LEMMA OperandTyped ==
  ASSUME NEW s \in Statements
  PROVE  /\ s.op = "storeDelay" => s.arg \in Nat
         /\ s.op \in {"storeCb", "callCb"} => s.arg \in Events
         /\ s.op = "storeState" => s.arg \in States
         /\ s.op = "storeReplyCb" => s.arg \in Commands \cup {None}
         /\ s.op = "issue" => s.arg \in Commands
         /\ DOMAIN s = {"op", "arg"}
BY DEF Statements, PlainStatements

\* A sequence of plain statements is a sequence of statements.
LEMMA PlainSeq == \A s \in Seq(PlainStatements) : s \in Seq(Statements)
<1>1. PlainStatements \subseteq Statements
  BY DEF Statements
<1> DEFINE P == PlainStatements
           Q == Statements
<1> HIDE DEF P, Q
<1>2. \A s \in Seq(P) : P \subseteq Q => s \in Seq(Q)
  OBVIOUS
<1> QED
  BY <1>1, <1>2 DEF P, Q

\* dn_fsm_scheduleEvent consists of plain statements: the delay, the callback
\* and the arming.
LEMMA ScheduleStmtsPlain ==
  ASSUME NEW d \in Nat, NEW e \in Events
  PROVE  /\ ScheduleStmts(d, e) \in Seq(PlainStatements)
         /\ Len(ScheduleStmts(d, e)) = 3 /\ DOMAIN ScheduleStmts(d, e) = 1 .. 3
         /\ ScheduleStmts(d, e)[1] = Stmt("storeDelay", d)
         /\ ScheduleStmts(d, e)[2] = Stmt("storeCb", e)
         /\ ScheduleStmts(d, e)[3] = Stmt("arm", None)
<1>1. /\ Stmt("storeDelay", d) \in PlainStatements
      /\ Stmt("storeCb", e) \in PlainStatements
      /\ Stmt("arm", None) \in PlainStatements
  BY DEF Stmt, PlainStatements
<1> QED
  BY <1>1 DEF ScheduleStmts

\* The only callback it stores is the one it is given.
LEMMA ScheduleStmtsStores ==
  ASSUME NEW d \in Nat, NEW e \in Events, NEW i \in DOMAIN ScheduleStmts(d, e),
         ScheduleStmts(d, e)[i].op = "storeCb"
  PROVE  ScheduleStmts(d, e)[i].arg = e
<1>1. i = 1 \/ i = 2 \/ i = 3
  BY ScheduleStmtsPlain
<1>2. Stmt("storeDelay", d).op # "storeCb" /\ Stmt("arm", None).op # "storeCb"
  BY DEF Stmt
<1>3. Stmt("storeCb", e).arg = e
  BY DEF Stmt
<1> QED
  BY <1>1, <1>2, <1>3, ScheduleStmtsPlain

\* The event a state schedules when it is entered belongs to no API call, but
\* for that of SENDING.
LEMMA EntryEvent ==
  ASSUME NEW s, NEW t
  PROVE  \/ EntryTimer(s, t) = t
         \/ \E d \in Nat, e \in Events :
              /\ EntryTimer(s, t) = ScheduleEvent(d, e)
              /\ e \notin {"getTime", "setTxPower", "responseTimeout"}
              /\ e = "sendTo" => s = "SENDING"
<1>1. CmdPeriod \in Nat /\ 0 \in Nat
  BY TimingAssumption
<1>2. {"getMoteStatus", "search", "join", "requestService", "reset",
       "disconnect", "sendTo"} \subseteq Events
  BY DEF Events, Commands
<1> QED
  BY <1>1, <1>2 DEF EntryTimer

\* dn_fsm_enterState ends with the store of the state; before it come the
\* statements that schedule the event, if there is one.
LEMMA EntryStmtsForm ==
  ASSUME NEW s \in States
  PROVE  \/ EntryStmts(s) = <<Stmt("storeState", s)>>
         \/ \E d \in Nat, e \in Events :
              /\ EntryStmts(s) = ScheduleStmts(d, e) \o <<Stmt("storeState", s)>>
              /\ e \notin {"getTime", "setTxPower", "responseTimeout"}
              /\ e = "sendTo" => s = "SENDING"
<1>1. CASE EntryTimer(s, CancelEvent) = CancelEvent
  BY <1>1 DEF EntryStmts
<1>2. CASE \E d \in Nat, e \in Events :
              /\ EntryTimer(s, CancelEvent) = ScheduleEvent(d, e)
              /\ e \notin {"getTime", "setTxPower", "responseTimeout"}
              /\ e = "sendTo" => s = "SENDING"
  <2>1. PICK d \in Nat, e \in Events :
              /\ EntryTimer(s, CancelEvent) = ScheduleEvent(d, e)
              /\ e \notin {"getTime", "setTxPower", "responseTimeout"}
              /\ e = "sendTo" => s = "SENDING"
    BY <1>2
  <2>2. ScheduleEvent(d, e).delay = d /\ ScheduleEvent(d, e).cb = e
        /\ ScheduleEvent(d, e).armed # CancelEvent.armed
    BY DEF ScheduleEvent, CancelEvent
  <2>3. EntryStmts(s) = ScheduleStmts(d, e) \o <<Stmt("storeState", s)>>
    BY <2>1, <2>2 DEF EntryStmts
  <2> QED
    BY <2>1, <2>3
<1> QED
  BY <1>1, <1>2, EntryEvent

\* dn_fsm_enterState consists of plain statements; what it schedules belongs to
\* no API call, but for the sending of SENDING.
LEMMA EntryStmtsPlain ==
  ASSUME NEW s \in States
  PROVE  /\ EntryStmts(s) \in Seq(PlainStatements)
         /\ \A i \in DOMAIN EntryStmts(s) :
              EntryStmts(s)[i].op = "storeCb" =>
                /\ EntryStmts(s)[i].arg \notin {"getTime", "setTxPower", "responseTimeout"}
                /\ EntryStmts(s)[i].arg = "sendTo" => s = "SENDING"
<1> DEFINE store == <<Stmt("storeState", s)>>
<1>1. store \in Seq(PlainStatements) /\ Len(store) = 1
      /\ store[1].op = "storeState"
  <2>1. Stmt("storeState", s) \in PlainStatements
    BY DEF Stmt, PlainStatements
  <2> QED
    BY <2>1 DEF Stmt
<1>2. CASE EntryStmts(s) = store
  BY <1>1, <1>2
<1>3. CASE \E d \in Nat, e \in Events :
              /\ EntryStmts(s) = ScheduleStmts(d, e) \o store
              /\ e \notin {"getTime", "setTxPower", "responseTimeout"}
              /\ e = "sendTo" => s = "SENDING"
  <2>1. PICK d \in Nat, e \in Events :
              /\ EntryStmts(s) = ScheduleStmts(d, e) \o store
              /\ e \notin {"getTime", "setTxPower", "responseTimeout"}
              /\ e = "sendTo" => s = "SENDING"
    BY <1>3
  <2> DEFINE schedule == ScheduleStmts(d, e)
  <2>2. /\ schedule \in Seq(PlainStatements)
        /\ \A i \in DOMAIN schedule : schedule[i].op = "storeCb" => schedule[i].arg = e
    BY ScheduleStmtsPlain, ScheduleStmtsStores
  <2>3. EntryStmts(s) = schedule \o store
    BY <2>1
  <2> HIDE DEF store, schedule
  <2>4. \A i \in DOMAIN (schedule \o store) :
          \/ i \in DOMAIN schedule /\ (schedule \o store)[i] = schedule[i]
          \/ (schedule \o store)[i] = store[1]
    BY <1>1, <2>2, ConcatOf
  <2>5. schedule \o store \in Seq(PlainStatements)
    BY <1>1, <2>2, ConcatOf
  <2>6. \A i \in DOMAIN (schedule \o store) :
          (schedule \o store)[i].op = "storeCb" => (schedule \o store)[i].arg = e
    BY <1>1, <2>2, <2>4
  <2> QED
    BY <2>1, <2>3, <2>5, <2>6
<1> QED
  BY <1>2, <1>3, EntryStmtsForm

-----------------------------------------------------------------------------
(* The order of the statements of a function.                               *)

PlainOps == {"storeDelay", "storeCb", "arm", "storeState"}

\* The statements that choose what follows: they are the last of their function.
DecideOps == {"noReply", "timedOut", "readTime", "testDue", "testCb", "callCb"}

\* The statements of dn_fsm_run up to the call of the event.
RunOps == {"readTime", "testDue", "disarm", "testCb", "callCb"}

\* What puts the event in place again, or the command out of the way.
RescueOps == {"arm", "testCb", "callCb", "cancelTx"}

Holds(s, ops) == \E j \in DOMAIN s : s[j].op \in ops

Follows(s, i, op) == \E j \in DOMAIN s : j > i /\ s[j].op = op

Precedes(s, i, op) == \E j \in DOMAIN s : j < i /\ s[j].op = op

\* The statement takes away what watches an outstanding command.
GivesUp(st) == st.op = "cancelEvent" \/ st = Stmt("storeReplyCb", None)

\* What chooses comes last, the event that is disarmed is then looked at, a
\* command is issued before its timeout is scheduled, and no function both
\* issues a command and gives one up.
Shape(s) ==
  \A i \in DOMAIN s :
    /\ s[i].op \in DecideOps => i = Len(s)
    /\ s[i].op = "disarm" => Follows(s, i, "testCb")
    /\ s[i].op = "issue" => Follows(s, i, "storeCb") /\ Follows(s, i, "arm")
    /\ GivesUp(s[i]) => ~Holds(s, {"issue"})

\* No command p is outstanding when what watches it is taken away, and the reply
\* function r of a command is installed when it is issued.
Careful(s, r, p) ==
  \A i \in DOMAIN s :
    /\ GivesUp(s[i]) => p = None \/ Precedes(s, i, "cancelTx")
    /\ s[i].op = "issue" => r # None \/ Precedes(s, i, "storeReplyCb")

\* An outstanding command p has a reply function, and an event that will notice
\* its loss; either may still have to be stored.
Watched(s, t, r, p) ==
  p # None =>
    /\ r # None
    /\ t.cb # None \/ Holds(s, {"storeCb"})
    /\ t.armed \/ Holds(s, RescueOps)

\* Each element of a sequence is in the set the sequence is over.
LEMMA ElementOf ==
  ASSUME NEW S, NEW s \in Seq(S), NEW i \in DOMAIN s
  PROVE  s[i] \in S /\ i \in Nat \ {0}
OBVIOUS

\* What is ahead of the first statement is ahead once it has been executed.
LEMMA HoldsTail ==
  ASSUME NEW s \in Seq(Statements), s # <<>>, NEW ops, Holds(s, ops),
         Head(s).op \notin ops
  PROVE  Holds(Tail(s), ops)
<1>1. PICK j \in DOMAIN s : s[j].op \in ops
  BY DEF Holds
<1>2. j # 1 /\ j \in 1 .. Len(s)
  BY <1>1, TailOf
<1>3. j - 1 \in DOMAIN Tail(s) /\ Tail(s)[j - 1] = s[j]
  BY <1>2, TailOf
<1> QED
  BY <1>1, <1>3 DEF Holds

\* So is what follows a statement further on.
LEMMA FollowsTail ==
  ASSUME NEW s \in Seq(Statements), s # <<>>, NEW op, NEW i \in DOMAIN Tail(s),
         Follows(s, i + 1, op)
  PROVE  Follows(Tail(s), i, op)
<1>1. PICK j \in DOMAIN s : j > i + 1 /\ s[j].op = op
  BY DEF Follows
<1>2. i \in Nat /\ i >= 1 /\ j \in 1 .. Len(s)
  BY TailOf
<1>3. j - 1 \in DOMAIN Tail(s) /\ Tail(s)[j - 1] = s[j] /\ j - 1 > i
  BY <1>1, <1>2, TailOf
<1> QED
  BY <1>1, <1>3 DEF Follows

\* And what precedes it, unless it was the first.
LEMMA PrecedesTail ==
  ASSUME NEW s \in Seq(Statements), s # <<>>, NEW op, NEW i \in DOMAIN Tail(s),
         Precedes(s, i + 1, op), Head(s).op # op
  PROVE  Precedes(Tail(s), i, op)
<1>1. PICK j \in DOMAIN s : j < i + 1 /\ s[j].op = op
  BY DEF Precedes
<1>2. i \in Nat /\ i >= 1 /\ j \in 1 .. Len(s) /\ j # 1
  BY <1>1, TailOf
<1>3. j - 1 \in DOMAIN Tail(s) /\ Tail(s)[j - 1] = s[j] /\ j - 1 < i
  BY <1>1, <1>2, TailOf
<1> QED
  BY <1>1, <1>3 DEF Precedes

\* The statements of the rest are statements of the sequence.
LEMMA RestOf ==
  ASSUME NEW s \in Seq(Statements), s # <<>>, NEW i \in DOMAIN Tail(s)
  PROVE  /\ i + 1 \in DOMAIN s /\ Tail(s)[i] = s[i + 1]
         /\ (i + 1 = Len(s)) <=> (i = Len(Tail(s)))
BY TailOf

\* The rest of a function keeps its order.
LEMMA ShapeTail ==
  ASSUME NEW s \in Seq(Statements), s # <<>>, Shape(s)
  PROVE  Shape(Tail(s))
<1> SUFFICES ASSUME NEW i \in DOMAIN Tail(s)
             PROVE  /\ Tail(s)[i].op \in DecideOps => i = Len(Tail(s))
                    /\ Tail(s)[i].op = "disarm" => Follows(Tail(s), i, "testCb")
                    /\ Tail(s)[i].op = "issue" => /\ Follows(Tail(s), i, "storeCb")
                                                 /\ Follows(Tail(s), i, "arm")
                    /\ GivesUp(Tail(s)[i]) => ~Holds(Tail(s), {"issue"})
  BY DEF Shape
<1>1. /\ i + 1 \in DOMAIN s /\ Tail(s)[i] = s[i + 1]
      /\ (i + 1 = Len(s)) <=> (i = Len(Tail(s)))
  BY RestOf
<1>2. Holds(Tail(s), {"issue"}) => Holds(s, {"issue"})
  BY RestOf DEF Holds
<1> QED
  BY <1>1, <1>2, FollowsTail DEF Shape

\* A function that was careful stays so while it is executed, whatever its
\* first statement does to r and p.
LEMMA CarefulTail ==
  ASSUME NEW s \in Seq(Statements), s # <<>>, Shape(s),
         NEW r, NEW p, Careful(s, r, p), NEW r2, NEW p2,
         \/ p2 = None \/ Head(s).op = "issue"
         \/ p2 = p /\ Head(s).op # "cancelTx",
         \/ r2 # None \/ GivesUp(Head(s))
         \/ r2 = r /\ Head(s).op # "storeReplyCb"
  PROVE  Careful(Tail(s), r2, p2)
<1> SUFFICES ASSUME NEW i \in DOMAIN Tail(s)
             PROVE  /\ GivesUp(Tail(s)[i]) =>
                         p2 = None \/ Precedes(Tail(s), i, "cancelTx")
                    /\ Tail(s)[i].op = "issue" =>
                         r2 # None \/ Precedes(Tail(s), i, "storeReplyCb")
  BY DEF Careful
<1>1. i + 1 \in DOMAIN s /\ Tail(s)[i] = s[i + 1]
  BY RestOf
<1>2. 1 \in DOMAIN s /\ Head(s) = s[1]
  BY TailOf
<1>3. ASSUME GivesUp(Tail(s)[i])
      PROVE  p2 = None \/ Precedes(Tail(s), i, "cancelTx")
  <2>1. Head(s).op # "issue"
    BY <1>1, <1>2, <1>3 DEF Shape, Holds
  <2>2. p = None \/ Precedes(s, i + 1, "cancelTx")
    BY <1>1, <1>3 DEF Careful
  <2> QED
    BY <2>1, <2>2, PrecedesTail
<1>4. ASSUME Tail(s)[i].op = "issue"
      PROVE  r2 # None \/ Precedes(Tail(s), i, "storeReplyCb")
  <2>1. ~GivesUp(Head(s))
    BY <1>1, <1>2, <1>4 DEF Shape, Holds
  <2>2. r # None \/ Precedes(s, i + 1, "storeReplyCb")
    BY <1>1, <1>4 DEF Careful
  <2> QED
    BY <2>1, <2>2, PrecedesTail
<1> QED
  BY <1>3, <1>4

\* Plain statements need no order.
LEMMA PlainIsCareful ==
  ASSUME NEW s \in Seq(PlainStatements)
  PROVE  /\ Shape(s) /\ \A r, p : Careful(s, r, p)
         /\ \A i \in DOMAIN s : s[i].op \in PlainOps
<1>1. \A i \in DOMAIN s : s[i].op \in PlainOps /\ ~GivesUp(s[i])
  <2> TAKE i \in DOMAIN s
  <2>1. s[i] \in PlainStatements
    BY ElementOf
  <2>2. s[i].op \in PlainOps
    BY <2>1 DEF PlainStatements, PlainOps
  <2> QED
    BY <2>2 DEF GivesUp, Stmt, PlainOps
<1> QED
  BY <1>1 DEF Shape, Careful, PlainOps, DecideOps

\* Plain statements before a function: its statements, further on.
LEMMA AfterPlain ==
  ASSUME NEW q \in Seq(PlainStatements), NEW s \in Seq(Statements)
  PROVE  /\ q \o s \in Seq(Statements)
         /\ Len(q) \in Nat /\ Len(q \o s) = Len(q) + Len(s)
         /\ \A i \in DOMAIN (q \o s) :
              \/ i \in DOMAIN q /\ (q \o s)[i] = q[i] /\ q[i] \in PlainStatements
              \/ i - Len(q) \in DOMAIN s /\ (q \o s)[i] = s[i - Len(q)]
         /\ \A j \in DOMAIN s :
              j + Len(q) \in DOMAIN (q \o s) /\ (q \o s)[j + Len(q)] = s[j]
<1>1. q \in Seq(Statements)
  BY PlainSeq
<1>2. \A i \in DOMAIN (q \o s) :
        \/ i \in DOMAIN q /\ (q \o s)[i] = q[i]
        \/ i - Len(q) \in DOMAIN s /\ (q \o s)[i] = s[i - Len(q)]
  <2> TAKE i \in DOMAIN (q \o s)
  <2>1. CASE i \in DOMAIN q
    BY <1>1, <2>1, ConcatOf
  <2>2. CASE i \notin DOMAIN q
    <3>1. i - Len(q) \in DOMAIN s /\ i = Len(q) + (i - Len(q))
      BY <1>1, <2>2, ConcatOf
    <3> QED
      BY <1>1, <3>1, ConcatOf
  <2> QED
    BY <2>1, <2>2
<1>3. \A j \in DOMAIN s :
        j + Len(q) \in DOMAIN (q \o s) /\ (q \o s)[j + Len(q)] = s[j]
  <2> TAKE j \in DOMAIN s
  <2>1. j + Len(q) = Len(q) + j /\ j + Len(q) \in DOMAIN (q \o s)
    BY <1>1, ConcatOf
  <2> QED
    BY <1>1, <2>1, ConcatOf
<1>4. /\ q \o s \in Seq(Statements)
      /\ Len(q) \in Nat /\ Len(q \o s) = Len(q) + Len(s)
  BY <1>1, ConcatOf
<1>5. \A i \in DOMAIN q : q[i] \in PlainStatements
  BY ElementOf
<1> QED
  BY <1>2, <1>3, <1>4, <1>5

\* Plain statements disturb nothing of what comes after them.
LEMMA CarefulAfterPlain ==
  ASSUME NEW q \in Seq(PlainStatements), NEW s \in Seq(Statements), Shape(s)
  PROVE  /\ Shape(q \o s)
         /\ \A r, p : Careful(s, r, p) => Careful(q \o s, r, p)
         /\ \A ops : Holds(s, ops) => Holds(q \o s, ops)
<1>1. \A st \in PlainStatements : st.op \in PlainOps /\ ~GivesUp(st)
  BY DEF PlainStatements, PlainOps, GivesUp, Stmt
<1>2. \A ops : Holds(s, ops) => Holds(q \o s, ops)
  <2> SUFFICES ASSUME NEW ops, NEW j \in DOMAIN s, s[j].op \in ops
               PROVE  Holds(q \o s, ops)
    BY DEF Holds
  <2>1. j + Len(q) \in DOMAIN (q \o s) /\ (q \o s)[j + Len(q)] = s[j]
    BY AfterPlain
  <2> QED
    BY <2>1 DEF Holds
<1>3. Holds(q \o s, {"issue"}) => Holds(s, {"issue"})
  <2> SUFFICES ASSUME NEW j \in DOMAIN (q \o s), (q \o s)[j].op = "issue"
               PROVE  Holds(s, {"issue"})
    BY DEF Holds
  <2>1. j - Len(q) \in DOMAIN s /\ (q \o s)[j] = s[j - Len(q)]
    BY <1>1, AfterPlain DEF PlainOps
  <2> QED
    BY <2>1 DEF Holds
<1>4. \A op : \A i \in DOMAIN s : Follows(s, i, op) => Follows(q \o s, i + Len(q), op)
  <2> SUFFICES ASSUME NEW i \in DOMAIN s, NEW op, NEW j \in DOMAIN s, j > i,
                      s[j].op = op
               PROVE  Follows(q \o s, i + Len(q), op)
    BY DEF Follows
  <2>1. i \in Nat /\ j \in Nat /\ Len(q) \in Nat
    BY ElementOf, AfterPlain
  <2>2. j + Len(q) > i + Len(q)
    BY <2>1
  <2> QED
    BY <2>2, AfterPlain DEF Follows
<1>5. \A op : \A i \in DOMAIN s : Precedes(s, i, op) => Precedes(q \o s, i + Len(q), op)
  <2> SUFFICES ASSUME NEW i \in DOMAIN s, NEW op, NEW j \in DOMAIN s, j < i,
                      s[j].op = op
               PROVE  Precedes(q \o s, i + Len(q), op)
    BY DEF Precedes
  <2>1. i \in Nat /\ j \in Nat /\ Len(q) \in Nat
    BY ElementOf, AfterPlain
  <2>2. j + Len(q) < i + Len(q)
    BY <2>1
  <2> QED
    BY <2>2, AfterPlain DEF Precedes
<1>6. \A i \in DOMAIN (q \o s) :
        \/ (q \o s)[i].op \in PlainOps /\ ~GivesUp((q \o s)[i])
        \/ \E k \in DOMAIN s : i = k + Len(q) /\ (q \o s)[i] = s[k]
  <2> TAKE i \in DOMAIN (q \o s)
  <2>1. i \in Nat
    BY AfterPlain, ElementOf
  <2>2. CASE i - Len(q) \in DOMAIN s /\ (q \o s)[i] = s[i - Len(q)]
    <3>1. i = (i - Len(q)) + Len(q)
      BY <2>1, AfterPlain
    <3> QED
      BY <2>2, <3>1
  <2> QED
    BY <1>1, <2>2, AfterPlain
<1>7. Shape(q \o s)
  <2> SUFFICES ASSUME NEW k \in DOMAIN s
               PROVE  /\ s[k].op \in DecideOps => k + Len(q) = Len(q \o s)
                      /\ s[k].op = "disarm" => Follows(q \o s, k + Len(q), "testCb")
                      /\ s[k].op = "issue" =>
                           /\ Follows(q \o s, k + Len(q), "storeCb")
                           /\ Follows(q \o s, k + Len(q), "arm")
                      /\ GivesUp(s[k]) => ~Holds(q \o s, {"issue"})
    BY <1>6 DEF Shape, PlainOps, DecideOps
  <2>1. k \in Nat /\ Len(q) \in Nat /\ Len(s) \in Nat /\ Len(q \o s) = Len(q) + Len(s)
    BY ElementOf, AfterPlain, PlainSeq, ConcatOf
  <2> QED
    BY <1>3, <1>4, <2>1 DEF Shape
<1>8. \A r, p : Careful(s, r, p) => Careful(q \o s, r, p)
  <2> SUFFICES ASSUME NEW r, NEW p, Careful(s, r, p), NEW i \in DOMAIN (q \o s)
               PROVE  /\ GivesUp((q \o s)[i]) => p = None \/ Precedes(q \o s, i, "cancelTx")
                      /\ (q \o s)[i].op = "issue" =>
                           r # None \/ Precedes(q \o s, i, "storeReplyCb")
    BY DEF Careful
  <2> QED
    BY <1>5, <1>6 DEF Careful, PlainOps
<1> QED
  BY <1>2, <1>7, <1>8

\* Two statements followed by three.
LEMMA TwoAndThree ==
  ASSUME NEW S, NEW a \in S, NEW b \in S, NEW c \in S, NEW d \in S, NEW e \in S,
         NEW s, s = <<a, b>> \o <<c, d, e>>
  PROVE  /\ s \in Seq(S) /\ Len(s) = 5 /\ DOMAIN s = 1 .. 5
         /\ s[1] = a /\ s[2] = b /\ s[3] = c /\ s[4] = d /\ s[5] = e
OBVIOUS

\* Three statements.
LEMMA ThreeOf ==
  ASSUME NEW S, NEW a \in S, NEW b \in S, NEW c \in S, NEW s, s = <<a, b, c>>
  PROVE  s \in Seq(S) /\ Len(s) = 3 /\ DOMAIN s = 1 .. 3
OBVIOUS

\* Four statements.
LEMMA FourOf ==
  ASSUME NEW S, NEW a \in S, NEW b \in S, NEW c \in S, NEW d \in S,
         NEW s, s = <<a, b, c, d>>
  PROVE  s \in Seq(S) /\ Len(s) = 4 /\ DOMAIN s = 1 .. 4
OBVIOUS

\* What a new function has to satisfy: it is a sequence of statements in order,
\* and careful whatever it finds.
Fresh(s) ==
  s \in Seq(Statements) /\ Shape(s) /\ \A r, p : Careful(s, r, p)

\* The body of an event that issues a command.
LEMMA CommandStmts ==
  ASSUME NEW c \in Commands
  PROVE  /\ Fresh(EventStmts(c))
         /\ Holds(EventStmts(c), {"storeCb"}) /\ Holds(EventStmts(c), RescueOps)
         /\ \A i \in DOMAIN EventStmts(c) :
              /\ EventStmts(c)[i].op \notin RunOps
              /\ EventStmts(c)[i].op = "storeCb"
                   => EventStmts(c)[i].arg = "responseTimeout"
              /\ EventStmts(c)[i].op = "storeReplyCb" => EventStmts(c)[i].arg = c
              /\ EventStmts(c)[i].op \in {"issue", "storeCb"}
                   => Precedes(EventStmts(c), i, "storeReplyCb")
<1> DEFINE s == EventStmts(c)
<1>1. s = <<Stmt("storeReplyCb", c), Stmt("issue", c)>>
            \o <<Stmt("storeDelay", ResponseTimeout), Stmt("storeCb", "responseTimeout"),
                 Stmt("arm", None)>>
  BY DEF EventStmts, ScheduleStmts, Commands
<1>2. /\ Stmt("storeReplyCb", c) \in Statements /\ Stmt("issue", c) \in Statements
      /\ Stmt("storeDelay", ResponseTimeout) \in Statements
      /\ Stmt("storeCb", "responseTimeout") \in Statements
      /\ Stmt("arm", None) \in Statements
  BY TimingAssumption DEF Stmt, Statements, PlainStatements, Events
<1> HIDE DEF s
<1>3. s \in Seq(Statements) /\ Len(s) = 5 /\ DOMAIN s = 1 .. 5
  BY <1>1, <1>2, TwoAndThree
<1>4. /\ s[1] = Stmt("storeReplyCb", c) /\ s[2] = Stmt("issue", c)
      /\ s[3] = Stmt("storeDelay", ResponseTimeout)
      /\ s[4] = Stmt("storeCb", "responseTimeout") /\ s[5] = Stmt("arm", None)
  BY <1>1, <1>2, TwoAndThree
<1>5. /\ s[1].op = "storeReplyCb" /\ s[2].op = "issue" /\ s[3].op = "storeDelay"
      /\ s[4].op = "storeCb" /\ s[5].op = "arm" /\ s[4].arg = "responseTimeout"
  BY <1>4 DEF Stmt
<1>6. \A i \in DOMAIN s : i = 1 \/ i = 2 \/ i = 3 \/ i = 4 \/ i = 5
  BY <1>3
<1>7. {1, 2, 3, 4, 5} \subseteq DOMAIN s
  BY <1>3
<1>8. Follows(s, 2, "storeCb") /\ Follows(s, 2, "arm") /\ Precedes(s, 2, "storeReplyCb")
  BY <1>5, <1>7 DEF Follows, Precedes
<1>9. \A i \in DOMAIN s : ~GivesUp(s[i])
  BY <1>4, <1>5, <1>6 DEF GivesUp, Stmt, Commands, None
<1>10. Shape(s) /\ \A r, p : Careful(s, r, p)
  BY <1>5, <1>6, <1>8, <1>9 DEF Shape, Careful, DecideOps
<1>11. Holds(s, {"storeCb"}) /\ Holds(s, RescueOps)
  BY <1>5, <1>7 DEF Holds, RescueOps
<1>12. Precedes(s, 4, "storeReplyCb") /\ s[1].arg = c
  BY <1>4, <1>5, <1>7 DEF Precedes, Stmt
<1>13. \A i \in DOMAIN s :
         /\ s[i].op \notin RunOps
         /\ s[i].op = "storeCb" => s[i].arg = "responseTimeout"
         /\ s[i].op = "storeReplyCb" => s[i].arg = c
         /\ s[i].op \in {"issue", "storeCb"} => Precedes(s, i, "storeReplyCb")
  BY <1>5, <1>6, <1>8, <1>12 DEF RunOps
<1> QED
  BY <1>3, <1>10, <1>11, <1>13 DEF Fresh, s

\* The functions that give a command up cancel it first.
LEMMA GiveUpStmts ==
  /\ Fresh(EventStmts("responseTimeout")) /\ Fresh(CmdTimeoutStmts)
  /\ Holds(EventStmts("responseTimeout"), RescueOps)
  /\ \A s \in {EventStmts("responseTimeout"), CmdTimeoutStmts} :
       \A i \in DOMAIN s :
         /\ s[i].op \notin RunOps \cup {"storeCb", "issue"}
         /\ s[i].op = "storeReplyCb" => s[i].arg = None
<1> DEFINE e == EventStmts("responseTimeout")
           c == CmdTimeoutStmts
<1>1. /\ e = <<Stmt("cancelTx", None), Stmt("storeReplyCb", None), Stmt("noReply", None)>>
      /\ c = <<Stmt("cancelTx", None), Stmt("storeReplyCb", None),
               Stmt("cancelEvent", None), Stmt("timedOut", None)>>
  BY DEF EventStmts, CmdTimeoutStmts
<1>2. /\ Stmt("cancelTx", None) \in Statements /\ Stmt("storeReplyCb", None) \in Statements
      /\ Stmt("noReply", None) \in Statements /\ Stmt("timedOut", None) \in Statements
      /\ Stmt("cancelEvent", None) \in Statements
  BY DEF Stmt, Statements
<1> HIDE DEF e, c
<1>3. /\ e \in Seq(Statements) /\ Len(e) = 3 /\ DOMAIN e = 1 .. 3
      /\ c \in Seq(Statements) /\ Len(c) = 4 /\ DOMAIN c = 1 .. 4
  <2>1. e \in Seq(Statements) /\ Len(e) = 3 /\ DOMAIN e = 1 .. 3
    BY <1>1, <1>2, ThreeOf
  <2>2. c \in Seq(Statements) /\ Len(c) = 4 /\ DOMAIN c = 1 .. 4
    BY <1>1, <1>2, FourOf
  <2> QED
    BY <2>1, <2>2
<1>4. /\ e[1].op = "cancelTx" /\ e[2].op = "storeReplyCb" /\ e[3].op = "noReply"
      /\ c[1].op = "cancelTx" /\ c[2].op = "storeReplyCb" /\ c[3].op = "cancelEvent"
      /\ c[4].op = "timedOut" /\ e[2].arg = None /\ c[2].arg = None
  BY <1>1 DEF Stmt
<1>5. /\ \A i \in DOMAIN e : i = 1 \/ i = 2 \/ i = 3
      /\ \A i \in DOMAIN c : i = 1 \/ i = 2 \/ i = 3 \/ i = 4
      /\ {1, 2, 3} \subseteq DOMAIN e /\ {1, 2, 3, 4} \subseteq DOMAIN c
  BY <1>3
<1>6. \A s \in {e, c} :
        /\ \A i \in DOMAIN s : /\ s[i].op \notin RunOps \cup {"storeCb", "issue"}
                               /\ s[i].op = "storeReplyCb" => s[i].arg = None
        /\ Shape(s) /\ Holds(s, RescueOps)
  BY <1>3, <1>4, <1>5 DEF RunOps, Shape, Holds, DecideOps, RescueOps
<1>7. \A r, p : Careful(e, r, p) /\ Careful(c, r, p)
  <2>1. /\ \A i \in DOMAIN e : i # 1 => Precedes(e, i, "cancelTx")
        /\ \A i \in DOMAIN c : i # 1 => Precedes(c, i, "cancelTx")
    BY <1>4, <1>5 DEF Precedes
  <2>2. ~GivesUp(e[1]) /\ ~GivesUp(c[1])
    BY <1>4 DEF GivesUp, Stmt
  <2> QED
    BY <1>6, <2>1, <2>2 DEF Careful
<1> QED
  BY <1>3, <1>6, <1>7 DEF Fresh, e, c

\* A single statement that chooses or sleeps needs no order.
LEMMA OneStmt ==
  ASSUME NEW st \in Statements,
         st.op \in DecideOps \cup {"sleep"}
  PROVE  Fresh(<<st>>)
<1>1. <<st>> \in Seq(Statements) /\ Len(<<st>>) = 1 /\ DOMAIN <<st>> = {1}
      /\ <<st>>[1] = st
  OBVIOUS
<1>2. ~GivesUp(st)
  BY DEF GivesUp, Stmt, DecideOps
<1> QED
  BY <1>1, <1>2 DEF Fresh, Shape, Careful, DecideOps

\* The event is disarmed, then looked at.
LEMMA DisarmStmts ==
  ASSUME NEW s, s = <<Stmt("disarm", None), Stmt("testCb", None)>>
  PROVE  /\ Fresh(s) /\ Holds(s, RescueOps)
         /\ \A i \in DOMAIN s : s[i].op \in {"disarm", "testCb"}
<1>1. Stmt("disarm", None) \in Statements /\ Stmt("testCb", None) \in Statements
  BY DEF Stmt, Statements
<1>2. s \in Seq(Statements) /\ Len(s) = 2 /\ DOMAIN s = 1 .. 2
  BY <1>1
<1>3. s[1].op = "disarm" /\ s[2].op = "testCb"
  BY DEF Stmt
<1>4. (\A i \in DOMAIN s : i = 1 \/ i = 2) /\ {1, 2} \subseteq DOMAIN s
  BY <1>2
<1>5. (\A i \in DOMAIN s : ~GivesUp(s[i])) /\ Follows(s, 1, "testCb")
  BY <1>3, <1>4 DEF GivesUp, Stmt, Follows
<1> QED
  BY <1>2, <1>3, <1>4, <1>5
  DEF Fresh, Shape, Careful, Holds, DecideOps, RescueOps

\* The empty rest needs no order.
LEMMA NoStmt == Fresh(<<>>)
BY DEF Fresh, Shape, Careful

\* Entering a state needs no order.
LEMMA EntryFresh ==
  ASSUME NEW s \in States
  PROVE  Fresh(EntryStmts(s))
BY EntryStmtsPlain, PlainIsCareful, PlainSeq DEF Fresh

-----------------------------------------------------------------------------
(* Type correctness.                                                        *)

\* An event whose age is not told apart beyond LongTime.
Timely(t) == t \in TimerType /\ t.age \in 0 .. LongTime

\* The type invariant, with what is in the statements and in the timer.
PreTyped ==
  PreTypeOK /\ Timely(timer) /\ todo \in Seq(Statements)

\* LongTime is a time.
LEMMA LongTimeIsTime == LongTime \in Nat /\ 0 \in 0 .. LongTime
BY TimingAssumption DEF LongTime

\* Scheduling and cancelling start the age anew.
LEMMA ScheduleTimely ==
  /\ \A d \in Nat, e \in Events : Timely(ScheduleEvent(d, e))
  /\ Timely(CancelEvent)
BY LongTimeIsTime DEF Timely, TimerType, ScheduleEvent, CancelEvent

\* Entering a state keeps the timer in its type.
LEMMA EntryTimely ==
  ASSUME NEW s, NEW t, Timely(t)
  PROVE  Timely(EntryTimer(s, t))
BY ScheduleTimely, EntryEvent

\* The time since the event was scheduled is not told apart beyond LongTime.
LEMMA SinceTimely ==
  PreTyped => SinceScheduled \in 0 .. LongTime
BY DEF PreTyped, PreTypeOK, Timely, SinceScheduled

\* The events no callback schedules: those that belong to one API call, and the
\* timeout of a command.
OwnedEvents == {"sendTo", "getTime", "setTxPower", "responseTimeout"}

\* The reply functions leave no event of an API call scheduled.
LEMMA ReplyTimely ==
  ASSUME state \in States, ReplyOutcome
  PROVE  state' \in States /\ Timely(timer') /\ timer'.cb \notin OwnedEvents
<1>1. \A t : t = CancelEvent => Timely(t) /\ t.cb \notin OwnedEvents
  BY ScheduleTimely DEF CancelEvent, OwnedEvents, None
<1>2. \A d \in Nat, e \in Events \ OwnedEvents :
        Timely(ScheduleEvent(d, e)) /\ ScheduleEvent(d, e).cb \notin OwnedEvents
  BY ScheduleTimely DEF ScheduleEvent
<1>3. CASE Wait
  BY <1>1, <1>3 DEF Wait, Stay
<1>4. CASE \E event \in {"reset", "openSocket", "bindSocket", "setJoinKey",
                        "setNetworkId", "getServiceInfo"} : Proceed(event)
  <2>1. PICK event \in Events \ OwnedEvents : Proceed(event)
    BY <1>4 DEF Events, Commands, OwnedEvents
  <2> QED
    BY <1>2, <2>1, TimingAssumption DEF Proceed, Stay
<1>5. CASE \E s \in {"DISCONNECTED", "RESETTING", "PROMISCUOUS", "JOINING",
                    "CONNECTED", "SEND_FAILED"} : Enter(s)
  <2>1. PICK s \in States \ {"SENDING"} : Enter(s)
    BY <1>5 DEF States, ConnectingStates
  <2>2. \/ timer' = CancelEvent
        \/ \E d \in Nat, e \in Events \ OwnedEvents : timer' = ScheduleEvent(d, e)
    BY <2>1, EntryEvent DEF Enter, EnterState, OwnedEvents
  <2>3. state' \in States
    BY <2>1 DEF Enter, EnterState
  <2> QED
    BY <1>1, <1>2, <2>2, <2>3
<1> QED
  BY <1>3, <1>4, <1>5 DEF ReplyOutcome

\* What the thread and the callbacks do to a timer: they keep it, or schedule
\* an event that belongs to no API call.
NotifiedTimer(t) ==
  \/ t = timer
  \/ \E d \in Nat, e \in Events \ OwnedEvents : t = ScheduleEvent(d, e)

\* A notification never leaves less scheduled than there was.
LEMMA NotifiedTimely ==
  ASSUME NEW t, NotifiedTimer(t), Timely(timer)
  PROVE  /\ Timely(t) /\ (t.cb = timer.cb \/ t.cb \notin OwnedEvents)
         /\ timer.armed => t.armed
         /\ timer.cb # None => t.cb # None
<1>1. \A d \in Nat, e \in Events \ OwnedEvents :
        /\ Timely(ScheduleEvent(d, e)) /\ ScheduleEvent(d, e).cb = e
        /\ ScheduleEvent(d, e).armed /\ e # None
  BY ScheduleTimely DEF ScheduleEvent, Events, Commands, None
<1> QED
  BY <1>1 DEF NotifiedTimer

\* What a callback in the interrupt can do: a reply ends the outstanding command
\* and schedules no event of an API call; a notification keeps the command and
\* does not take its event away.
LEMMA InterruptDoes ==
  ASSUME PreTyped, Interrupt
  PROVE  /\ UNCHANGED <<todo, passed, replyCb, pc, api>>
         /\ state' \in States /\ Timely(timer') /\ gap' \in 0 .. LongTime
         /\ \/ pending' = None /\ timer'.cb \notin OwnedEvents
            \/ pending' = pending /\ NotifiedTimer(timer')
         /\ state \in {"CONNECTED", "DISCONNECTED"} =>
              \/ state' \in {"CONNECTED", "DISCONNECTED"}
              \/ timer'.cb \notin OwnedEvents
         /\ configured' \subseteq PreJoinSteps
         /\ networkId' \in NetIds \cup {Unset}
<1> USE DEF confVars, callVars, libVars
<1>1. state \in States /\ Timely(timer) /\ configured \subseteq PreJoinSteps
      /\ networkId \in NetIds \cup {Unset}
  BY DEF PreTyped, PreTypeOK
<1>2. gap' \in 0 .. LongTime /\ UNCHANGED <<todo, passed>>
  BY SinceTimely, LongTimeIsTime DEF Interrupt
<1>3. CASE MoteReplies
  <2>1. PICK rc \in ResponseCodes, moteState \in MoteStates, id \in SocketIds,
             completed \in BOOLEAN, granted \in Services :
               ReplyCb(rc, moteState, id, completed, granted)
    BY <1>3, ReplyTyped
  <2>2. Reply(rc, moteState, id, completed, granted) /\ pending' = None
        /\ UNCHANGED <<replyCb, confVars, callVars>>
    BY <2>1 DEF ReplyCb
  <2>3. ReplyOutcome
    BY <2>2, ReplyCases
  <2>4. configured' \subseteq PreJoinSteps
    BY <1>1, <2>1 DEF ReplyCb
  <2> QED
    BY <1>1, <1>2, <2>2, <2>3, <2>4, ReplyTimely
<1>4. CASE MoteReports
  <2>1. PICK moteState \in MoteStates, events \in SUBSET MoteEvents :
               NotifEvents(moteState, events)
    BY <1>4 DEF MoteReports
  <2>2. \/ state' = state /\ timer' = timer
        \/ \E s \in States \ {"SENDING"} : EnterState(s, timer)
        \/ state' = state /\ timer' = ScheduleEvent(CmdPeriod, "getServiceInfo")
    BY <2>1 DEF NotifEvents, OnExpectedEvent, StateOn, Stay, States,
                ConnectingStates, None
  <2>3. \A s \in States \ {"SENDING"} : EnterState(s, timer) => NotifiedTimer(timer')
    BY EntryEvent DEF EnterState, NotifiedTimer, OwnedEvents
  <2>4. "getServiceInfo" \in Events \ OwnedEvents /\ CmdPeriod \in Nat
    BY TimingAssumption DEF Events, Commands, OwnedEvents
  <2>5. state' \in States /\ NotifiedTimer(timer')
    BY <1>1, <2>2, <2>3, <2>4 DEF NotifiedTimer, EnterState
  <2>6. state \in {"CONNECTED", "DISCONNECTED"} =>
          state' \in {"CONNECTED", "DISCONNECTED"}
    BY <2>1 DEF NotifEvents, ExpectedEvent, StateOn, Stay, EnterState,
                ConnectingStates, None
  <2>7. UNCHANGED <<confVars, libVars, callVars>>
    BY <2>1 DEF NotifEvents
  <2> QED
    BY <1>1, <1>2, <2>5, <2>6, <2>7, NotifiedTimely
<1>5. CASE MoteHearsNetwork
  <2>1. PICK netId \in NetIds \ {PromiscuousId} : NotifAdvReceived(netId)
    BY <1>5 DEF MoteHearsNetwork
  <2>2. "setNetworkId" \in Events \ OwnedEvents /\ CmdPeriod \in Nat
    BY TimingAssumption DEF Events, Commands, OwnedEvents
  <2>3. state' = state /\ NotifiedTimer(timer')
    BY <2>1, <2>2 DEF NotifAdvReceived, Stay, NotifiedTimer
  <2>4. networkId' \in NetIds \cup {Unset} /\ UNCHANGED <<libVars, callVars>>
    BY <1>1, <2>1 DEF NotifAdvReceived
  <2> QED
    BY <1>1, <1>2, <2>3, <2>4, NotifiedTimely
<1> QED
  BY <1>3, <1>4, <1>5 DEF Interrupt

-----------------------------------------------------------------------------
(* The application thread, statement by statement.                          *)

\* The statements after which the function goes on with the next one.
StoreOps ==
  PlainOps \cup {"disarm", "storeReplyCb", "cancelTx", "cancelEvent", "sleep"}

\* A statement that stores is followed by the next one, or, if it is a refused
\* issue of a send, by the entry of SEND_FAILED first; a statement that chooses
\* stores nothing.
LEMMA StatementKinds ==
  ASSUME PreTyped, Statement
  PROVE  /\ todo # <<>> /\ Head(todo) \in Statements /\ UNCHANGED <<pc, api>>
         /\ \/ Head(todo).op \in StoreOps /\ todo' = Tail(todo)
            \/ /\ Head(todo).op = "issue"
               /\ \/ todo' = Tail(todo) /\ pending' \in {pending, Head(todo).arg}
                  \/ /\ todo' = EntryStmts("SEND_FAILED") \o Tail(todo)
                     /\ pending' = pending
               /\ UNCHANGED <<state, timer, gap, replyCb, passed>>
            \/ Head(todo).op \in DecideOps /\ NothingStored
BY TailOf DEF PreTyped, Statement, Execute, StoreOps, PlainOps, DecideOps, Issue,
              Accept, Refuse, KeepTimer

\* What a statement stores is in the types of the variables.
LEMMA StatementStores ==
  ASSUME PreTyped, Statement
  PROVE  /\ state' \in States /\ Timely(timer')
         /\ replyCb' \in Commands \cup {None} /\ pending' \in Commands \cup {None}
         /\ passed' \in 0 .. LongTime /\ gap' \in 0 .. LongTime
<1> DEFINE h == Head(todo)
<1>0. /\ todo # <<>> /\ h \in Statements /\ Execute(h, Tail(todo))
      /\ state \in States /\ timer \in TimerType /\ timer.age \in 0 .. LongTime
      /\ replyCb \in Commands \cup {None} /\ pending \in Commands \cup {None}
      /\ passed \in 0 .. LongTime /\ gap \in 0 .. LongTime
      /\ SinceScheduled \in 0 .. LongTime
  BY StatementKinds, SinceTimely DEF Statement, PreTyped, PreTypeOK, Timely
<1> HIDE DEF h
<1>1. CASE h.op = "storeDelay"
  <2>1. StoreDelay(h.arg) /\ h.arg \in Nat
    BY <1>0, <1>1, OperandTyped DEF Execute
  <2> QED
    BY <1>0, <2>1, LongTimeIsTime DEF StoreDelay, Timely, TimerType
<1>2. CASE h.op = "storeCb"
  <2>1. StoreCb(h.arg) /\ h.arg \in Events
    BY <1>0, <1>2, OperandTyped DEF Execute
  <2> QED
    BY <1>0, <2>1 DEF StoreCb, Timely, TimerType
<1>3. CASE h.op = "arm"
  <2>1. Arm
    BY <1>0, <1>3 DEF Execute
  <2>2. SinceScheduled \in Nat
    BY <1>0
  <2>3. timer' = [timer EXCEPT !.armed = TRUE, !.age = SinceScheduled]
    BY <2>1 DEF Arm
  <2>4. timer' \in TimerType /\ timer'.age = SinceScheduled
    BY <1>0, <2>2, <2>3 DEF TimerType
  <2> QED
    BY <1>0, <2>1, <2>4, LongTimeIsTime DEF Arm, Timely
<1>4. CASE h.op = "disarm"
  <2>1. Disarm
    BY <1>0, <1>4 DEF Execute
  <2> QED
    BY <1>0, <2>1, LongTimeIsTime DEF Disarm, Disarmed, Timely, TimerType
<1>5. CASE h.op = "storeState"
  <2>1. StoreState(h.arg) /\ h.arg \in States
    BY <1>0, <1>5, OperandTyped DEF Execute
  <2> QED
    BY <1>0, <2>1 DEF StoreState, KeepTimer, Timely
<1>6. CASE h.op = "storeReplyCb"
  <2>1. StoreReplyCb(h.arg) /\ h.arg \in Commands \cup {None}
    BY <1>0, <1>6, OperandTyped DEF Execute
  <2> QED
    BY <1>0, <2>1 DEF StoreReplyCb, KeepTimer, Timely
<1>7. CASE h.op = "cancelTx"
  <2>1. DropTx
    BY <1>0, <1>7 DEF Execute
  <2> QED
    BY <1>0, <2>1 DEF DropTx, CancelTx, KeepTimer, Timely
<1>8. CASE h.op = "cancelEvent"
  <2>1. StoreCancelled
    BY <1>0, <1>8 DEF Execute
  <2> QED
    BY <1>0, <2>1, ScheduleTimely DEF StoreCancelled
<1>9. CASE h.op = "sleep"
  <2>1. SleepStmt
    BY <1>0, <1>9 DEF Execute
  <2>2. \A n \in Nat : AtMost(n + 1, LongTime) \in 0 .. LongTime
    BY LongTimeIsTime DEF AtMost
  <2>3. AtMost(timer.age + 1, LongTime) \in 0 .. LongTime
        /\ AtMost(gap + 1, LongTime) \in 0 .. LongTime
    BY <1>0, <2>2
  <2> QED
    BY <1>0, <2>1, <2>3, LongTimeIsTime DEF SleepStmt, Timely, TimerType
<1>10. CASE h.op = "issue"
  <2>1. h.arg \in Commands
    BY <1>0, <1>10, OperandTyped
  <2> QED
    BY <1>0, <1>10, <2>1, StatementKinds DEF h, StoreOps, PlainOps, DecideOps, Timely
<1>11. CASE h.op \in DecideOps
  <2>1. NothingStored
    BY <1>11, StatementKinds DEF h, StoreOps, PlainOps, DecideOps
  <2>2. passed' = passed \/ passed' = 0 \/ passed' = SinceScheduled
    BY <1>0, <1>11 DEF Execute, DecideOps, ReadTime, TestDue, TestCb, CallCb
  <2> QED
    BY <1>0, <2>1, <2>2, LongTimeIsTime DEF NothingStored, Timely
<1> QED
  BY <1>1, <1>2, <1>3, <1>4, <1>5, <1>6, <1>7, <1>8, <1>9, <1>10, <1>11,
     StatementKinds DEF h, StoreOps, PlainOps

\* Where the thread goes on after a statement that chooses.
LEMMA DecisionNext ==
  ASSUME PreTyped, Statement, Head(todo).op \in DecideOps
  PROVE  \/ /\ Head(todo).op \in {"noReply", "timedOut"}
            /\ \/ todo' = <<>>
               \/ \E s \in States \ {"SENDING"} : todo' = EntryStmts(s)
         \/ Head(todo).op = "readTime" /\ todo' = <<Stmt("testDue", None)>>
         \/ /\ Head(todo).op = "testDue"
            /\ \/ todo' = <<Stmt("sleep", None)>>
               \/ todo' = <<Stmt("disarm", None), Stmt("testCb", None)>>
         \/ /\ Head(todo).op = "testCb"
            /\ \/ timer.cb = None /\ todo' = <<>>
               \/ timer.cb \in Events /\ todo' = <<Stmt("callCb", timer.cb)>>
         \/ /\ Head(todo).op = "callCb"
            /\ \E e \in {Head(todo).arg, timer.cb} \cap Events : todo' = EventStmts(e)
<1> DEFINE h == Head(todo)
<1>0. h \in Statements /\ Execute(h, Tail(todo)) /\ h.op \in DecideOps
      /\ timer.cb \in Events \cup {None}
  BY StatementKinds DEF Statement, PreTyped, PreTypeOK, TimerType
<1> HIDE DEF h
<1>1. CASE h.op = "noReply"
  <2>1. todo' = AfterNoReply
    BY <1>0, <1>1 DEF Execute
  <2> QED
    BY <1>1, <2>1 DEF h, AfterNoReply, States, ConnectingStates
<1>2. CASE h.op = "timedOut"
  <2>1. todo' = AfterTimeOut
    BY <1>0, <1>2 DEF Execute
  <2> QED
    BY <1>2, <2>1 DEF h, AfterTimeOut, States, ConnectingStates
<1>3. CASE h.op = "readTime"
  BY <1>0, <1>3 DEF Execute, ReadTime, h
<1>4. CASE h.op = "testDue"
  BY <1>0, <1>4 DEF Execute, TestDue, h
<1>5. CASE h.op = "testCb"
  BY <1>0, <1>5 DEF Execute, TestCb, h
<1>6. CASE h.op = "callCb"
  <2>1. CallCb(h.arg) /\ h.arg \in Events
    BY <1>0, <1>6, OperandTyped DEF Execute
  <2> QED
    BY <1>0, <1>6, <2>1 DEF CallCb, Called, h
<1> QED
  BY <1>0, <1>1, <1>2, <1>3, <1>4, <1>5, <1>6 DEF DecideOps, h

\* It goes on with a function in order, that is careful whatever it finds.
LEMMA DecisionFresh ==
  ASSUME PreTyped, Statement, Head(todo).op \in DecideOps
  PROVE  Fresh(todo')
<1>1. \A s \in States : Fresh(EntryStmts(s))
  BY EntryFresh
<1>2. Fresh(<<Stmt("testDue", None)>>) /\ Fresh(<<Stmt("sleep", None)>>)
  BY OneStmt DEF Stmt, Statements, DecideOps
<1>3. \A e \in Events : Fresh(<<Stmt("callCb", e)>>)
  BY OneStmt DEF Stmt, Statements, DecideOps
<1>4. \A e \in Events : Fresh(EventStmts(e))
  BY CommandStmts, GiveUpStmts DEF Events
<1>5. Fresh(<<Stmt("disarm", None), Stmt("testCb", None)>>) /\ Fresh(<<>>)
  BY DisarmStmts, NoStmt
<1> QED
  BY <1>1, <1>2, <1>3, <1>4, <1>5, DecisionNext

-----------------------------------------------------------------------------
(* The API calls and their loop.                                            *)

\* What a call goes on with once it is in its loop: dn_qsl_connect enters a
\* state that schedules an event or has nothing to do, dn_qsl_send enters
\* SENDING, the queries schedule their own event last.
CallStmts ==
  \/ /\ api' = "connect" /\ todo' = <<>> /\ state \in {"CONNECTED", "DISCONNECTED"}
  \/ /\ api' = "connect"
     /\ \E s \in {"PRE_JOIN", "RESETTING", "REQ_SERVICE"} : todo' = EntryStmts(s)
  \/ api' = "send" /\ todo' = EntryStmts("SENDING")
  \/ \E q \in {"getTime", "setTxPower"} :
       api' = q /\ todo' = EntryStmts(state) \o ScheduleStmts(CmdPeriod, q)

\* A call starts with no function under way, stores nothing but its arguments at
\* once, and goes on with plain statements.
LEMMA CallDoes ==
  ASSUME PreTyped, PreCalls
  PROVE  /\ todo = <<>> /\ pc = "idle"
         /\ UNCHANGED <<state, timer, replyCb, pending, passed, gap, configured>>
         /\ networkId' \in NetIds \cup {Unset}
         /\ \/ pc' = "test" /\ CallStmts
            \/ /\ pc' = "idle" /\ api' = api
               /\ todo' = <<>> \/ todo' = EntryStmts("DISCONNECTED")
<1> USE DEF AtRest, NoStore, fsmVars, StartLoop, Refused, callVars
<1>1. CASE \E netID \in NetIds \cup {Unset}, key \in JoinKeys \cup {Unset},
              port \in SrcPorts \cup {Unset}, service \in Services :
                PreConnect(netID, key, port, service)
  <2>1. PICK netID \in NetIds \cup {Unset}, key \in JoinKeys \cup {Unset},
             port \in SrcPorts \cup {Unset}, service \in Services :
               PreConnect(netID, key, port, service)
    BY <1>1
  <2>2. networkId \in NetIds \cup {Unset} /\ OrDefault(netID, DefaultNetId) \in NetIds
    BY DataAssumption DEF PreTyped, PreTypeOK, OrDefault
  <2>3. networkId' \in {networkId, OrDefault(netID, DefaultNetId)}
    BY <2>1 DEF PreConnect, CheckAndSaveNetConfig, confVars
  <2>4. /\ todo = <<>> /\ pc = "idle"
        /\ UNCHANGED <<state, timer, replyCb, pending, passed, gap, configured>>
    BY <2>1 DEF PreConnect
  <2>5. \/ pc' = "test" /\ CallStmts
        \/ /\ pc' = "idle" /\ api' = api
           /\ todo' = <<>> \/ todo' = EntryStmts("DISCONNECTED")
    BY <2>1 DEF PreConnect, CallStmts
  <2> QED
    BY <2>2, <2>3, <2>4, <2>5
<1>2. CASE \E fits \in BOOLEAN : PreSend(fits)
  BY <1>2 DEF PreSend, CallStmts, confVars, PreTyped, PreTypeOK
<1>3. CASE \E q \in Queries : PreQuery(q)
  BY <1>3, PreemptAssumption DEF PreQuery, CallStmts, confVars, PreTyped, PreTypeOK
<1>4. CASE PreQslInit
  BY <1>4 DEF PreQslInit, confVars, PreTyped, PreTypeOK
<1> QED
  BY <1>1, <1>2, <1>3, <1>4 DEF PreCalls

\* Those statements are plain.
LEMMA CallStmtsPlain ==
  ASSUME PreTyped, CallStmts
  PROVE  todo' \in Seq(PlainStatements)
<1>1. \A s \in States : EntryStmts(s) \in Seq(PlainStatements)
  BY EntryStmtsPlain
<1>2. \A q \in {"getTime", "setTxPower"} :
        ScheduleStmts(CmdPeriod, q) \in Seq(PlainStatements)
  BY ScheduleStmtsPlain, TimingAssumption DEF Events, Commands
<1>3. state \in States /\ {"PRE_JOIN", "RESETTING", "REQ_SERVICE", "SENDING"} \subseteq States
  BY DEF PreTyped, PreTypeOK, States, ConnectingStates
<1>4. \A q \in {"getTime", "setTxPower"} :
        EntryStmts(state) \o ScheduleStmts(CmdPeriod, q) \in Seq(PlainStatements)
  BY <1>1, <1>2, <1>3, ConcatOf
<1>5. <<>> \in Seq(PlainStatements)
  OBVIOUS
<1> QED
  BY <1>1, <1>3, <1>4, <1>5 DEF CallStmts

\* A call goes on with a function in order.
LEMMA CallFresh ==
  ASSUME PreTyped, PreCalls
  PROVE  Fresh(todo')
<1>1. CASE CallStmts
  BY <1>1, CallStmtsPlain, PlainIsCareful, PlainSeq DEF Fresh
<1>2. CASE todo' = <<>> \/ todo' = EntryStmts("DISCONNECTED")
  BY <1>2, NoStmt, EntryFresh DEF States
<1> QED
  BY <1>1, <1>2, CallDoes

\* The loop goes on with dn_fsm_run, gives the command up, or leaves; after it
\* a failed send enters CONNECTED.
LEMMA LoopDoes ==
  ASSUME PreTyped, PreLoopTest \/ PreReturn
  PROVE  /\ todo = <<>> /\ Fresh(todo') /\ networkId' = networkId
         /\ UNCHANGED <<state, timer, replyCb, pending, passed, gap>>
         /\ configured' \subseteq PreJoinSteps
         /\ \/ /\ pc = "test" /\ pc' = "test" /\ api' = api
               /\ Waiting /\ todo' = RunStmts
            \/ /\ pc = "test" /\ pc' = "return" /\ api' = api
               /\ todo' \in {<<>>, CmdTimeoutStmts}
            \/ /\ pc = "return" /\ pc' = "idle" /\ api' = None
               /\ todo' \in {<<>>, EntryStmts("CONNECTED")}
<1>1. Fresh(<<>>) /\ Fresh(CmdTimeoutStmts) /\ Fresh(EntryStmts("CONNECTED"))
  BY NoStmt, GiveUpStmts, EntryFresh DEF States
<1>2. Fresh(RunStmts)
  BY OneStmt DEF RunStmts, Stmt, Statements, DecideOps
<1>3. configured \subseteq PreJoinSteps
  BY DEF PreTyped, PreTypeOK
<1>4. CASE PreLoopTest
  BY <1>1, <1>2, <1>3, <1>4 DEF PreLoopTest, AtRest, NoStore, fsmVars, confVars
<1>5. CASE PreReturn
  BY <1>1, <1>3, <1>5 DEF PreReturn, AtRest, NoStore, fsmVars, confVars
<1> QED
  BY <1>4, <1>5

\* While the application does something else only the age of the event changes.
LEMMA IdleDoes ==
  ASSUME PreTyped, PreIdle
  PROVE  /\ Timely(timer') /\ gap' \in 0 .. LongTime
         /\ timer'.armed = timer.armed /\ timer'.cb = timer.cb
         /\ UNCHANGED <<state, networkId, replyCb, pending, configured, pc, api, todo, passed>>
BY LongTimeIsTime
DEF PreTyped, PreTypeOK, PreIdle, Timely, TimerType, confVars, libVars, callVars

\* The types are right before dn_qsl_init.
LEMMA PreTypedInit == PreInit => PreTyped
<1> SUFFICES ASSUME PreInit PROVE PreTyped
  OBVIOUS
<1>1. Timely(timer)
  BY ScheduleTimely DEF PreInit, Init
<1>2. todo \in Seq(Statements) /\ DOMAIN todo = {}
  BY DEF PreInit
<1>3. passed \in 0 .. LongTime /\ gap \in 0 .. LongTime
  BY LongTimeIsTime DEF PreInit
<1> QED
  BY <1>1, <1>2, <1>3 DEF PreInit, Init, PreTyped, PreTypeOK, Timely, States, Apis, None

\* A sequence of statements has an operation and an operand at each place.
LEMMA StatementsTyped ==
  ASSUME NEW s \in Seq(Statements)
  PROVE  \A i \in DOMAIN s : DOMAIN s[i] = {"op", "arg"}
BY ElementOf, OperandTyped

\* The type invariant is inductive: one step per action.
LEMMA PreTypedStep == PreTyped /\ [PreNext]_preVars => PreTyped'
<1> SUFFICES ASSUME PreTyped, [PreNext]_preVars PROVE PreTyped'
  OBVIOUS
<1>0. /\ state \in States /\ timer \in TimerType /\ Timely(timer)
      /\ {replyCb, pending} \subseteq Commands \cup {None}
      /\ configured \subseteq PreJoinSteps /\ networkId \in NetIds \cup {Unset}
      /\ pc \in {"idle", "test", "return"}
      /\ api \in Apis \cup {None} /\ (api = None <=> pc = "idle")
      /\ passed \in 0 .. LongTime /\ gap \in 0 .. LongTime
      /\ todo \in Seq(Statements)
  BY DEF PreTyped, PreTypeOK
<1> SUFFICES /\ state' \in States /\ Timely(timer')
             /\ {replyCb', pending'} \subseteq Commands \cup {None}
             /\ configured' \subseteq PreJoinSteps /\ networkId' \in NetIds \cup {Unset}
             /\ pc' \in {"idle", "test", "return"}
             /\ api' \in Apis \cup {None} /\ (api' = None <=> pc' = "idle")
             /\ passed' \in 0 .. LongTime /\ gap' \in 0 .. LongTime
             /\ todo' \in Seq(Statements)
  <2>1. todo' \in Seq(Statements) =>
          \A i \in DOMAIN todo' : DOMAIN todo'[i] = {"op", "arg"}
    BY StatementsTyped
  <2> QED
    BY <2>1 DEF PreTyped, PreTypeOK, Timely
<1>1. CASE PreCalls
  <2>1. todo' \in Seq(Statements)
    BY <1>1, CallFresh DEF Fresh
  <2>2. CallStmts => api' \in Apis /\ api' # None
    BY DEF CallStmts, Apis, None
  <2> QED
    BY <1>0, <1>1, <2>1, <2>2, CallDoes
<1>2. CASE PreIdle
  BY <1>0, <1>2, IdleDoes
<1>3. CASE PreLoopTest \/ PreReturn
  <2>1. todo' \in Seq(Statements)
    BY <1>3, LoopDoes DEF Fresh
  <2> QED
    BY <1>0, <1>3, <2>1, LoopDoes DEF Apis, None
<1>4. CASE Statement
  <2>1. todo' \in Seq(Statements)
    <3>1. CASE Head(todo).op \in DecideOps
      BY <1>4, <3>1, DecisionFresh DEF Fresh
    <3>2. CASE todo' = Tail(todo)
      BY <1>0, <1>4, <3>2, StatementKinds, TailOf
    <3>3. CASE todo' = EntryStmts("SEND_FAILED") \o Tail(todo)
      <4>1. EntryStmts("SEND_FAILED") \in Seq(Statements)
        BY EntryFresh DEF Fresh, States
      <4> QED
        BY <1>0, <1>4, <3>3, <4>1, StatementKinds, TailOf, ConcatOf
    <3> QED
      BY <1>4, <3>1, <3>2, <3>3, StatementKinds
  <2>2. UNCHANGED <<configured, networkId, pc, api>>
    BY <1>4 DEF Statement, confVars
  <2> QED
    BY <1>0, <1>4, <2>1, <2>2, StatementStores
<1>5. CASE Interrupt
  BY <1>0, <1>5, InterruptDoes
<1>6. CASE UNCHANGED preVars
  BY <1>0, <1>6 DEF preVars, vars, fsmVars, confVars, libVars, callVars
<1> QED
  BY <1>1, <1>2, <1>3, <1>4, <1>5, <1>6 DEF PreNext, PreThread

\* Every statement the thread has ahead is one of the library's, with an operand
\* that suits it, and every variable is in its type.
THEOREM PreTypedAlways == PreSpec => []PreTyped
BY PreTypedInit, PreTypedStep, PTL DEF PreSpec

\* The type invariant holds wherever the callbacks strike.
THEOREM PreTypeCorrect == PreSpec => []PreTypeOK
<1>1. PreTyped => PreTypeOK
  BY DEF PreTyped
<1> QED
  BY <1>1, PreTypedAlways, PTL

-----------------------------------------------------------------------------
(* The watchdog.                                                            *)

\* The functions under way are in order and careful, and an outstanding command
\* is watched, or will be before its function is over.
WatchKept ==
  Shape(todo) /\ Careful(todo, replyCb, pending) /\ Watched(todo, timer, replyCb, pending)

\* Nothing is outstanding before dn_qsl_init.
LEMMA WatchInit == PreInit => WatchKept
BY NoStmt DEF PreInit, Init, WatchKept, Watched, Fresh

\* A statement that stores and is followed by the next one.
LEMMA WatchStore ==
  ASSUME PreTyped, WatchKept, Statement, Head(todo).op \in StoreOps, todo' = Tail(todo)
  PROVE  WatchKept'
<1> DEFINE h == Head(todo)
<1>0. /\ todo \in Seq(Statements) /\ todo # <<>> /\ h \in Statements
      /\ Execute(h, Tail(todo)) /\ h = todo[1] /\ 1 \in DOMAIN todo
      /\ Shape(todo) /\ Careful(todo, replyCb, pending)
      /\ Watched(todo, timer, replyCb, pending) /\ timer \in TimerType
  BY StatementKinds, TailOf DEF Statement, PreTyped, WatchKept, Timely
<1> HIDE DEF h
<1>1. Shape(todo')
  BY <1>0, ShapeTail
<1>2. /\ pending' = pending \/ pending' = None
      /\ h.op # "cancelTx" => pending' = pending
      /\ h.op # "storeReplyCb" => replyCb' = replyCb
      /\ h.op = "storeReplyCb" => replyCb' = h.arg
  BY <1>0 DEF h, StoreOps, PlainOps, Execute, StoreDelay, StoreCb, Arm, Disarm,
     StoreState, StoreReplyCb, DropTx, CancelTx, StoreCancelled, SleepStmt
<1>3. h.op = "cancelTx" => pending' = None
  BY <1>0 DEF Execute, DropTx, CancelTx
<1>4. h.op = "storeReplyCb" => replyCb' # None \/ GivesUp(h)
  <2>1. DOMAIN h = {"op", "arg"} /\ h = [op |-> h.op, arg |-> h.arg]
    BY <1>0 DEF Statements, PlainStatements
  <2> QED
    BY <1>2, <2>1 DEF GivesUp, Stmt
<1>5. Careful(todo', replyCb', pending')
  BY <1>0, <1>2, <1>3, <1>4, CarefulTail DEF h
<1>6. ~Precedes(todo, 1, "cancelTx")
  BY <1>0, ElementOf DEF Precedes
<1>7. GivesUp(h) => pending' = None
  BY <1>0, <1>2, <1>6 DEF Careful
<1>8. ASSUME pending' # None
      PROVE  /\ replyCb' # None
             /\ timer'.cb # None \/ Holds(todo', {"storeCb"})
             /\ timer'.armed \/ Holds(todo', RescueOps)
  <2>0. /\ pending # None /\ pending' = pending /\ ~GivesUp(h) /\ h.op # "cancelTx"
        /\ h.op # "cancelEvent"
    BY <1>2, <1>3, <1>7, <1>8 DEF GivesUp
  <2>1. /\ replyCb # None
        /\ timer.cb # None \/ Holds(todo, {"storeCb"})
        /\ timer.armed \/ Holds(todo, RescueOps)
    BY <1>0, <2>0 DEF Watched
  <2>2. replyCb' # None
    BY <1>2, <1>4, <2>0, <2>1
  <2>3. timer'.cb # None \/ Holds(todo', {"storeCb"})
    <3>1. CASE h.op = "storeCb"
      <4>1. timer'.cb = h.arg /\ h.arg \in Events
        BY <1>0, <3>1, OperandTyped DEF Execute, StoreCb, TimerType
      <4> QED
        BY <4>1 DEF Events, Commands, None
    <3>2. CASE h.op # "storeCb"
      <4>1. timer'.cb = timer.cb
        BY <1>0, <2>0, <3>2 DEF h, StoreOps, PlainOps, Execute, StoreDelay, Arm, Disarm,
           Disarmed, StoreState, StoreReplyCb, KeepTimer, SleepStmt, TimerType
      <4>2. Holds(todo, {"storeCb"}) => Holds(todo', {"storeCb"})
        BY <1>0, <3>2, HoldsTail DEF h
      <4> QED
        BY <2>1, <4>1, <4>2
    <3> QED
      BY <3>1, <3>2
  <2>4. timer'.armed \/ Holds(todo', RescueOps)
    <3>1. CASE h.op = "arm"
      BY <1>0, <3>1 DEF Execute, Arm, TimerType
    <3>2. CASE h.op = "disarm"
      <4>1. Follows(todo, 1, "testCb")
        BY <1>0, <3>2 DEF Shape
      <4>2. Holds(todo, {"testCb"})
        BY <4>1 DEF Follows, Holds
      <4>3. Holds(todo', {"testCb"})
        BY <1>0, <3>2, <4>2, HoldsTail DEF h
      <4> QED
        BY <4>3 DEF Holds, RescueOps
    <3>3. CASE h.op \notin {"arm", "disarm"}
      <4>1. timer'.armed = timer.armed
        BY <1>0, <2>0, <3>3 DEF h, StoreOps, PlainOps, Execute, StoreDelay, StoreCb,
           StoreState, StoreReplyCb, KeepTimer, SleepStmt, TimerType
      <4>2. Holds(todo, RescueOps) => Holds(todo', RescueOps)
        BY <1>0, <2>0, <3>3, HoldsTail DEF h, StoreOps, PlainOps, RescueOps
      <4> QED
        BY <2>1, <4>1, <4>2
    <3> QED
      BY <3>1, <3>2, <3>3
  <2> QED
    BY <2>2, <2>3, <2>4
<1> QED
  BY <1>1, <1>5, <1>8 DEF WatchKept, Watched

\* A command that is issued has its reply function, and its timeout still ahead.
LEMMA WatchIssue ==
  ASSUME PreTyped, WatchKept, Statement, Head(todo).op = "issue"
  PROVE  WatchKept'
<1> DEFINE h == Head(todo)
           t == Tail(todo)
<1>0. /\ todo \in Seq(Statements) /\ todo # <<>> /\ t \in Seq(Statements)
      /\ h = todo[1] /\ 1 \in DOMAIN todo
      /\ Shape(todo) /\ Careful(todo, replyCb, pending)
  BY TailOf, StatementKinds DEF PreTyped, WatchKept
<1>1. /\ UNCHANGED <<timer, replyCb>>
      /\ \/ todo' = t
         \/ todo' = EntryStmts("SEND_FAILED") \o t
  BY StatementKinds DEF StoreOps, PlainOps, DecideOps
<1>2. replyCb # None
  <2>1. ~Precedes(todo, 1, "storeReplyCb")
    BY <1>0, ElementOf DEF Precedes
  <2> QED
    BY <1>0, <2>1 DEF Careful
<1>3. Holds(t, {"storeCb"}) /\ Holds(t, RescueOps)
  <2>1. Follows(todo, 1, "storeCb") /\ Follows(todo, 1, "arm")
    BY <1>0 DEF Shape
  <2>2. Holds(todo, {"storeCb"}) /\ Holds(todo, {"arm"})
    BY <2>1 DEF Follows, Holds
  <2>3. Holds(t, {"storeCb"}) /\ Holds(t, {"arm"})
    BY <1>0, <2>2, HoldsTail
  <2> QED
    BY <2>3 DEF Holds, RescueOps
<1>4. Shape(t) /\ Careful(t, replyCb, pending')
  BY <1>0, ShapeTail, CarefulTail
<1>5. /\ Shape(todo') /\ Careful(todo', replyCb, pending')
      /\ Holds(todo', {"storeCb"}) /\ Holds(todo', RescueOps)
  <2>1. EntryStmts("SEND_FAILED") \in Seq(PlainStatements)
    BY EntryStmtsPlain DEF States
  <2> QED
    BY <1>0, <1>1, <1>3, <1>4, <2>1, CarefulAfterPlain
<1> QED
  BY <1>1, <1>2, <1>5 DEF WatchKept, Watched

\* What chooses leaves the watch to what it chooses.
LEMMA WatchDecision ==
  ASSUME PreTyped, WatchKept, Statement, Head(todo).op \in DecideOps
  PROVE  WatchKept'
<1>0. /\ todo \in Seq(Statements) /\ todo # <<>> /\ Head(todo) \in Statements
      /\ Head(todo) = todo[1] /\ DOMAIN todo = 1 .. Len(todo) /\ Len(todo) \in Nat \ {0}
      /\ Shape(todo) /\ Watched(todo, timer, replyCb, pending)
  BY TailOf, StatementKinds DEF PreTyped, WatchKept
<1>1. UNCHANGED <<timer, replyCb, pending>>
  BY StatementKinds DEF NothingStored, StoreOps, PlainOps, DecideOps
<1>2. Shape(todo') /\ Careful(todo', replyCb', pending')
  BY DecisionFresh DEF Fresh
<1>3. Len(todo) = 1
  BY <1>0 DEF Shape
<1>4. ~Holds(todo, {"storeCb"})
  BY <1>0, <1>3 DEF Holds, DecideOps
<1>5. Head(todo).op \notin RescueOps => ~Holds(todo, RescueOps)
  BY <1>0, <1>3 DEF Holds
<1>6. ASSUME pending # None
      PROVE  /\ replyCb # None
             /\ timer.cb # None
             /\ timer.armed \/ Holds(todo', RescueOps)
  <2>1. replyCb # None /\ timer.cb # None
    BY <1>0, <1>4, <1>6 DEF Watched
  <2>2. CASE Head(todo).op \notin RescueOps
    BY <1>0, <1>5, <1>6, <2>1, <2>2 DEF Watched
  <2>3. CASE Head(todo).op = "testCb"
    <3>1. todo' = <<Stmt("callCb", timer.cb)>>
      BY <2>1, <2>3, DecisionNext
    <3>2. 1 \in DOMAIN todo' /\ todo'[1].op = "callCb"
      BY <3>1 DEF Stmt
    <3> QED
      BY <2>1, <3>2 DEF Holds, RescueOps
  <2>4. CASE Head(todo).op = "callCb"
    <3>1. PICK e \in Events : todo' = EventStmts(e)
      BY <2>4, DecisionNext
    <3>2. Holds(EventStmts(e), RescueOps)
      BY CommandStmts, GiveUpStmts DEF Events
    <3> QED
      BY <2>1, <3>1, <3>2
  <2> QED
    BY <2>2, <2>3, <2>4 DEF RescueOps, DecideOps
<1> QED
  BY <1>1, <1>2, <1>6 DEF WatchKept, Watched

\* A callback that strikes keeps the watch: a reply ends the command, a
\* notification does not take its event away.
LEMMA WatchInterrupt ==
  ASSUME PreTyped, WatchKept, Interrupt
  PROVE  WatchKept'
<1>1. /\ UNCHANGED <<todo, replyCb>>
      /\ \/ pending' = None
         \/ pending' = pending /\ NotifiedTimer(timer')
  BY InterruptDoes
<1>2. /\ NotifiedTimer(timer') /\ timer.armed => timer'.armed
      /\ NotifiedTimer(timer') /\ timer.cb # None => timer'.cb # None
  BY NotifiedTimely DEF PreTyped
<1>3. Careful(todo, replyCb, pending) => Careful(todo, replyCb, pending')
  BY <1>1 DEF Careful
<1> QED
  BY <1>1, <1>2, <1>3 DEF WatchKept, Watched

\* The watch is kept in every step: one step per action.
LEMMA WatchKeptStep == PreTyped /\ WatchKept /\ [PreNext]_preVars => WatchKept'
<1> SUFFICES ASSUME PreTyped, WatchKept, [PreNext]_preVars PROVE WatchKept'
  OBVIOUS
<1>1. CASE PreCalls \/ PreLoopTest \/ PreReturn
  <2>1. todo = <<>> /\ Fresh(todo') /\ UNCHANGED <<timer, replyCb, pending>>
    BY <1>1, CallDoes, CallFresh, LoopDoes
  <2>2. \A ops : ~Holds(todo, ops)
    BY <2>1 DEF Holds
  <2> QED
    BY <2>1, <2>2 DEF WatchKept, Watched, Fresh
<1>2. CASE PreIdle
  BY <1>2, IdleDoes DEF WatchKept, Watched
<1>3. CASE Statement
  <2>1. \/ Head(todo).op \in StoreOps /\ todo' = Tail(todo)
        \/ Head(todo).op = "issue"
        \/ Head(todo).op \in DecideOps
    BY <1>3, StatementKinds
  <2> QED
    BY <1>3, <2>1, WatchStore, WatchIssue, WatchDecision
<1>4. CASE Interrupt
  BY <1>4, WatchInterrupt
<1>5. CASE UNCHANGED preVars
  BY <1>5 DEF preVars, vars, fsmVars, libVars, WatchKept
<1> QED
  BY <1>1, <1>2, <1>3, <1>4, <1>5 DEF PreNext, PreThread

\* An outstanding command is watched, or will be before its function is over,
\* wherever the callbacks strike.
THEOREM WatchKeptAlways == PreSpec => []WatchKept
BY PreTypedAlways, WatchInit, WatchKeptStep, PTL DEF PreSpec

\* Between two functions of the library an outstanding command has its event
\* and its reply function, wherever callbacks struck in the last one.
THEOREM WatchedBetweenAlways == PreSpec => []WatchedBetweenFunctions
<1>1. WatchKept => WatchedBetweenFunctions
  BY DEF WatchKept, Watched, WatchedBetweenFunctions, Holds
<1> QED
  BY <1>1, WatchKeptAlways, PTL

-----------------------------------------------------------------------------
(* The event of one call in another.                                        *)

\* The event e may run inside the API call a.
Belongs(e, a) ==
  /\ e = "sendTo" => a = "send"
  /\ e = "getTime" => a = "getTime"
  /\ e = "setTxPower" => a = "setTxPower"

\* In the call a, with the thread at c: dn_fsm_run only runs in the loop, and
\* calls an event that may run there; an event that may not is not the last one
\* to be stored.
Suits(s, c, a) ==
  \A i \in DOMAIN s :
    /\ s[i].op \in RunOps => c = "test"
    /\ s[i].op = "callCb" => Belongs(s[i].arg, a)
    /\ c = "test" /\ s[i].op = "storeCb" =>
         Belongs(s[i].arg, a) \/ Follows(s, i, "storeCb")

\* The event found in a loop may run there, unless it will be replaced, or there
\* is nothing to wait for.
Unmixed ==
  /\ Suits(todo, pc, api)
  /\ pc = "test" =>
       \/ Belongs(timer.cb, api) \/ Holds(todo, {"storeCb"})
       \/ /\ api = "connect" /\ todo = <<>>
          /\ state \in {"CONNECTED", "DISCONNECTED"}

\* An event that belongs to no call may run in any.
LEMMA FreeBelongs == \A e, a : e \notin OwnedEvents => Belongs(e, a)
BY DEF Belongs, OwnedEvents

\* What follows the first statement is in the rest.
LEMMA FollowsFirst ==
  ASSUME NEW s \in Seq(Statements), s # <<>>, NEW op, Follows(s, 1, op)
  PROVE  Holds(Tail(s), {op})
<1>1. PICK j \in DOMAIN s : j > 1 /\ s[j].op = op
  BY DEF Follows
<1>2. j - 1 \in DOMAIN Tail(s) /\ Tail(s)[j - 1] = s[j]
  BY <1>1, TailOf
<1> QED
  BY <1>1, <1>2 DEF Holds

\* The rest of a function suits the call too.
LEMMA SuitsTail ==
  ASSUME NEW s \in Seq(Statements), s # <<>>, NEW c, NEW a, Suits(s, c, a)
  PROVE  Suits(Tail(s), c, a)
<1> SUFFICES ASSUME NEW i \in DOMAIN Tail(s)
             PROVE  /\ Tail(s)[i].op \in RunOps => c = "test"
                    /\ Tail(s)[i].op = "callCb" => Belongs(Tail(s)[i].arg, a)
                    /\ c = "test" /\ Tail(s)[i].op = "storeCb" =>
                         \/ Belongs(Tail(s)[i].arg, a)
                         \/ Follows(Tail(s), i, "storeCb")
  BY DEF Suits
<1>1. i + 1 \in DOMAIN s /\ Tail(s)[i] = s[i + 1]
  BY RestOf
<1> QED
  BY <1>1, FollowsTail DEF Suits

\* Plain statements whose callbacks may run in the call suit it, and so does a
\* function that suits it after them.
LEMMA SuitsAfterPlain ==
  ASSUME NEW q \in Seq(PlainStatements), NEW s \in Seq(Statements), NEW c, NEW a,
         Suits(s, c, a),
         \/ Holds(s, {"storeCb"})
         \/ \A i \in DOMAIN q : q[i].op = "storeCb" => Belongs(q[i].arg, a)
  PROVE  Suits(q \o s, c, a)
<1> SUFFICES ASSUME NEW i \in DOMAIN (q \o s)
             PROVE  /\ (q \o s)[i].op \in RunOps => c = "test"
                    /\ (q \o s)[i].op = "callCb" => Belongs((q \o s)[i].arg, a)
                    /\ c = "test" /\ (q \o s)[i].op = "storeCb" =>
                         \/ Belongs((q \o s)[i].arg, a)
                         \/ Follows(q \o s, i, "storeCb")
  BY DEF Suits
<1>1. CASE i \in DOMAIN q /\ (q \o s)[i] = q[i] /\ q[i] \in PlainStatements
  <2>1. (q \o s)[i].op \in PlainOps
    BY <1>1 DEF PlainStatements, PlainOps
  <2>2. ASSUME Holds(s, {"storeCb"})
        PROVE  Follows(q \o s, i, "storeCb")
    <3>1. PICK j \in DOMAIN s : s[j].op = "storeCb"
      BY <2>2 DEF Holds
    <3>2. j + Len(q) \in DOMAIN (q \o s) /\ (q \o s)[j + Len(q)] = s[j]
      BY AfterPlain
    <3>3. j \in Nat \ {0} /\ Len(q) \in Nat /\ i \in 1 .. Len(q)
      BY <1>1, ElementOf, AfterPlain, PlainSeq, ConcatOf
    <3>4. j + Len(q) > i
      BY <3>3
    <3> QED
      BY <3>1, <3>2, <3>4 DEF Follows
  <2> QED
    BY <1>1, <2>1, <2>2 DEF PlainOps, RunOps
<1>2. CASE i - Len(q) \in DOMAIN s /\ (q \o s)[i] = s[i - Len(q)]
  <2> DEFINE k == i - Len(q)
  <2>1. Follows(s, k, "storeCb") => Follows(q \o s, i, "storeCb")
    <3> SUFFICES ASSUME NEW j \in DOMAIN s, j > k, s[j].op = "storeCb"
                 PROVE  Follows(q \o s, i, "storeCb")
      BY DEF Follows
    <3>1. j + Len(q) \in DOMAIN (q \o s) /\ (q \o s)[j + Len(q)] = s[j]
      BY AfterPlain
    <3>2. j \in Nat /\ Len(q) \in Nat /\ i \in Nat
      BY AfterPlain, ElementOf
    <3>3. j + Len(q) > i
      BY <3>2
    <3> QED
      BY <3>1, <3>3 DEF Follows
  <2> QED
    BY <1>2, <2>1 DEF Suits
<1> QED
  BY <1>1, <1>2, AfterPlain

\* Entering a state suits every call, but that of SENDING.
LEMMA EntrySuits ==
  ASSUME NEW s \in States, NEW c, NEW a, s = "SENDING" => a = "send"
  PROVE  /\ Suits(EntryStmts(s), c, a)
         /\ \A i \in DOMAIN EntryStmts(s) :
              EntryStmts(s)[i].op = "storeCb" => Belongs(EntryStmts(s)[i].arg, a)
<1>1. \A i \in DOMAIN EntryStmts(s) :
        EntryStmts(s)[i].op = "storeCb" => Belongs(EntryStmts(s)[i].arg, a)
  BY EntryStmtsPlain DEF Belongs
<1>2. \A i \in DOMAIN EntryStmts(s) : EntryStmts(s)[i].op \in PlainOps
  BY EntryStmtsPlain, PlainIsCareful
<1> QED
  BY <1>1, <1>2 DEF Suits, PlainOps, RunOps

\* A state that schedules an event stores its callback.
LEMMA EntryStores ==
  ASSUME NEW s \in {"PRE_JOIN", "RESETTING", "REQ_SERVICE", "SENDING"}
  PROVE  Holds(EntryStmts(s), {"storeCb"})
<1>1. EntryTimer(s, CancelEvent) # CancelEvent
  BY DEF EntryTimer, ScheduleEvent, CancelEvent
<1>2. PICK d, e : EntryStmts(s) = ScheduleStmts(d, e) \o <<Stmt("storeState", s)>>
  BY <1>1 DEF EntryStmts
<1>3. EntryStmts(s)[2] = Stmt("storeCb", e) /\ 2 \in DOMAIN EntryStmts(s)
  BY <1>2 DEF ScheduleStmts
<1> QED
  BY <1>3 DEF Holds, Stmt

\* No call is under way before dn_qsl_init.
LEMMA UnmixedInit == PreInit => Unmixed
BY DEF PreInit, Init, Unmixed, Suits

\* The statements a call starts with store an event that may run in it, unless
\* the call has nothing to wait for.
LEMMA UnmixedCall ==
  ASSUME PreTyped, PreCalls
  PROVE  Unmixed'
<1>1. CASE pc' = "test" /\ CallStmts
  <2>1. CASE /\ api' = "connect" /\ todo' = <<>>
             /\ state \in {"CONNECTED", "DISCONNECTED"}
    BY <1>1, <2>1, CallDoes DEF Unmixed, Suits
  <2>2. CASE /\ api' = "connect"
             /\ \E s \in {"PRE_JOIN", "RESETTING", "REQ_SERVICE"} : todo' = EntryStmts(s)
    <3>1. PICK s \in {"PRE_JOIN", "RESETTING", "REQ_SERVICE"} : todo' = EntryStmts(s)
      BY <2>2
    <3>2. s \in States /\ s # "SENDING"
      BY DEF States, ConnectingStates
    <3> QED
      BY <3>1, <3>2, EntrySuits, EntryStores DEF Unmixed
  <2>3. CASE api' = "send" /\ todo' = EntryStmts("SENDING")
    BY <2>3, EntrySuits, EntryStores DEF Unmixed, States
  <2>4. CASE \E q \in {"getTime", "setTxPower"} :
               api' = q /\ todo' = EntryStmts(state) \o ScheduleStmts(CmdPeriod, q)
    <3>1. PICK q \in {"getTime", "setTxPower"} :
                 api' = q /\ todo' = EntryStmts(state) \o ScheduleStmts(CmdPeriod, q)
      BY <2>4
    <3> DEFINE last == ScheduleStmts(CmdPeriod, q)
    <3>2. q \in Events /\ CmdPeriod \in Nat
      BY TimingAssumption DEF Events, Commands
    <3>3. last \in Seq(PlainStatements) /\ Holds(last, {"storeCb"})
      <4>1. 2 \in DOMAIN last /\ last[2] = Stmt("storeCb", q)
        BY <3>2, ScheduleStmtsPlain
      <4>2. Stmt("storeCb", q).op = "storeCb"
        BY DEF Stmt
      <4> QED
        BY <3>2, <4>1, <4>2, ScheduleStmtsPlain DEF Holds
    <3>4. \A i \in DOMAIN last : last[i].op = "storeCb" => Belongs(last[i].arg, api')
      BY <3>1, <3>2, ScheduleStmtsStores DEF Belongs
    <3> HIDE DEF last
    <3>5. Suits(last, pc', api')
      BY <3>3, <3>4, PlainIsCareful DEF Suits, PlainOps, RunOps
    <3>6. EntryStmts(state) \in Seq(PlainStatements) /\ last \in Seq(Statements)
      BY <3>3, EntryStmtsPlain, PlainSeq DEF PreTyped, PreTypeOK
    <3>7. Suits(EntryStmts(state) \o last, pc', api')
      BY <3>3, <3>5, <3>6, SuitsAfterPlain
    <3>8. Holds(EntryStmts(state) \o last, {"storeCb"})
      BY <3>3, <3>6, PlainIsCareful, CarefulAfterPlain
    <3> QED
      BY <3>1, <3>7, <3>8 DEF Unmixed, last
  <2> QED
    BY <1>1, <2>1, <2>2, <2>3, <2>4 DEF CallStmts
<1>2. CASE pc' = "idle" /\ (todo' = <<>> \/ todo' = EntryStmts("DISCONNECTED"))
  <2>1. "DISCONNECTED" \in States /\ \A c, a : Suits(<<>>, c, a)
    BY DEF States, Suits
  <2>2. Suits(todo', pc', api')
    BY <1>2, <2>1, EntrySuits
  <2> QED
    BY <1>2, <2>2 DEF Unmixed
<1> QED
  BY <1>1, <1>2, CallDoes

\* The loop runs an event only while it waits, and then one that may run in it.
LEMMA UnmixedLoop ==
  ASSUME PreTyped, Unmixed, PreLoopTest \/ PreReturn
  PROVE  Unmixed'
<1>0. todo = <<>> /\ UNCHANGED <<state, timer>>
  BY LoopDoes
<1>1. CASE pc = "test" /\ pc' = "test" /\ api' = api /\ Waiting /\ todo' = RunStmts
  <2>1. ~Holds(todo, {"storeCb"})
    BY <1>0 DEF Holds
  <2>2. Belongs(timer.cb, api)
    BY <1>1, <2>1 DEF Unmixed, Waiting
  <2>3. DOMAIN todo' = {1} /\ todo'[1].op = "readTime"
    BY <1>1 DEF RunStmts, Stmt
  <2> QED
    BY <1>0, <1>1, <2>2, <2>3 DEF Unmixed, Suits
<1>2. CASE pc' = "return" /\ todo' \in {<<>>, CmdTimeoutStmts}
  <2>1. \A i \in DOMAIN todo' : todo'[i].op \notin RunOps \cup {"storeCb"}
    BY <1>2, GiveUpStmts
  <2> QED
    BY <1>2, <2>1 DEF Unmixed, Suits, RunOps
<1>3. CASE pc' = "idle" /\ todo' \in {<<>>, EntryStmts("CONNECTED")}
  <2>1. "CONNECTED" \in States /\ \A c, a : Suits(<<>>, c, a)
    BY DEF States, Suits
  <2>2. Suits(todo', pc', api')
    BY <1>3, <2>1, EntrySuits
  <2> QED
    BY <1>3, <2>2 DEF Unmixed
<1> QED
  BY <1>1, <1>2, <1>3, LoopDoes

\* A statement that stores keeps the event, drops it, or stores one that may run
\* or will be replaced.
LEMMA UnmixedStore ==
  ASSUME PreTyped, Unmixed, Statement, Head(todo).op \in StoreOps, todo' = Tail(todo)
  PROVE  Unmixed'
<1> DEFINE h == Head(todo)
<1>0. /\ todo \in Seq(Statements) /\ todo # <<>> /\ h \in Statements
      /\ Execute(h, Tail(todo)) /\ h = todo[1] /\ 1 \in DOMAIN todo
      /\ Suits(todo, pc, api) /\ UNCHANGED <<pc, api>> /\ timer \in TimerType
  BY StatementKinds, TailOf DEF Statement, PreTyped, Unmixed, Timely
<1> HIDE DEF h
<1>1. Suits(todo', pc', api')
  BY <1>0, SuitsTail
<1>2. ASSUME pc = "test"
      PROVE  Belongs(timer'.cb, api) \/ Holds(todo', {"storeCb"})
  <2>1. CASE h.op = "storeCb"
    <3>1. timer'.cb = h.arg
      BY <1>0, <2>1 DEF Execute, StoreCb, TimerType
    <3>2. Belongs(h.arg, api) \/ Follows(todo, 1, "storeCb")
      BY <1>0, <1>2, <2>1 DEF Suits
    <3> QED
      BY <1>0, <3>1, <3>2, FollowsFirst
  <2>2. CASE h.op # "storeCb"
    <3>1. timer'.cb = timer.cb \/ timer'.cb = None
      <4>1. CASE h.op = "cancelEvent"
        BY <1>0, <4>1 DEF Execute, StoreCancelled, CancelEvent
      <4>2. CASE h.op # "cancelEvent"
        BY <1>0, <2>2, <4>2 DEF h, StoreOps, PlainOps, Execute, StoreDelay, Arm,
           Disarm, Disarmed, StoreState, StoreReplyCb, DropTx, KeepTimer, SleepStmt,
           TimerType
      <4> QED
        BY <4>1, <4>2
    <3>2. Holds(todo, {"storeCb"}) => Holds(todo', {"storeCb"})
      BY <1>0, <2>2, HoldsTail DEF h
    <3>3. Belongs(None, api)
      BY FreeBelongs DEF OwnedEvents, None
    <3> QED
      BY <1>0, <1>2, <3>1, <3>2, <3>3 DEF Unmixed
  <2> QED
    BY <2>1, <2>2
<1> QED
  BY <1>0, <1>1, <1>2 DEF Unmixed

\* To issue a command touches no event, and what may follow it stores none.
LEMMA UnmixedIssue ==
  ASSUME PreTyped, Unmixed, Statement, Head(todo).op = "issue"
  PROVE  Unmixed'
<1> DEFINE t == Tail(todo)
<1>0. /\ todo \in Seq(Statements) /\ todo # <<>> /\ t \in Seq(Statements)
      /\ Suits(todo, pc, api) /\ UNCHANGED <<pc, api>>
  BY TailOf, StatementKinds DEF PreTyped, Unmixed
<1>1. /\ UNCHANGED timer
      /\ \/ todo' = t
         \/ todo' = EntryStmts("SEND_FAILED") \o t
  BY StatementKinds DEF StoreOps, PlainOps, DecideOps
<1>2. Suits(t, pc, api)
  BY <1>0, SuitsTail
<1>3. Holds(todo, {"storeCb"}) => Holds(t, {"storeCb"})
  BY <1>0, HoldsTail
<1>4. CASE todo' = t
  BY <1>0, <1>1, <1>2, <1>3, <1>4 DEF Unmixed
<1>5. CASE todo' = EntryStmts("SEND_FAILED") \o t
  <2>1. /\ EntryStmts("SEND_FAILED") \in Seq(PlainStatements)
        /\ \A i \in DOMAIN EntryStmts("SEND_FAILED") :
              EntryStmts("SEND_FAILED")[i].op = "storeCb" =>
                Belongs(EntryStmts("SEND_FAILED")[i].arg, api)
    BY EntryStmtsPlain, EntrySuits DEF States
  <2>2. Suits(todo', pc, api)
    BY <1>0, <1>2, <1>5, <2>1, SuitsAfterPlain
  <2>3. Holds(t, {"storeCb"}) => Holds(todo', {"storeCb"})
    <3> SUFFICES ASSUME NEW j \in DOMAIN t, t[j].op = "storeCb"
                 PROVE  Holds(todo', {"storeCb"})
      BY DEF Holds
    <3>1. /\ j + Len(EntryStmts("SEND_FAILED")) \in DOMAIN todo'
          /\ todo'[j + Len(EntryStmts("SEND_FAILED"))] = t[j]
      BY <1>0, <1>5, <2>1, AfterPlain
    <3> QED
      BY <3>1 DEF Holds
  <2> QED
    BY <1>0, <1>1, <1>3, <2>2, <2>3 DEF Unmixed
<1> QED
  BY <1>1, <1>4, <1>5

\* dn_fsm_run goes on to an event that may run in the call.
LEMMA UnmixedDecision ==
  ASSUME PreTyped, Unmixed, WatchKept, Statement, Head(todo).op \in DecideOps
  PROVE  Unmixed'
<1>0. /\ todo \in Seq(Statements) /\ todo # <<>>
      /\ Head(todo) = todo[1] /\ DOMAIN todo = 1 .. Len(todo) /\ Len(todo) \in Nat \ {0}
      /\ Shape(todo) /\ Suits(todo, pc, api) /\ UNCHANGED <<pc, api>>
  BY TailOf, StatementKinds DEF PreTyped, WatchKept, Unmixed
<1>1. UNCHANGED timer
  BY StatementKinds DEF NothingStored, StoreOps, PlainOps, DecideOps
<1>2. Len(todo) = 1
  BY <1>0 DEF Shape
<1>3. pc = "test" => Belongs(timer.cb, api)
  BY <1>0, <1>2 DEF Unmixed, Holds, DecideOps
<1>4. Head(todo).op \in RunOps => pc = "test"
  BY <1>0 DEF Suits
<1>5. Suits(todo', pc, api)
  <2>1. CASE todo' = <<>>
    BY <2>1 DEF Suits
  <2>2. CASE \E s \in States \ {"SENDING"} : todo' = EntryStmts(s)
    BY <2>2, EntrySuits
  <2>3. CASE /\ Head(todo).op \in RunOps
             /\ todo' \in {<<Stmt("testDue", None)>>, <<Stmt("sleep", None)>>}
    <3>1. DOMAIN todo' = {1} /\ todo'[1].op \in {"testDue", "sleep"}
      BY <2>3 DEF Stmt
    <3> QED
      BY <1>4, <2>3, <3>1 DEF Suits
  <2>4. CASE /\ Head(todo).op \in RunOps
             /\ todo' = <<Stmt("disarm", None), Stmt("testCb", None)>>
    BY <1>4, <2>4, DisarmStmts DEF Suits
  <2>5. CASE Head(todo).op \in RunOps /\ todo' = <<Stmt("callCb", timer.cb)>>
    <3>1. DOMAIN todo' = {1} /\ todo'[1].op = "callCb" /\ todo'[1].arg = timer.cb
      BY <2>5 DEF Stmt
    <3> QED
      BY <1>3, <1>4, <2>5, <3>1 DEF Suits
  <2>6. CASE \E e \in Events : todo' = EventStmts(e)
    <3>1. PICK e \in Events : todo' = EventStmts(e)
      BY <2>6
    <3>2. e \in Commands \/ e = "responseTimeout"
      BY DEF Events
    <3>3. \A i \in DOMAIN todo' :
            /\ todo'[i].op \notin RunOps
            /\ todo'[i].op = "storeCb" => todo'[i].arg = "responseTimeout"
      BY <3>1, <3>2, CommandStmts, GiveUpStmts
    <3>4. Belongs("responseTimeout", api)
      BY DEF Belongs
    <3> QED
      BY <3>3, <3>4 DEF Suits, RunOps
  <2> QED
    BY <2>1, <2>2, <2>3, <2>4, <2>5, <2>6, DecisionNext DEF RunOps
<1> QED
  BY <1>0, <1>1, <1>3, <1>5 DEF Unmixed

\* A callback that strikes schedules no event of an API call.
LEMMA UnmixedInterrupt ==
  ASSUME PreTyped, Unmixed, Interrupt
  PROVE  Unmixed'
<1>1. /\ UNCHANGED <<todo, pc, api>>
      /\ state \in {"CONNECTED", "DISCONNECTED"} =>
           \/ state' \in {"CONNECTED", "DISCONNECTED"}
           \/ timer'.cb \notin OwnedEvents
      /\ timer'.cb \notin OwnedEvents \/ NotifiedTimer(timer')
  BY InterruptDoes
<1>2. timer'.cb \notin OwnedEvents \/ timer'.cb = timer.cb
  BY <1>1, NotifiedTimely DEF PreTyped
<1> QED
  BY <1>1, <1>2, FreeBelongs DEF Unmixed

\* No step mixes the events of two calls: one step per action.
LEMMA UnmixedStep ==
  PreTyped /\ WatchKept /\ Unmixed /\ [PreNext]_preVars => Unmixed'
<1> SUFFICES ASSUME PreTyped, WatchKept, Unmixed, [PreNext]_preVars PROVE Unmixed'
  OBVIOUS
<1>1. CASE PreCalls
  BY <1>1, UnmixedCall
<1>2. CASE PreLoopTest \/ PreReturn
  BY <1>2, UnmixedLoop
<1>3. CASE PreIdle
  BY <1>3, IdleDoes DEF Unmixed
<1>4. CASE Statement
  <2>1. \/ Head(todo).op \in StoreOps /\ todo' = Tail(todo)
        \/ Head(todo).op = "issue"
        \/ Head(todo).op \in DecideOps
    BY <1>4, StatementKinds
  <2> QED
    BY <1>4, <2>1, UnmixedStore, UnmixedIssue, UnmixedDecision
<1>5. CASE Interrupt
  BY <1>5, UnmixedInterrupt
<1>6. CASE UNCHANGED preVars
  BY <1>6 DEF preVars, vars, fsmVars, callVars, Unmixed
<1> QED
  BY <1>1, <1>2, <1>3, <1>4, <1>5, <1>6 DEF PreNext, PreThread

\* The event found in a loop belongs to it, or will be replaced before the loop
\* looks at it.
THEOREM UnmixedAlways == PreSpec => []Unmixed
BY PreTypedAlways, WatchKeptAlways, UnmixedInit, UnmixedStep, PTL DEF PreSpec

-----------------------------------------------------------------------------
(* The timeout of one call's command in another.                            *)

\* The reply functions that are still to be stored are of the call a.
Answers(s, a) ==
  \A i \in DOMAIN s : s[i].op = "storeReplyCb" => Belongs(s[i].arg, a)

\* The timeout of a command that is issued, scheduled or called.
OfTimeout(st) ==
  \/ st.op = "issue"
  \/ st.op \in {"storeCb", "callCb"} /\ st.arg = "responseTimeout"

\* Before any of that the reply function of the command is stored.
Awaits(s) ==
  \A i \in DOMAIN s : OfTimeout(s[i]) => Precedes(s, i, "storeReplyCb")

\* A timeout found in a loop gives up a command of its call: the reply function
\* is of this call, or there is no timeout before one of this call is stored.
TimeoutUnmixed ==
  pc = "test" =>
    /\ Answers(todo, api)
    /\ \/ Belongs(replyCb, api)
       \/ /\ Awaits(todo)
          /\ timer.cb # "responseTimeout" \/ Holds(todo, {"storeCb"})
       \/ /\ api = "connect" /\ todo = <<>>
          /\ state \in {"CONNECTED", "DISCONNECTED"}

\* The rest of a function still has its reply functions to store, and stores them
\* first, unless it has just stored one.
LEMMA AwaitsTail ==
  ASSUME NEW s \in Seq(Statements), s # <<>>, NEW a
  PROVE  /\ Answers(s, a) => Answers(Tail(s), a)
         /\ Awaits(s) /\ Head(s).op # "storeReplyCb" => Awaits(Tail(s))
         /\ Awaits(s) => ~OfTimeout(Head(s))
<1>1. Answers(s, a) => Answers(Tail(s), a)
  BY RestOf DEF Answers
<1>2. Awaits(s) /\ Head(s).op # "storeReplyCb" => Awaits(Tail(s))
  BY RestOf, PrecedesTail DEF Awaits
<1>3. ~Precedes(s, 1, "storeReplyCb") /\ Head(s) = s[1] /\ 1 \in DOMAIN s
  BY TailOf DEF Precedes
<1> QED
  BY <1>1, <1>2, <1>3 DEF Awaits

\* Plain statements that schedule another event have no timeout.
LEMMA PlainAwaits ==
  ASSUME NEW s \in Seq(PlainStatements), NEW a,
         \A i \in DOMAIN s : s[i].op = "storeCb" => s[i].arg # "responseTimeout"
  PROVE  Answers(s, a) /\ Awaits(s)
BY PlainIsCareful DEF Answers, Awaits, OfTimeout, PlainOps

\* Entering a state schedules no timeout.
LEMMA EntryAwaits ==
  ASSUME NEW s \in States, NEW a
  PROVE  Answers(EntryStmts(s), a) /\ Awaits(EntryStmts(s))
BY EntryStmtsPlain, PlainAwaits

\* No call is under way before dn_qsl_init.
LEMMA TimeoutUnmixedInit == PreInit => TimeoutUnmixed
BY DEF PreInit, Init, TimeoutUnmixed

\* A call starts with an event of its own, unless it has nothing to wait for.
LEMMA TimeoutUnmixedCall ==
  ASSUME PreTyped, PreCalls
  PROVE  TimeoutUnmixed'
<1> SUFFICES ASSUME pc' = "test" PROVE TimeoutUnmixed'
  BY DEF TimeoutUnmixed
<1>0. CallStmts
  BY CallDoes
<1>1. CASE /\ api' = "connect" /\ todo' = <<>>
           /\ state \in {"CONNECTED", "DISCONNECTED"}
  BY <1>1, CallDoes DEF TimeoutUnmixed, Answers
<1>2. CASE \E s \in {"PRE_JOIN", "RESETTING", "REQ_SERVICE", "SENDING"} :
             todo' = EntryStmts(s)
  <2>1. PICK s \in {"PRE_JOIN", "RESETTING", "REQ_SERVICE", "SENDING"} :
               todo' = EntryStmts(s)
    BY <1>2
  <2>2. s \in States
    BY DEF States, ConnectingStates
  <2> QED
    BY <2>1, <2>2, EntryAwaits, EntryStores DEF TimeoutUnmixed
<1>3. CASE \E q \in {"getTime", "setTxPower"} :
             todo' = EntryStmts(state) \o ScheduleStmts(CmdPeriod, q)
  <2>1. PICK q \in {"getTime", "setTxPower"} :
               todo' = EntryStmts(state) \o ScheduleStmts(CmdPeriod, q)
    BY <1>3
  <2> DEFINE first == EntryStmts(state)
             last == ScheduleStmts(CmdPeriod, q)
  <2>2. q \in Events /\ CmdPeriod \in Nat
    BY TimingAssumption DEF Events, Commands
  <2>3. last \in Seq(PlainStatements) /\ Holds(last, {"storeCb"})
    <3>1. 2 \in DOMAIN last /\ last[2] = Stmt("storeCb", q)
      BY <2>2, ScheduleStmtsPlain
    <3>2. Stmt("storeCb", q).op = "storeCb"
      BY DEF Stmt
    <3> QED
      BY <2>2, <3>1, <3>2, ScheduleStmtsPlain DEF Holds
  <2>4. \A i \in DOMAIN last : last[i].op = "storeCb" => last[i].arg # "responseTimeout"
    BY <2>2, ScheduleStmtsStores
  <2>5. /\ first \in Seq(PlainStatements)
        /\ \A i \in DOMAIN first :
             first[i].op = "storeCb" => first[i].arg # "responseTimeout"
    BY EntryStmtsPlain DEF PreTyped, PreTypeOK
  <2> HIDE DEF first, last
  <2>6. /\ first \o last \in Seq(PlainStatements)
        /\ \A i \in DOMAIN (first \o last) :
             \/ i \in DOMAIN first /\ (first \o last)[i] = first[i]
             \/ \E k \in DOMAIN last : (first \o last)[i] = last[k]
    <3>1. last \in Seq(Statements)
      BY <2>3, PlainSeq
    <3> QED
      BY <2>3, <2>5, <3>1, ConcatOf, AfterPlain
  <2>7. Answers(first \o last, api') /\ Awaits(first \o last)
    BY <2>4, <2>5, <2>6, PlainAwaits
  <2>8. Holds(first \o last, {"storeCb"})
    BY <2>3, <2>5, PlainIsCareful, PlainSeq, CarefulAfterPlain
  <2> QED
    BY <2>1, <2>7, <2>8 DEF TimeoutUnmixed, first, last
<1> QED
  BY <1>0, <1>1, <1>2, <1>3 DEF CallStmts

\* The loop runs an event only while it waits; a command that is given up leaves
\* no timeout.
LEMMA TimeoutUnmixedLoop ==
  ASSUME PreTyped, TimeoutUnmixed, PreLoopTest \/ PreReturn
  PROVE  TimeoutUnmixed'
<1> SUFFICES ASSUME pc' = "test" PROVE TimeoutUnmixed'
  BY DEF TimeoutUnmixed
<1>1. /\ todo = <<>> /\ UNCHANGED <<state, timer, replyCb>>
      /\ pc = "test" /\ api' = api /\ Waiting /\ todo' = RunStmts
  BY LoopDoes
<1>2. Belongs(replyCb, api) \/ timer.cb # "responseTimeout"
  <2>1. ~Holds(todo, {"storeCb"})
    BY <1>1 DEF Holds
  <2>2. ~(api = "connect" /\ state \in {"CONNECTED", "DISCONNECTED"})
    BY <1>1 DEF Waiting
  <2> QED
    BY <1>1, <2>1, <2>2 DEF TimeoutUnmixed
<1>3. DOMAIN todo' = {1} /\ todo'[1].op = "readTime"
  BY <1>1 DEF RunStmts, Stmt
<1>4. Answers(todo', api') /\ Awaits(todo')
  BY <1>3 DEF Answers, Awaits, OfTimeout
<1> QED
  BY <1>1, <1>2, <1>4 DEF TimeoutUnmixed

\* A timeout is stored after the reply function of its command.
LEMMA TimeoutUnmixedStore ==
  ASSUME PreTyped, TimeoutUnmixed, Statement, Head(todo).op \in StoreOps,
         todo' = Tail(todo)
  PROVE  TimeoutUnmixed'
<1> SUFFICES ASSUME pc' = "test" PROVE TimeoutUnmixed'
  BY DEF TimeoutUnmixed
<1> DEFINE h == Head(todo)
<1>0. /\ todo \in Seq(Statements) /\ todo # <<>> /\ h \in Statements
      /\ Execute(h, Tail(todo)) /\ h = todo[1] /\ 1 \in DOMAIN todo
      /\ UNCHANGED <<pc, api>> /\ timer \in TimerType /\ pc = "test"
  BY StatementKinds, TailOf DEF Statement, PreTyped, Timely
<1>1. Answers(todo, api) /\ Answers(todo', api)
  BY <1>0, AwaitsTail DEF TimeoutUnmixed
<1>2. \/ Belongs(replyCb, api)
      \/ /\ Awaits(todo)
         /\ timer.cb # "responseTimeout" \/ Holds(todo, {"storeCb"})
  BY <1>0 DEF TimeoutUnmixed
<1>3. Awaits(todo) => ~OfTimeout(h) /\ (h.op # "storeReplyCb" => Awaits(todo'))
  BY <1>0, AwaitsTail
<1>4. h.op # "storeCb" /\ Holds(todo, {"storeCb"}) => Holds(todo', {"storeCb"})
  BY <1>0, HoldsTail
<1>5. Head(todo).op \in StoreOps
  OBVIOUS
<1>6. h.op \in StoreOps
  BY <1>5
<1> HIDE DEF h
<1>7. CASE h.op = "storeReplyCb"
  <2>1. replyCb' = h.arg
    BY <1>0, <1>7 DEF Execute, StoreReplyCb
  <2>2. Belongs(h.arg, api)
    BY <1>0, <1>1, <1>7 DEF Answers
  <2> QED
    BY <1>0, <1>1, <2>1, <2>2 DEF TimeoutUnmixed
<1>8. CASE h.op = "storeCb"
  <2>1. timer'.cb = h.arg /\ replyCb' = replyCb
    BY <1>0, <1>8 DEF Execute, StoreCb, TimerType
  <2> QED
    BY <1>0, <1>1, <1>2, <1>3, <1>8, <2>1 DEF TimeoutUnmixed, OfTimeout
<1>9. CASE h.op \notin {"storeReplyCb", "storeCb"}
  <2>1. replyCb' = replyCb
    BY <1>0, <1>6, <1>9 DEF StoreOps, PlainOps, Execute, StoreDelay, Arm, Disarm,
       StoreState, DropTx, KeepTimer, SleepStmt, StoreCancelled
  <2>2. timer'.cb = timer.cb \/ timer'.cb = None
    <3>1. CASE h.op = "cancelEvent"
      BY <1>0, <3>1 DEF Execute, StoreCancelled, CancelEvent
    <3>2. CASE h.op # "cancelEvent"
      BY <1>0, <1>6, <1>9, <3>2 DEF StoreOps, PlainOps, Execute, StoreDelay, Arm,
         Disarm, Disarmed, StoreState, DropTx, KeepTimer, SleepStmt, TimerType
    <3> QED
      BY <3>1, <3>2
  <2>3. None # "responseTimeout"
    BY DEF None
  <2> QED
    BY <1>0, <1>1, <1>2, <1>3, <1>4, <1>9, <2>1, <2>2, <2>3 DEF TimeoutUnmixed
<1> QED
  BY <1>7, <1>8, <1>9

\* A command is issued after its reply function is stored.
LEMMA TimeoutUnmixedIssue ==
  ASSUME PreTyped, TimeoutUnmixed, Statement, Head(todo).op = "issue"
  PROVE  TimeoutUnmixed'
<1> SUFFICES ASSUME pc' = "test" PROVE TimeoutUnmixed'
  BY DEF TimeoutUnmixed
<1> DEFINE t == Tail(todo)
           f == EntryStmts("SEND_FAILED")
<1>0. /\ todo \in Seq(Statements) /\ todo # <<>> /\ t \in Seq(Statements)
      /\ UNCHANGED <<pc, api, replyCb>> /\ pc = "test"
      /\ todo' = t \/ todo' = f \o t
  BY TailOf, StatementKinds DEF PreTyped, StoreOps, PlainOps, DecideOps
<1>1. ~Awaits(todo)
  BY <1>0, AwaitsTail DEF OfTimeout
<1>2. Belongs(replyCb, api) /\ Answers(t, api)
  BY <1>0, <1>1, AwaitsTail DEF TimeoutUnmixed
<1>3. Answers(f \o t, api)
  <2>1. f \in Seq(PlainStatements) /\ Answers(f, api)
    BY EntryStmtsPlain, EntryAwaits DEF States
  <2> HIDE DEF f, t
  <2>2. \A i \in DOMAIN (f \o t) :
          \/ i \in DOMAIN f /\ (f \o t)[i] = f[i]
          \/ i - Len(f) \in DOMAIN t /\ (f \o t)[i] = t[i - Len(f)]
    BY <1>0, <2>1, AfterPlain
  <2> QED
    BY <1>2, <2>1, <2>2 DEF Answers
<1> QED
  BY <1>0, <1>2, <1>3 DEF TimeoutUnmixed

\* dn_fsm_run goes on to an event whose command, or whose timeout's command, may
\* run in the call.
LEMMA TimeoutUnmixedDecision ==
  ASSUME PreTyped, Unmixed, WatchKept, TimeoutUnmixed, Statement,
         Head(todo).op \in DecideOps
  PROVE  TimeoutUnmixed'
<1> SUFFICES ASSUME pc' = "test" PROVE TimeoutUnmixed'
  BY DEF TimeoutUnmixed
<1>0. /\ todo \in Seq(Statements) /\ todo # <<>>
      /\ Head(todo) = todo[1] /\ DOMAIN todo = 1 .. Len(todo) /\ Len(todo) \in Nat \ {0}
      /\ Shape(todo) /\ Suits(todo, pc, api) /\ UNCHANGED <<pc, api>> /\ pc = "test"
  BY TailOf, StatementKinds DEF PreTyped, WatchKept, Unmixed
<1>1. UNCHANGED <<timer, replyCb>>
  BY StatementKinds DEF NothingStored, StoreOps, PlainOps, DecideOps
<1>2. Len(todo) = 1 /\ ~Holds(todo, {"storeCb"})
  BY <1>0 DEF Shape, Holds, DecideOps
<1>3. Belongs(timer.cb, api)
  BY <1>0, <1>2 DEF Unmixed
<1>4. Belongs(replyCb, api) \/ (Awaits(todo) /\ timer.cb # "responseTimeout")
  BY <1>0, <1>2 DEF TimeoutUnmixed
<1>5. \A s : (\A i \in DOMAIN s :
                s[i].op \in {"testDue", "sleep", "disarm", "testCb"})
             => Answers(s, api) /\ Awaits(s)
  BY DEF Answers, Awaits, OfTimeout
<1>6. CASE \E s \in States \ {"SENDING"} : todo' = EntryStmts(s)
  BY <1>0, <1>1, <1>4, <1>6, EntryAwaits DEF TimeoutUnmixed
<1>7. CASE todo' \in {<<>>, <<Stmt("testDue", None)>>, <<Stmt("sleep", None)>>,
                      <<Stmt("disarm", None), Stmt("testCb", None)>>}
  <2>1. \A i \in DOMAIN todo' :
           todo'[i].op \in {"testDue", "sleep", "disarm", "testCb"}
    BY <1>7, DisarmStmts DEF Stmt
  <2>2. Answers(todo', api) /\ Awaits(todo')
    BY <1>5, <2>1
  <2> QED
    BY <1>0, <1>1, <1>4, <2>2 DEF TimeoutUnmixed
<1>8. CASE todo' = <<Stmt("callCb", timer.cb)>>
  <2>1. DOMAIN todo' = {1} /\ todo'[1].op = "callCb" /\ todo'[1].arg = timer.cb
    BY <1>8 DEF Stmt
  <2>2. Answers(todo', api) /\ (timer.cb # "responseTimeout" => Awaits(todo'))
    BY <2>1 DEF Answers, Awaits, OfTimeout
  <2> QED
    BY <1>0, <1>1, <1>4, <2>2 DEF TimeoutUnmixed
<1>9. CASE \E e \in {Head(todo).arg, timer.cb} \cap Events :
              Head(todo).op = "callCb" /\ todo' = EventStmts(e)
  <2>1. PICK e \in {Head(todo).arg, timer.cb} \cap Events :
               Head(todo).op = "callCb" /\ todo' = EventStmts(e)
    BY <1>9
  <2>2. Belongs(e, api)
    BY <1>0, <1>3, <2>1 DEF Suits
  <2>3. CASE e = "responseTimeout"
    <3>1. \A i \in DOMAIN todo' :
            /\ todo'[i].op \notin {"storeCb", "issue", "callCb"}
            /\ todo'[i].op = "storeReplyCb" => todo'[i].arg = None
      BY <2>1, <2>3, GiveUpStmts DEF RunOps
    <3>2. Belongs(None, api)
      BY FreeBelongs DEF OwnedEvents, None
    <3>3. Answers(todo', api) /\ Awaits(todo')
      BY <3>1, <3>2 DEF Answers, Awaits, OfTimeout
    <3> QED
      BY <1>0, <1>1, <1>4, <3>3 DEF TimeoutUnmixed
  <2>4. CASE e \in Commands
    <3>1. Holds(todo', {"storeCb"}) /\ Answers(todo', api) /\ Awaits(todo')
      BY <2>1, <2>2, <2>4, CommandStmts DEF Answers, Awaits, OfTimeout, RunOps
    <3> QED
      BY <1>0, <3>1 DEF TimeoutUnmixed
  <2> QED
    BY <2>1, <2>3, <2>4 DEF Events
<1> QED
  BY <1>6, <1>7, <1>8, <1>9, DecisionNext

\* A callback that strikes schedules no timeout.
LEMMA TimeoutUnmixedInterrupt ==
  ASSUME PreTyped, TimeoutUnmixed, Interrupt
  PROVE  TimeoutUnmixed'
<1>1. /\ UNCHANGED <<todo, replyCb, pc, api>>
      /\ state \in {"CONNECTED", "DISCONNECTED"} =>
           \/ state' \in {"CONNECTED", "DISCONNECTED"}
           \/ timer'.cb \notin OwnedEvents
      /\ timer'.cb \notin OwnedEvents \/ NotifiedTimer(timer')
  BY InterruptDoes
<1>2. timer'.cb \notin OwnedEvents \/ timer'.cb = timer.cb
  BY <1>1, NotifiedTimely DEF PreTyped
<1>3. todo = <<>> => Awaits(todo)
  BY DEF Awaits
<1> QED
  BY <1>1, <1>2, <1>3 DEF TimeoutUnmixed, OwnedEvents

\* No step mixes the timeouts of two calls: one step per action.
LEMMA TimeoutUnmixedStep ==
  PreTyped /\ WatchKept /\ Unmixed /\ TimeoutUnmixed /\ [PreNext]_preVars
    => TimeoutUnmixed'
<1> SUFFICES ASSUME PreTyped, WatchKept, Unmixed, TimeoutUnmixed, [PreNext]_preVars
             PROVE  TimeoutUnmixed'
  OBVIOUS
<1>1. CASE PreCalls
  BY <1>1, TimeoutUnmixedCall
<1>2. CASE PreLoopTest \/ PreReturn
  BY <1>2, TimeoutUnmixedLoop
<1>3. CASE PreIdle
  <2>1. pc' = "idle"
    BY <1>3, IdleDoes DEF PreIdle
  <2> QED
    BY <2>1 DEF TimeoutUnmixed
<1>4. CASE Statement
  <2>1. \/ Head(todo).op \in StoreOps /\ todo' = Tail(todo)
        \/ Head(todo).op = "issue"
        \/ Head(todo).op \in DecideOps
    BY <1>4, StatementKinds
  <2> QED
    BY <1>4, <2>1, TimeoutUnmixedStore, TimeoutUnmixedIssue, TimeoutUnmixedDecision
<1>5. CASE Interrupt
  BY <1>5, TimeoutUnmixedInterrupt
<1>6. CASE UNCHANGED preVars
  BY <1>6 DEF preVars, vars, fsmVars, callVars, libVars, TimeoutUnmixed
<1> QED
  BY <1>1, <1>2, <1>3, <1>4, <1>5, <1>6 DEF PreNext, PreThread

\* A timeout that a loop finds scheduled is that of a command of its own call.
THEOREM TimeoutUnmixedAlways == PreSpec => []TimeoutUnmixed
BY PreTypedAlways, WatchKeptAlways, UnmixedAlways, TimeoutUnmixedInit,
   TimeoutUnmixedStep, PTL DEF PreSpec

\* Wherever callbacks strike, and whichever of the two reads of fsmCb the compiler
\* calls, dn_fsm_run neither issues nor gives up the packet of a send or a query
\* in another call.
THEOREM NoStaleEventIsCalled == PreSpec => []NoStaleEventCalled
<1>1. PreTyped /\ WatchKept /\ Unmixed /\ TimeoutUnmixed => NoStaleEventCalled
  <2> SUFFICES ASSUME PreTyped, WatchKept, Unmixed, TimeoutUnmixed,
                      todo # <<>>, Head(todo).op = "callCb"
               PROVE  Belongs(CalledCommand(Head(todo).arg), api)
    BY DEF NoStaleEventCalled, Belongs, ApiOf, QueryCommands
  <2>1. Head(todo) = todo[1] /\ 1 \in DOMAIN todo /\ DOMAIN todo = 1 .. Len(todo)
        /\ Len(todo) \in Nat \ {0} /\ todo \in Seq(Statements)
    BY TailOf DEF PreTyped
  <2>2. pc = "test" /\ Belongs(Head(todo).arg, api)
    BY <2>1 DEF Unmixed, Suits, RunOps
  <2>3. Len(todo) = 1 /\ ~Holds(todo, {"storeCb"})
    BY <2>1 DEF WatchKept, Shape, DecideOps, Holds
  <2>4. Belongs(timer.cb, api)
    BY <2>2, <2>3 DEF Unmixed
  <2>5. Called(Head(todo).arg) \in {Head(todo).arg, timer.cb}
    BY DEF Called
  <2>6. \/ Belongs(replyCb, api)
        \/ Awaits(todo) /\ timer.cb # "responseTimeout"
    BY <2>2, <2>3 DEF TimeoutUnmixed
  <2>7. Awaits(todo) => Head(todo).arg # "responseTimeout"
    BY <2>1, AwaitsTail DEF OfTimeout
  <2> QED
    BY <2>2, <2>4, <2>5, <2>6, <2>7 DEF CalledCommand
<1> QED
  BY <1>1, PreTypedAlways, WatchKeptAlways, UnmixedAlways, TimeoutUnmixedAlways, PTL

=============================================================================
