------------------------ MODULE SimplePublishProofs -------------------------
(***************************************************************************)
(* Proofs about the main loop of the SAM C21, for every clock, every       *)
(* combination of delays and limits that fits in it, every watchdog longer *)
(* than the data period, and every port and size of payload.               *)
(***************************************************************************)
EXTENDS SimplePublish, InboxProofs, TLAPS

-----------------------------------------------------------------------------
(* The clock and the payload limit.                                         *)

\* A sleep shorter than the range of the clock takes it once around at most.
LEMMA LaterIs ==
  ASSUME NEW t \in Times, NEW d \in Nat, d < ClockSize
  PROVE  Later(t, d) = IF t + d < ClockSize THEN t + d ELSE t + d - ClockSize
BY ClockAssumption DEF Later, Times

\* A difference of two clock values wraps around with them.
LEMMA ElapsedIs ==
  ASSUME NEW t \in Times, NEW u \in Times
  PROVE  Elapsed(t, u) = IF t >= u THEN t - u ELSE t - u + ClockSize
BY ClockAssumption DEF Elapsed, Times

\* The clock stays in its range.
LEMMA LaterTyped ==
  ASSUME NEW t \in Times, NEW d \in Nat
  PROVE  Later(t, d) \in Times
BY ClockAssumption DEF Later, Times

\* A difference of clock values is one the clock can show.
LEMMA ElapsedTyped ==
  ASSUME NEW t \in Times, NEW u \in Times
  PROVE  Elapsed(t, u) \in Times
BY ElapsedIs, ClockAssumption DEF Times

\* One sleep is one more on every difference that is not about to wrap itself,
\* whether or not the clock wraps.
LEMMA OneSleep ==
  ASSUME NEW t \in Times, NEW u \in Times, Elapsed(t, u) + 1 < ClockSize
  PROVE  Elapsed(Later(t, 1), u) = Elapsed(t, u) + 1
<1>1. Elapsed(t, u) = IF t >= u THEN t - u ELSE t - u + ClockSize
  BY ElapsedIs
<1>2. 1 < ClockSize /\ ClockSize \in Nat
  BY <1>1, ClockAssumption DEF Times
<1>3. Later(t, 1) \in Times
  BY LaterTyped
<1>4. Later(t, 1) = IF t + 1 < ClockSize THEN t + 1 ELSE t + 1 - ClockSize
  BY <1>2, LaterIs
<1>5. Elapsed(Later(t, 1), u) = IF Later(t, 1) >= u THEN Later(t, 1) - u
                                ELSE Later(t, 1) - u + ClockSize
  BY <1>3, ElapsedIs
<1> QED
  BY <1>1, <1>2, <1>3, <1>4, <1>5 DEF Times

\* Nothing has passed since a time that has just been stored.
LEMMA NoTimePassed ==
  ASSUME NEW t \in Times
  PROVE  Elapsed(t, t) = 0
BY ElapsedIs DEF Times

\* A port is a number.
LEMMA PortZero == ASSUME NEW p \in Ports PROVE p > 0 \/ p = 0
<1>1. p \in Int /\ 0 <= p
  BY DEF Ports
<1> QED
  BY <1>1

\* What dn_qsl_send compares with is at most the limit of the packet it builds,
\* although it looks at the port before the default replaces it.
LEMMA LimitIsSafe ==
  ASSUME NEW dest \in Ports, NEW src \in Ports
  PROVE  /\ GetPayloadLimit(dest, src) \in Nat
         /\ GetPayloadLimit(dest, src) <= LimitOf(DestPortOf(dest), src)
         /\ GetPayloadLimit(dest, src) <= PayloadBufSize
<1>1. LimitOf(dest, src) \in Nat /\ LimitOf(dest, src) <= 90
  BY DEF LimitOf, SizeLimit
<1>2. CASE dest > 0
  <2>1. DestPortOf(dest) = dest
    BY <1>2 DEF DestPortOf
  <2>2. GetPayloadLimit(dest, src) = LimitOf(dest, src) /\ PayloadBufSize = 90
    BY DEF GetPayloadLimit, PayloadBufSize
  <2> QED
    BY <1>1, <2>1, <2>2
<1>3. CASE dest = 0
  <2>1. dest \notin WellKnownPorts
    BY <1>3 DEF WellKnownPorts, Word
  <2>2. DestPortOf(dest) \in WellKnownPorts
    BY <1>3 DEF DestPortOf, DefaultPort, WellKnownPorts, Word
  <2>3. LimitOf(dest, src) <= LimitOf(DestPortOf(dest), src)
    BY <2>1, <2>2 DEF LimitOf, SizeLimit
  <2> QED
    BY <1>1, <2>3 DEF GetPayloadLimit, PayloadBufSize
<1>4. dest > 0 \/ dest = 0
  BY PortZero
<1> QED
  BY <1>2, <1>3, <1>4

-----------------------------------------------------------------------------
(* Types.                                                                   *)

\* Nothing is scheduled at first.
LEMMA UnarmedTyped == 0 \in Times /\ Unarmed \in EventType
BY ClockAssumption DEF Times, Unarmed, EventType

\* dn_fsm_cancelEvent keeps the types.
LEMMA CancelTyped ==
  ASSUME event \in EventType, Cancel
  PROVE  event' \in EventType /\ eventAge' \in Nat
BY DEF Cancel, EventType

\* dn_fsm_scheduleEvent stores a time of the clock.
LEMMA ScheduleTyped ==
  ASSUME NEW d \in Delays \cup {0}, now \in Times, Schedule(d)
  PROVE  event' \in EventType /\ eventAge' \in Nat
BY DEF Schedule, EventType

\* Delays and time limits are numbers that the clock can measure.
LEMMA DelayTyped ==
  ASSUME event \in EventType
  PROVE  event.delay \in Nat /\ event.delay + 1 < ClockSize
<1>1. event.delay \in Delays \cup {0}
  BY DEF EventType
<1>2. ClockSize \in Nat /\ Delays \subseteq Nat /\ SendTimeout \in Nat
  BY ClockAssumption, LoopAssumption
<1>3. SendTimeout + 1 < ClockSize /\ \A d \in Delays : d + 1 < ClockSize
  BY TimesFitClock
<1>4. CASE event.delay = 0
  BY <1>2, <1>3, <1>4
<1>5. CASE event.delay \in Delays
  BY <1>2, <1>3, <1>5
<1> QED
  BY <1>1, <1>4, <1>5

\* The default port is a port, and so is 0, which asks for it.
LEMMA DefaultTyped == DefaultPort \in Ports /\ 0 \in Ports
BY DEF DefaultPort, Ports, Word

\* The clock can measure the time limit of any call.
LEMMA LimitTyped == CmdLimit \in Nat /\ CmdLimit + 1 < ClockSize
BY LoopAssumption, TimesFitClock DEF CmdLimit

\* A sleep keeps the types of everything that has to do with time.
LEMMA SleepTyped ==
  ASSUME LoopTypeOK, NEW d \in Nat, NEW f \in Nat, Sleep(d, f)
  PROVE  /\ now' \in Times /\ cmdStart' \in Times /\ event' \in EventType
         /\ cmdAge' \in Nat /\ eventAge' \in Nat /\ food' \in Nat
<1>1. now' \in Times /\ cmdStart' \in Times /\ event' \in EventType
  BY LaterTyped DEF Sleep, LoopTypeOK
<1>2. event.delay \in Nat /\ CmdLimit \in Nat
  BY DelayTyped, LimitTyped DEF LoopTypeOK
<1>3. cmdAge \in Nat /\ eventAge \in Nat
  BY DEF LoopTypeOK
<1>4. cmdAge' \in Nat /\ eventAge' \in Nat /\ food' \in Nat
  BY <1>2, <1>3 DEF Sleep, AtMost
<1> QED
  BY <1>1, <1>4

\* A connect keeps the types.
LEMMA ConnectTyped ==
  ASSUME LoopTypeOK, NEW port \in SrcPortArgs, BeginConnect(port)
  PROVE  LoopTypeOK'
<1>1. srcPort \in Ports /\ port \in Ports /\ DefaultPort \in Ports
  BY LoopAssumption, DefaultTyped DEF LoopTypeOK
<1>2. srcPort' \in Ports
  BY <1>1 DEF BeginConnect
<1>3. CASE UNCHANGED <<srcPort, event, eventAge>>
  BY <1>2, <1>3 DEF BeginConnect, StartLoop, NotTesting, LoopTypeOK
<1>4. ASSUME NEW d \in Delays, Schedule(d) PROVE LoopTypeOK'
  <2>1. event' \in EventType /\ eventAge' \in Nat
    BY <1>4, ScheduleTyped DEF LoopTypeOK
  <2> QED
    BY <1>2, <2>1 DEF BeginConnect, StartLoop, NotTesting, LoopTypeOK
<1> QED
  BY <1>3, <1>4 DEF BeginConnect

\* A send keeps the types.
LEMMA SendTyped ==
  ASSUME LoopTypeOK, NEW size \in PayloadSizes, NEW dest \in DestPortArgs,
         BeginSend(size, dest)
  PROVE  LoopTypeOK'
<1>1. srcPort \in Ports /\ dest \in Ports /\ DefaultPort \in Ports
  BY LoopAssumption, DefaultTyped DEF LoopTypeOK
<1>2. packet' \subseteq PacketType
  BY <1>1 DEF BeginSend, DestPortOf, PacketType
<1>3. event' \in EventType /\ eventAge' \in Nat
  BY ScheduleTyped DEF BeginSend, LoopTypeOK
<1> QED
  BY <1>2, <1>3 DEF BeginSend, StartLoop, NotTesting, LoopTypeOK

\* The type invariant is inductive.
LEMMA LoopTypeStep == LoopTypeOK /\ [LoopNext]_appVars => LoopTypeOK'
<1> SUFFICES ASSUME LoopTypeOK, [LoopNext]_appVars PROVE LoopTypeOK'
  OBVIOUS
<1>1. CASE Top
  BY <1>1 DEF Top, Feed, NoTime, NotTesting, LoopTypeOK
<1>2. ASSUME NEW port \in SrcPortArgs, BeginConnect(port)
      PROVE  LoopTypeOK'
  BY <1>2, ConnectTyped
<1>3. ASSUME NEW size \in PayloadSizes, NEW dest \in DestPortArgs,
             BeginSend(size, dest)
      PROVE  LoopTypeOK'
  BY <1>3, SendTyped
<1>4. ASSUME NEW size \in PayloadSizes, NEW dest \in DestPortArgs,
             SendRefused(size, dest)
      PROVE  LoopTypeOK'
  BY <1>4 DEF SendRefused, timeVars, LoopTypeOK
<1>5. CASE LoopGoesOn
  BY <1>5 DEF LoopGoesOn, Feed, NoTime, NotTesting, LoopTypeOK
<1>6. CASE LoopEnds
  <2>1. pc' \in {"drain", "top"} /\ cmdStart' \in Times /\ cmdAge' \in Nat
    BY <1>6, UnarmedTyped DEF LoopEnds, Leave
  <2> QED
    BY <1>6, <2>1 DEF LoopEnds, Leave, NotTesting, LoopTypeOK
<1>7. CASE LoopTimesOut
  <2>1. pc' \in {"drain", "top"} /\ cmdStart' \in Times /\ cmdAge' \in Nat
    BY <1>7, UnarmedTyped DEF LoopTimesOut, Leave
  <2>2. event' \in EventType /\ eventAge' \in Nat /\ connected' \in BOOLEAN
    BY <1>7, CancelTyped DEF LoopTimesOut, LoopTypeOK
  <2> QED
    BY <1>7, <2>1, <2>2 DEF LoopTimesOut, Leave, NotTesting, LoopTypeOK
<1>8. CASE RunTakesTime
  <2>1. event.scheduled \in Times /\ now \in Times
    BY DEF LoopTypeOK, EventType
  <2>2. passed' \in Times
    BY <1>8, <2>1, ElapsedTyped DEF RunTakesTime
  <2>3. rescheduled' \in BOOLEAN
    BY <1>8 DEF RunTakesTime
  <2> QED
    BY <1>8, <2>2, <2>3 DEF RunTakesTime, NoTime, LoopTypeOK
<1>9. CASE RunEvent
  <2>1. event' \in EventType /\ eventAge' \in Nat
    BY <1>9, CancelTyped, ScheduleTyped DEF RunEvent, LoopTypeOK
  <2>2. waiting' \in BOOLEAN /\ passed' \in Times /\ rescheduled' \in BOOLEAN
    BY <1>9, UnarmedTyped DEF RunEvent, Tested, LoopTypeOK
  <2> QED
    BY <1>9, <2>1, <2>2 DEF RunEvent, Tested, NoTime, LoopTypeOK
<1>10. CASE RunSleep
  <2>1. Sleep(1, food) /\ food \in Nat
    BY <1>10 DEF RunSleep, LoopTypeOK
  <2>2. passed' \in Times /\ rescheduled' \in BOOLEAN
    BY <1>10, UnarmedTyped DEF RunSleep, Tested
  <2> QED
    BY <1>10, <2>1, <2>2, SleepTyped DEF RunSleep, Tested, LoopTypeOK
<1>11. CASE Drain
  <2>1. pc' \in {"rest", "drain"} /\ food' \in Nat
    BY <1>11 DEF Drain, Feed, LoopTypeOK
  <2> QED
    BY <1>11, <2>1 DEF Drain, NoTime, NotTesting, LoopTypeOK
<1>12. CASE Rest
  <2>1. DataPeriod \in Nat /\ Sleep(DataPeriod, 0)
    BY <1>12, LoopAssumption DEF Rest
  <2> QED
    BY <1>12, <2>1, SleepTyped DEF Rest, NotTesting, LoopTypeOK
<1>13. CASE MessageArrives
  BY <1>13 DEF MessageArrives, loopVars, timeVars, LoopTypeOK
<1>14. CASE Callback
  <2>1. event' \in EventType /\ eventAge' \in Nat
    BY <1>14, CancelTyped, ScheduleTyped DEF Callback, LoopTypeOK
  <2>2. waiting' \in BOOLEAN /\ rescheduled' \in BOOLEAN
    BY <1>14 DEF Callback, LoopTypeOK
  <2> QED
    BY <1>14, <2>1, <2>2 DEF Callback, NoTime, LoopTypeOK
<1>15. CASE UNCHANGED appVars
  BY <1>15 DEF appVars, loopVars, timeVars, LoopTypeOK
<1> QED
  BY <1>1, <1>2, <1>3, <1>4, <1>5, <1>6, <1>7, <1>8, <1>9, <1>10, <1>11,
     <1>12, <1>13, <1>14, <1>15 DEF LoopNext, Main, Call

\* The variables of the main loop keep their types: in particular every time
\* that is stored is one the 32-bit clock can show.
THEOREM LoopTypeCorrect == LoopSpec => []LoopTypeOK
<1>1. LoopInit => LoopTypeOK
  <2>1. SUFFICES ASSUME LoopInit PROVE LoopTypeOK
    OBVIOUS
  <2>2. srcPort \in Ports /\ packet \subseteq PacketType
    BY <2>1 DEF LoopInit, Ports, Word
  <2> QED
    BY <2>1, <2>2, UnarmedTyped DEF LoopInit, LoopTypeOK
<1> QED
  BY <1>1, LoopTypeStep, PTL DEF LoopSpec

-----------------------------------------------------------------------------
(* The payload.                                                             *)

\* What is accepted fits: the packet has the source port the limit was taken
\* for, and a destination port that allows at least as much.
LEMMA PacketStep == LoopTypeOK /\ PacketFits /\ [LoopNext]_appVars => PacketFits'
<1> SUFFICES ASSUME LoopTypeOK, PacketFits, [LoopNext]_appVars PROVE PacketFits'
  OBVIOUS
<1>1. CASE UNCHANGED packet
  BY <1>1 DEF PacketFits
<1>2. CASE packet' = {}
  BY <1>2 DEF PacketFits
<1>3. ASSUME NEW size \in PayloadSizes, NEW dest \in DestPortArgs,
             BeginSend(size, dest)
      PROVE  PacketFits'
  <2>1. dest \in Ports /\ srcPort \in Ports /\ size \in Nat
    BY LoopAssumption DEF LoopTypeOK
  <2>2. size <= GetPayloadLimit(dest, srcPort)
    BY <1>3 DEF BeginSend, Accepted
  <2>3. size <= PayloadBufSize /\ size <= LimitOf(DestPortOf(dest), srcPort)
    <3>1. /\ GetPayloadLimit(dest, srcPort) \in Nat
          /\ GetPayloadLimit(dest, srcPort) <= LimitOf(DestPortOf(dest), srcPort)
          /\ GetPayloadLimit(dest, srcPort) <= PayloadBufSize
      BY <2>1, LimitIsSafe
    <3>2. PayloadBufSize \in Nat /\ LimitOf(DestPortOf(dest), srcPort) \in Nat
      BY DEF PayloadBufSize, LimitOf, SizeLimit
    <3> QED
      BY <2>1, <2>2, <3>1, <3>2
  <2>4. packet' = {[size |-> size, dest |-> DestPortOf(dest), src |-> srcPort]}
    BY <1>3 DEF BeginSend
  <2> QED
    BY <2>3, <2>4 DEF PacketFits
<1> QED
  BY <1>1, <1>2, <1>3
  DEF LoopNext, Main, Call, Top, BeginConnect, SendRefused, LoopGoesOn,
      LoopEnds, LoopTimesOut, Leave, RunTakesTime, RunEvent, RunSleep, Drain, Rest,
      MessageArrives, loopVars, Callback, appVars

\* Whatever ports and sizes the application passes, the packet handed to the
\* mote fits the buffer and the limit of the ports it is sent with.
THEOREM PacketsFit == LoopSpec => []PacketFits
<1>1. LoopInit => PacketFits
  BY DEF LoopInit, PacketFits
<1> QED
  BY <1>1, PacketStep, LoopTypeCorrect, PTL DEF LoopSpec

-----------------------------------------------------------------------------
(* The watchdog.                                                            *)

\* How hungry the watchdog can be at each place of the program.
FoodByPlace ==
  /\ pc \in {"connect", "send", "run", "due"} => food = 0
  /\ pc \in {"test", "drain", "rest"} => food <= 1
  /\ pc = "top" => food <= 1 \/ food <= DataPeriod

\* Where the program is tells how long ago it fed the watchdog, at most.
LEMMA FoodStep == LoopTypeOK /\ FoodByPlace /\ [LoopNext]_appVars => FoodByPlace'
<1> SUFFICES ASSUME LoopTypeOK, FoodByPlace, [LoopNext]_appVars
             PROVE  FoodByPlace'
  OBVIOUS
<1>a. food \in Nat /\ DataPeriod \in Nat
  BY LoopAssumption DEF LoopTypeOK
<1> USE DEF FoodByPlace
<1>1. CASE Top
  BY <1>1 DEF Top, Feed
<1>2. ASSUME NEW port \in SrcPortArgs, BeginConnect(port)
      PROVE  FoodByPlace'
  BY <1>2 DEF BeginConnect, StartLoop
<1>3. ASSUME NEW size \in PayloadSizes, NEW dest \in DestPortArgs,
             BeginSend(size, dest) \/ SendRefused(size, dest)
      PROVE  FoodByPlace'
  BY <1>3 DEF BeginSend, StartLoop, SendRefused, timeVars
<1>4. CASE LoopGoesOn
  BY <1>4 DEF LoopGoesOn, Feed
<1>5. CASE LoopEnds \/ LoopTimesOut
  BY <1>5 DEF LoopEnds, LoopTimesOut, Leave
<1>6. CASE RunTakesTime \/ RunEvent
  <2>1. food' = food /\ pc \in {"run", "due"} /\ pc' \in {"test", "due"}
    BY <1>6 DEF RunTakesTime, RunEvent, Tested
  <2> QED
    BY <2>1
<1>7. CASE RunSleep
  BY <1>7, <1>a DEF RunSleep, Tested, Sleep
<1>8. CASE Drain
  BY <1>8, <1>a DEF Drain, Feed
<1>9. CASE Rest
  BY <1>9, <1>a DEF Rest, Sleep
<1>10. CASE UNCHANGED <<pc, food>>
  BY <1>10
<1> QED
  BY <1>1, <1>2, <1>3, <1>4, <1>5, <1>6, <1>7, <1>8, <1>9, <1>10
  DEF LoopNext, Main, Call, MessageArrives, loopVars, timeVars, Callback,
      appVars

\* Every stretch of the main loop is shorter than the warning of the watchdog
\* if the data period is.
THEOREM WatchdogIsFed == LoopSpec => []WatchdogFed
<1>1. LoopInit => FoodByPlace
  BY DEF LoopInit, FoodByPlace
<1>2. LoopTypeOK /\ FoodByPlace => WatchdogFed
  BY FoodLasts, LoopAssumption DEF LoopTypeOK, FoodByPlace, WatchdogFed
<1> QED
  BY <1>1, <1>2, FoodStep, LoopTypeCorrect, PTL DEF LoopSpec

-----------------------------------------------------------------------------
(* Time.                                                                    *)

\* The difference with the time an event was scheduled is its true age.
EventTold ==
  event.armed => /\ Elapsed(now, event.scheduled) = eventAge
                 /\ eventAge <= event.delay + 1

\* The difference with the start of a call is its true age.
CallTold == Elapsed(now, cmdStart) = cmdAge /\ cmdAge <= CmdLimit + 1

\* The elapsed time that is about to be tested is that of the event, unless an
\* interrupt has scheduled it since.
PassedTold ==
  IF rescheduled THEN eventAge = 0 ELSE passed = Elapsed(now, event.scheduled)

\* Inside a call the clock tells the truth, as long as its loop goes on.
TimeTold ==
  /\ pc \in {"test", "run", "due"} <=> api # None
  /\ pc \in {"test", "run", "due"} => CallTold
  /\ pc \in {"run", "due"} => cmdAge <= CmdLimit
  /\ api = None => cmdAge = 0
  /\ pc \in {"run", "due"} \/ (pc = "test" /\ waiting) => EventTold
  /\ pc = "due" => PassedTold

\* An event that has just been scheduled, or cancelled, has the age it shows.
LEMMA ScheduleTold ==
  ASSUME LoopTypeOK, now' = now,
         Cancel \/ \E d \in Delays \cup {0} : Schedule(d)
  PROVE  EventTold'
<1>1. CASE Cancel
  BY <1>1 DEF Cancel, EventTold, LoopTypeOK, EventType
<1>2. ASSUME NEW d \in Delays \cup {0}, Schedule(d) PROVE EventTold'
  <2>1. d \in Nat
    BY LoopAssumption
  <2>2. event'.scheduled = now' /\ event'.delay = d /\ eventAge' = 0
    BY <1>2 DEF Schedule
  <2>3. Elapsed(now, now) = 0
    BY NoTimePassed DEF LoopTypeOK
  <2> QED
    BY <2>1, <2>2, <2>3 DEF EventTold
<1> QED
  BY <1>1, <1>2

\* An event is due in the test when it is, unless it has just been scheduled.
LEMMA DueTold ==
  ASSUME LoopTypeOK, TimeTold, pc = "due"
  PROVE  /\ event.armed /\ eventAge > event.delay => Due
         /\ Due => event.armed /\ (eventAge > event.delay \/ rescheduled)
<1>1. EventTold /\ PassedTold
  BY DEF TimeTold
<1>2. event.delay \in Nat /\ eventAge \in Nat
  BY DelayTyped DEF LoopTypeOK
<1>3. CASE rescheduled
  BY <1>1, <1>2, <1>3 DEF PassedTold, Due
<1>4. CASE ~rescheduled
  BY <1>1, <1>2, <1>4 DEF PassedTold, EventTold, Due
<1> QED
  BY <1>3, <1>4

\* One sleep of the loop ages the call and the event by one.
LEMMA SleepTold ==
  ASSUME LoopTypeOK, TimeTold, pc = "due", ~Due, Sleep(1, food), UNCHANGED api
  PROVE  CallTold' /\ EventTold' /\ now' # now
<1>1. /\ CmdLimit \in Nat /\ CmdLimit + 1 < ClockSize /\ CmdLimit' = CmdLimit
      /\ ClockSize \in Nat
  BY LimitTyped, ClockAssumption DEF CmdLimit
<1>2. /\ Elapsed(now, cmdStart) = cmdAge /\ cmdAge <= CmdLimit /\ cmdAge \in Nat
      /\ api # None
  BY DEF TimeTold, CallTold, LoopTypeOK
<1>3. /\ now' = Later(now, 1) /\ cmdStart' = cmdStart /\ event' = event
      /\ cmdAge' = AtMost(cmdAge + 1, CmdLimit + 2)
  BY <1>2 DEF Sleep
<1>4. CallTold'
  <2>1. Elapsed(now', cmdStart') = cmdAge + 1
    BY <1>1, <1>2, <1>3, OneSleep DEF LoopTypeOK
  <2>2. cmdAge' = cmdAge + 1
    BY <1>1, <1>2, <1>3 DEF AtMost
  <2> QED
    BY <1>1, <1>2, <2>1, <2>2 DEF CallTold
<1>5. EventTold'
  <2>1. SUFFICES ASSUME event.armed PROVE EventTold'
    BY <1>3 DEF EventTold
  <2>2. event.scheduled \in Times /\ event.delay \in Nat
        /\ event.delay + 1 < ClockSize
    BY DelayTyped DEF LoopTypeOK, EventType
  <2>3. Elapsed(now, event.scheduled) = eventAge /\ eventAge \in Nat
    BY <2>1 DEF TimeTold, EventTold, LoopTypeOK
  <2>4. eventAge <= event.delay
    BY <2>1, <2>2, <2>3, DueTold
  <2>5. eventAge' = AtMost(eventAge + 1, event.delay + 2)
    BY <2>1 DEF Sleep
  <2>6. eventAge' = eventAge + 1
    BY <2>2, <2>3, <2>4, <2>5 DEF AtMost
  <2>7. Elapsed(now', event.scheduled) = eventAge + 1
    BY <1>1, <1>3, <2>2, <2>3, <2>4, OneSleep DEF LoopTypeOK
  <2> QED
    BY <1>3, <2>2, <2>3, <2>4, <2>6, <2>7 DEF EventTold
<1>6. now' # now
  <2>1. Elapsed(now', cmdStart) # Elapsed(now, cmdStart)
    BY <1>2, <1>3, <1>1, OneSleep DEF LoopTypeOK
  <2> QED
    BY <2>1
<1> QED
  BY <1>4, <1>5, <1>6

\* The clock goes on telling the truth whatever step is taken.
LEMMA TimeStep == LoopTypeOK /\ TimeTold /\ [LoopNext]_appVars => TimeTold'
<1> SUFFICES ASSUME LoopTypeOK, TimeTold, [LoopNext]_appVars PROVE TimeTold'
  OBVIOUS
<1>1. CASE Top
  BY <1>1 DEF Top, NoTime, TimeTold
<1>2. ASSUME StartLoop("connect") \/ StartLoop("send"),
             ~waiting' \/ EventTold'
      PROVE  TimeTold'
  <2>1. pc' = "test" /\ api' # None /\ cmdAge' = 0
    BY <1>2 DEF StartLoop, None
  <2>2. CallTold'
    <3>1. Elapsed(now', cmdStart') = 0
      BY <1>2, NoTimePassed DEF StartLoop, LoopTypeOK
    <3>2. 0 <= CmdLimit' + 1
      BY LoopAssumption DEF CmdLimit
    <3> QED
      BY <2>1, <3>1, <3>2 DEF CallTold
  <2> QED
    BY <1>2, <2>1, <2>2 DEF TimeTold
<1>3. ASSUME NEW port \in SrcPortArgs, BeginConnect(port) PROVE TimeTold'
  <2>1. CASE connected
    BY <1>2, <1>3, <2>1 DEF BeginConnect
  <2>2. CASE ~connected
    <3>1. PICK d \in Delays : Schedule(d)
      BY <1>3, <2>2 DEF BeginConnect
    <3>2. EventTold'
      BY <1>3, <3>1, ScheduleTold DEF BeginConnect, StartLoop
    <3> QED
      BY <1>2, <1>3, <3>2 DEF BeginConnect
  <2> QED
    BY <2>1, <2>2
<1>4. ASSUME NEW size \in PayloadSizes, NEW dest \in DestPortArgs,
             BeginSend(size, dest)
      PROVE  TimeTold'
  <2>1. EventTold'
    BY <1>4, ScheduleTold DEF BeginSend, StartLoop
  <2> QED
    BY <1>2, <1>4, <2>1 DEF BeginSend
<1>5. ASSUME NEW size \in PayloadSizes, NEW dest \in DestPortArgs,
             SendRefused(size, dest)
      PROVE  TimeTold'
  BY <1>5 DEF SendRefused, timeVars, TimeTold
<1>6. CASE LoopGoesOn
  <2>1. /\ pc = "test" /\ pc' = "run" /\ waiting
        /\ UNCHANGED <<api, now, cmdStart, cmdAge, event, eventAge>>
        /\ Elapsed(now, cmdStart) <= CmdLimit
    BY <1>6 DEF LoopGoesOn, NoTime
  <2>2. CallTold' /\ EventTold' /\ cmdAge' <= CmdLimit'
    BY <2>1 DEF TimeTold, CallTold, EventTold, CmdLimit
  <2> QED
    BY <2>1, <2>2 DEF TimeTold
<1>7. CASE LoopEnds \/ LoopTimesOut
  BY <1>7 DEF LoopEnds, LoopTimesOut, Leave, TimeTold
<1>8. CASE RunTakesTime
  <2>1. /\ pc = "run" /\ pc' = "due" /\ ~rescheduled'
        /\ passed' = Elapsed(now, event.scheduled)
        /\ UNCHANGED <<api, now, cmdStart, cmdAge, event, eventAge>>
    BY <1>8 DEF RunTakesTime, NoTime
  <2>2. CallTold' /\ EventTold' /\ PassedTold' /\ cmdAge' <= CmdLimit'
    BY <2>1 DEF TimeTold, CallTold, EventTold, PassedTold, CmdLimit
  <2> QED
    BY <2>1, <2>2 DEF TimeTold
<1>9. CASE RunEvent
  <2>1. /\ pc = "due" /\ pc' = "test" /\ UNCHANGED <<api, now, cmdStart, cmdAge>>
    BY <1>9 DEF RunEvent, Tested, NoTime
  <2>2. CallTold'
    BY <2>1 DEF TimeTold, CallTold, CmdLimit
  <2>3. EventTold'
    BY <1>9, <2>1, ScheduleTold DEF RunEvent
  <2> QED
    BY <2>1, <2>2, <2>3 DEF TimeTold
<1>10. CASE RunSleep
  BY <1>10, SleepTold DEF RunSleep, Tested, TimeTold
<1>11. CASE Drain
  BY <1>11 DEF Drain, NoTime, TimeTold
<1>12. CASE Rest
  BY <1>12 DEF Rest, Sleep, TimeTold
<1>13. CASE Callback
  <2>1. /\ UNCHANGED <<pc, api, now, cmdStart, cmdAge>>
        /\ waiting' = TRUE => waiting = TRUE
    BY <1>13 DEF Callback, NoTime
  <2>2. CallTold => CallTold'
    BY <2>1 DEF CallTold, CmdLimit
  <2>3. EventTold => EventTold'
    <3>1. CASE UNCHANGED <<event, eventAge>>
      BY <2>1, <3>1 DEF EventTold
    <3>2. CASE Cancel \/ \E d \in Delays : Schedule(d)
      BY <2>1, <3>2, ScheduleTold
    <3> QED
      BY <1>13, <3>1, <3>2 DEF Callback
  <2>5. pc = "due" /\ PassedTold => PassedTold'
    <3>1. CASE UNCHANGED <<event, eventAge, rescheduled>>
      BY <1>13, <2>1, <3>1 DEF PassedTold, Callback
    <3>2. CASE Cancel /\ UNCHANGED rescheduled
      <4>1. event'.scheduled = event.scheduled /\ eventAge' = 0
        BY <3>2 DEF Cancel, LoopTypeOK, EventType
      <4> QED
        BY <1>13, <2>1, <3>2, <4>1 DEF PassedTold, Callback
    <3>3. CASE pc = "due" /\ \E d \in Delays : Schedule(d) /\ rescheduled' = (pc = "due")
      BY <3>3 DEF PassedTold, Schedule
    <3> QED
      BY <1>13, <3>1, <3>2, <3>3 DEF Callback
  <2>4. waiting \in BOOLEAN /\ waiting' \in BOOLEAN
    BY <1>13 DEF Callback, LoopTypeOK
  <2> QED
    BY <2>1, <2>2, <2>3, <2>4, <2>5 DEF TimeTold, CmdLimit
<1>14. CASE UNCHANGED <<loopVars, timeVars>>
  BY <1>14
  DEF loopVars, timeVars, TimeTold, CallTold, EventTold, PassedTold, CmdLimit
<1> QED
  BY <1>1, <1>3, <1>4, <1>5, <1>6, <1>7, <1>8, <1>9, <1>10, <1>11, <1>12,
     <1>13, <1>14 DEF LoopNext, Main, Call, MessageArrives, appVars

\* What the differences of dn_fsm.c say about the time inside a call is true.
THEOREM ClockTellsTime == LoopSpec => []TimeTold
<1>1. LoopInit => TimeTold
  BY DEF LoopInit, TimeTold, None
<1> QED
  BY <1>1, TimeStep, LoopTypeCorrect, PTL DEF LoopSpec

\* An API call ends within one sleep of its limit, whatever the clock shows
\* when it begins.
THEOREM CallsEndInTime == LoopSpec => []CallEndsInTime
<1>1. LoopTypeOK /\ TimeTold => CallEndsInTime
  BY LimitTyped DEF LoopTypeOK, TimeTold, CallTold, CallEndsInTime
<1> QED
  BY <1>1, ClockTellsTime, LoopTypeCorrect, PTL

\* Inside a call an event runs at the first test after its delay has passed,
\* whatever the clock showed when it was scheduled; it runs before that only if
\* an interrupt scheduled it between the read of the clock and the test.
THEOREM EventsRunOnTime == LoopSpec => EventOnTime
<1>1. LoopTypeOK /\ TimeTold /\ [LoopNext]_appVars
        => [pc = "due" /\ pc' = "test" =>
              /\ event.armed /\ eventAge > event.delay => now' = now
              /\ now' = now => event.armed /\ (eventAge > event.delay \/ rescheduled)
           ]_appVars
  <2> SUFFICES ASSUME LoopTypeOK, TimeTold, [LoopNext]_appVars,
                      pc = "due", pc' = "test"
               PROVE  /\ event.armed /\ eventAge > event.delay => now' = now
                      /\ now' = now =>
                           event.armed /\ (eventAge > event.delay \/ rescheduled)
    OBVIOUS
  <2>1. CASE RunEvent
    BY <2>1, DueTold DEF RunEvent, NoTime
  <2>2. CASE RunSleep
    BY <2>2, DueTold, SleepTold DEF RunSleep
  <2>3. pc' # pc
    OBVIOUS
  <2> QED
    BY <2>1, <2>2, <2>3
    DEF LoopNext, Main, Call, Top, BeginConnect, BeginSend, SendRefused,
        StartLoop, LoopGoesOn, LoopEnds, LoopTimesOut, Leave, RunTakesTime,
        Drain, Rest, MessageArrives, loopVars, Callback, appVars
<1> QED
  BY <1>1, ClockTellsTime, LoopTypeCorrect, PTL DEF LoopSpec, EventOnTime

-----------------------------------------------------------------------------
(* The inbox inside the main loop.                                          *)

\* To the inbox, the main loop is a reader and the interrupt a sender.
LEMMA InboxInLoop == LoopSpec => Spec
<1>1. LoopInit => Init
  BY DEF LoopInit
<1>2. [LoopNext]_appVars => [Next]_inboxVars
  <2> USE DEF inboxVars
  <2> SUFFICES ASSUME LoopNext PROVE [Next]_inboxVars
    BY DEF appVars
  <2>1. CASE Drain \/ MessageArrives
    BY <2>1 DEF Drain, MessageArrives, Next
  <2>2. CASE Call
    BY <2>2 DEF Call, BeginConnect, BeginSend, SendRefused, StartLoop
  <2>3. CASE Top \/ LoopGoesOn \/ LoopEnds \/ LoopTimesOut
    BY <2>3 DEF Top, LoopGoesOn, LoopEnds, LoopTimesOut, Leave
  <2>4. CASE RunTakesTime \/ RunEvent \/ RunSleep \/ Rest \/ Callback
    BY <2>4 DEF RunTakesTime, RunEvent, RunSleep, Rest, Callback
  <2> QED
    BY <2>1, <2>2, <2>3, <2>4 DEF LoopNext, Main
<1> QED
  BY <1>1, <1>2, PTL DEF LoopSpec, Spec

\* The indices and the count of the inbox stay in range in the main loop, where
\* the notification is an interrupt, even when messages are dropped.
THEOREM LoopInboxTypeCorrect == ASSUME ~Threaded PROVE LoopSpec => []TypeOK
BY InboxInLoop, InboxTypeCorrect, PTL

\* The main loop gets the messages in their order, each once, as long as none
\* finds the inbox full, whatever the state machine and the clock do meanwhile;
\* a read misses no more messages than have lost their increment.
THEOREM LoopReadsFifo ==
  ASSUME ~Threaded, ~MayOverflow PROVE LoopSpec => FifoUnlessMiscounted
BY InboxInLoop, InboxIsFifo, PTL

=============================================================================
