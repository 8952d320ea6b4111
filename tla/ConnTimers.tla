------------------------------ MODULE ConnTimers ------------------------------
(***************************************************************************)
(* The timers of one connection, EmiConnTimers and its EmiRtoTimer, from   *)
(* the SYN to the time-out: a connection is watched for silence, warned    *)
(* about and given up; reliable messages are resent when the RTO timer     *)
(* fires, with the RTO of EmiConnTime; ticks send what waits, heartbeats   *)
(* when nothing did.  Time passes in ticks and no timer fires late.        *)
(*                                                                         *)
(* The remote host is an arbitrary sequence of packets.  Of the send queue *)
(* only what the timers see is kept; the NAK timer is in Feedback.         *)
(***************************************************************************)
EXTENDS Integers, FiniteSets

CONSTANTS
  Warning,         \* timeBeforeConnectionWarning, in ticks
  Timeout,         \* config.connectionTimeout
  InitialTimeout,  \* config.initialConnectionTimeout
  Heartbeat,       \* 1/config.heartbeatFrequency
  MinRto, MaxRto,  \* EMI_MIN_RTO, EMI_MAX_RTO
  InitRto,         \* EMI_INIT_RTO
  Rtos,            \* the values _rto takes after an RTT response
  Data,            \* bound: the reliable messages of the application at a time
  MaxExp           \* bound: largest _expCount; getRto is at its maximum there

ASSUME ConnTimersAssumption ==
  /\ Warning \in Nat \ {0} /\ Timeout \in Nat /\ Warning < Timeout
  /\ InitialTimeout \in Nat \ {0} /\ Heartbeat \in Nat \ {0}
  /\ MinRto \in Nat \ {0} /\ MaxRto \in Nat /\ MinRto <= MaxRto
  /\ InitRto \in Nat /\ Rtos \subseteq Nat
  /\ "control" \notin Data
  /\ MaxExp \in Nat /\ \A rto \in Rtos \cup {InitRto} : rto * (1 + MaxExp) >= MaxRto

Off     == -1                               \* a timer that is not scheduled
NoAge   == -1                               \* no such message in the buffer
Timers  == {"connection", "rto", "tick", "heartbeat"}
Longest == IF Timeout > InitialTimeout THEN Timeout ELSE InitialTimeout
Shorter == IF Timeout < InitialTimeout THEN Timeout ELSE InitialTimeout
MaxSilence == Longest + 1

\* What reliable messages there are: the connection's own (SYN or RST), and data.
Reliable == {"control"} \cup Data

VARIABLES
  phase,          \* "opening", "open", "closing" or "closed"
  left,           \* ticks until each timer fires
  warns,          \* the connection timer calls connectionWarningCallback
  connectionOpen, \* _connectionOpen
  warned,         \* _issuedConnectionWarning
  rto,            \* _rto
  expCount,       \* _expCount
  rtoWhen,        \* _rtoWhenRtoTimerWasScheduled
  age,            \* ticks since registrationTime, for each message in the sender buffer
  queued,         \* the send queue has messages or acknowledgements
  wanted,         \* _enqueueHeartbeat
  bytes,          \* bytes were sent since the byte counter's last tick
  sentData,       \* _sentDataSinceLastHeartbeat
  silence,        \* ticks since the last packet came, up to MaxSilence (history)
  quiet,          \* ticks since the last packet left, or since the opening (history)
  told            \* the last the application heard: "nothing", "lost" or "regained" (history)

connVars == <<connectionOpen, warned, warns, told>>
rtoVars  == <<rto, expCount>>
sendVars == <<queued, wanted, bytes, sentData, quiet>>
vars     == <<phase, left, connVars, rtoVars, rtoWhen, age, sendVars, silence>>

-----------------------------------------------------------------------------
(* Scheduling *)

\* scheduleTimer with reschedule, without it, and descheduleTimer.
Schedule(timers, name, ticks) == [timers EXCEPT ![name] = ticks]
Ensure(timers, name, ticks) ==
  IF timers[name] = Off THEN Schedule(timers, name, ticks) ELSE timers
Deschedule(timers, name) == [timers EXCEPT ![name] = Off]

EnsureTickTimeout(timers) == Ensure(timers, "tick", 1)
ConnectionTimeout == IF connectionOpen THEN Timeout ELSE InitialTimeout

\* EmiConnTime::getRto, and without its limits.
GetRtoUnlimited(base, exp) == base * (1 + exp) + 1
GetRto(base, exp) ==
  LET backedOff == base * (1 + exp) + 1
  IN  CHOOSE r \in MinRto .. MaxRto :
        \/ r = backedOff
        \/ r = MinRto /\ backedOff < MinRto
        \/ r = MaxRto /\ backedOff > MaxRto

Empty(buffer) == \A m \in Reliable : buffer[m] = NoAge

\* updateRtoTimeout keeps a timer that runs.  The mutant restarts it.
UpdateRtoTimerRestart(timers, buffer, base, exp) ==
  IF Empty(buffer) THEN Deschedule(timers, "rto") ELSE Schedule(timers, "rto", GetRto(base, exp))
UpdateRtoTimer(timers, buffer, base, exp) ==
  IF Empty(buffer) THEN Deschedule(timers, "rto") ELSE Ensure(timers, "rto", GetRto(base, exp))
UpdateRtoWhen(buffer, base, exp) == IF Empty(buffer) THEN rtoWhen ELSE GetRto(base, exp)

\* resetConnectionTimeout.  The mutants leave a running timer as it is, and
\* schedule the time-out only.
ResetConnectionTimerNot(timers) == timers
ResetConnectionTimerLate(timers) == Schedule(timers, "connection", ConnectionTimeout)
ResetConnectionTimer(timers) ==
  Schedule(timers, "connection", IF Warning < ConnectionTimeout THEN Warning ELSE ConnectionTimeout)
WarnsFirst == Warning < ConnectionTimeout

\* resetHeartbeatTimeout
HeartbeatTimer(timers, opening) ==
  IF opening THEN timers ELSE Schedule(timers, "heartbeat", Heartbeat)

\* The handlers of EmiConn register a message, and send a control message at once.
Register(buffer, m) == [buffer EXCEPT ![m] = 0]
Deregister(buffer, messages) ==
  [m \in Reliable |-> IF m \in messages THEN NoAge ELSE buffer[m]]
ControlPacketLeaves   == bytes' = TRUE /\ sentData' = TRUE /\ quiet' = 0
-----------------------------------------------------------------------------
(* The connection is made *)

\* A client registers and sends its SYN; a server answers one, not reliably.
Init ==
  /\ phase \in {"opening", "open"}
  /\ connectionOpen = (phase = "open")
  /\ age = [m \in Reliable |-> IF m = "control" /\ phase = "opening" THEN 0 ELSE NoAge]
  /\ warns = (Warning < InitialTimeout) /\ warned = FALSE /\ told = "nothing"
  /\ rto = InitRto /\ expCount = 0
  /\ rtoWhen = IF phase = "opening" THEN GetRto(InitRto, 0) ELSE 0
  /\ left = [t \in Timers |->
               CASE t = "connection" -> IF warns THEN Warning ELSE InitialTimeout
                 [] t = "rto"        -> IF phase = "opening" THEN rtoWhen ELSE Off
                 [] t = "tick"       -> 1
                 [] t = "heartbeat"  -> Off]
  /\ queued = FALSE /\ wanted = FALSE /\ bytes = TRUE /\ sentData = TRUE
  /\ silence = 0 /\ quiet = 0

\* forceClose with a reason: every timer stops; the buffers and what the timers
\* go by are not used any more.
ForceClose ==
  /\ phase' = "closed"
  /\ left' = [t \in Timers |-> Off]
  /\ age' = [m \in Reliable |-> NoAge]
  /\ queued' = FALSE /\ wanted' = FALSE /\ bytes' = FALSE /\ sentData' = FALSE
  /\ rtoWhen' = 0 /\ quiet' = 0
-----------------------------------------------------------------------------
(* A packet arrives *)

\* EmiConnTimers::gotPacket: the back-off ends, an RTT response sets the RTO, the
\* watch for silence starts anew, and the end of a warning is told to the
\* application, by emiConnLost.
Told == "lost"
PacketResets(base) ==
  /\ expCount' = 0 /\ rto' = base
  /\ silence' = 0
  /\ warns' = WarnsFirst
  /\ warned' = FALSE
  /\ told' = IF warned THEN Told ELSE told
\* What the timers may be after it: an RTT request starts the tick timer.
AfterPacket ==
  LET reset == ResetConnectionTimer(left)
  IN  {reset, EnsureTickTimeout(reset)}

\* A heartbeat, or a packet whose messages change nothing here.
GotNothing(timers) ==
  /\ left' = timers
  /\ UNCHANGED <<phase, connectionOpen, rtoWhen, age, sendVars>>

\* Data to acknowledge.
GotData(timers) ==
  /\ phase \in {"open", "closing"}
  /\ left' = EnsureTickTimeout(timers)
  /\ queued' = TRUE
  /\ UNCHANGED <<phase, connectionOpen, rtoWhen, age, wanted, bytes, sentData, quiet>>

\* An acknowledgement, of data in the buffer or of nothing that is still there:
\* the RTO is stored in either case.  If the connection is closing and nothing
\* else waits, the RST is sent.
GotAck(base, timers, messages) ==
  LET rest   == Deregister(age, messages)
      closes == phase = "closing" /\ Empty(rest)
      first  == UpdateRtoTimer(timers, rest, base, 0)
      buffer == IF closes THEN Register(rest, "control") ELSE rest
  IN  /\ phase \in {"open", "closing"} /\ \A m \in messages : age[m] # NoAge
      /\ age' = buffer
      /\ left' = IF closes THEN EnsureTickTimeout(UpdateRtoTimer(first, buffer, base, 0)) ELSE first
      /\ rtoWhen' = UpdateRtoWhen(buffer, base, 0)
      /\ IF closes THEN ControlPacketLeaves ELSE UNCHANGED <<bytes, sentData, quiet>>
      /\ UNCHANGED <<phase, connectionOpen, queued, wanted>>

\* The SYN-RST that answers the SYN: the connection opens, heartbeats begin.
GotSynRst(base, timers) ==
  LET buffer == Deregister(age, {"control"})
      first  == UpdateRtoTimer(timers, buffer, base, 0)
  IN  /\ phase = "opening"
      /\ phase' = "open" /\ connectionOpen' = TRUE
      /\ age' = buffer
      /\ left' = HeartbeatTimer(first, FALSE)
      /\ sentData' = FALSE /\ quiet' = 0
      /\ UNCHANGED <<rtoWhen, queued, wanted, bytes>>

\* RST, or the SYN-RST-ACK that answers this host's RST.
GotRst == ForceClose /\ UNCHANGED connectionOpen

GotPacket(base, timers) ==
  /\ phase # "closed"
  /\ base # rto => phase # "opening"      \* only after an RTT request, and the SYN has none
  /\ PacketResets(base)
  /\ \/ GotNothing(timers)
     \/ GotData(timers)
     \/ \E messages \in SUBSET Data : GotAck(base, timers, messages)
     \/ GotSynRst(base, timers)
     \/ GotRst
-----------------------------------------------------------------------------
(* The application *)

\* enqueueMessage of an open connection.  What waits may be flushed first, to make
\* room or because the message is immediate.
Enqueue(flush) ==
  /\ phase = "open"
  /\ flush => queued
  /\ queued' = TRUE
  /\ IF flush THEN ControlPacketLeaves ELSE UNCHANGED <<bytes, sentData, quiet>>
  /\ UNCHANGED <<phase, connVars, rtoVars, wanted, silence>>

Send(flush) ==
  /\ Enqueue(flush)
  /\ left' = EnsureTickTimeout(left)
  /\ UNCHANGED <<age, rtoWhen>>

\* A reliable message is registered first.
SendReliable(m, flush) ==
  /\ Enqueue(flush)
  /\ age[m] = NoAge
  /\ age' = Register(age, m)
  /\ rtoWhen' = UpdateRtoWhen(age', rto, expCount)
  /\ left' = EnsureTickTimeout(UpdateRtoTimer(left, age', rto, expCount))

\* close: a handshake is cancelled and the heartbeat timer set for its failure;
\* the RST is sent once the buffer is empty.
Close ==
  LET rest   == IF phase = "opening" THEN Deregister(age, {"control"}) ELSE age
      first  == IF phase = "opening" THEN UpdateRtoTimer(left, rest, rto, expCount) ELSE left
      buffer == IF Empty(rest) THEN Register(rest, "control") ELSE rest
      timers == IF Empty(rest)
                THEN EnsureTickTimeout(UpdateRtoTimer(first, buffer, rto, expCount)) ELSE first
  IN  /\ phase \in {"opening", "open"}
      /\ phase' = "closing"
      /\ age' = buffer
      /\ left' = IF phase = "opening" THEN HeartbeatTimer(timers, FALSE) ELSE timers
      /\ rtoWhen' = IF Empty(rest) THEN UpdateRtoWhen(buffer, rto, expCount) ELSE rtoWhen
      /\ sentData' = ((sentData \/ Empty(rest)) /\ phase = "open")
      /\ bytes' = (bytes \/ Empty(rest))
      /\ quiet' = IF Empty(rest) THEN 0 ELSE quiet
      /\ UNCHANGED <<connVars, rtoVars, queued, wanted, silence>>
-----------------------------------------------------------------------------
(* Timers fire *)

Due(timer) == left[timer] = 0

\* The connection was silent: the application is warned, the same timer goes on
\* to the time-out.  The mutant schedules nothing.
NothingAfterWarning == Deschedule(left, "connection")
AfterWarning == Schedule(left, "connection", ConnectionTimeout - Warning)
ConnectionWarning ==
  /\ Due("connection") /\ warns
  /\ warned' = TRUE /\ warns' = FALSE /\ told' = "lost"
  /\ left' = AfterWarning
  /\ UNCHANGED <<phase, connectionOpen, rtoVars, rtoWhen, age, sendVars, silence>>

ConnectionTimesOut ==
  /\ Due("connection") /\ ~warns
  /\ ForceClose
  /\ UNCHANGED <<connVars, rtoVars, silence>>

\* Which messages the handler takes for overdue.
Overdue == {m \in Reliable : age[m] # NoAge /\ rtoWhen <= age[m]}

\* The RTO timer: overdue messages are sent again, or enqueued; then the RTO backs
\* off and the timer starts again.
RtoTimeout ==
  LET buffer == [m \in Reliable |-> IF m \in Overdue THEN 0 ELSE age[m]]
      exp    == IF expCount < MaxExp THEN expCount + 1 ELSE MaxExp
      timers == IF Overdue = {} THEN Deschedule(left, "rto")
                ELSE EnsureTickTimeout(Deschedule(left, "rto"))
  IN  /\ Due("rto")
      /\ age' = buffer
      /\ expCount' = exp
      /\ left' = UpdateRtoTimer(timers, buffer, rto, exp)
      /\ rtoWhen' = UpdateRtoWhen(buffer, rto, exp)
      /\ queued' = (queued \/ Overdue \cap Data # {})
      /\ IF "control" \in Overdue THEN ControlPacketLeaves ELSE UNCHANGED <<bytes, sentData, quiet>>
      /\ UNCHANGED <<phase, connVars, rto, wanted, silence>>

\* A tick sends data if the congestion control lets it, and maybe not all of it; a
\* heartbeat only if no bytes were counted, and a closing connection counts it
\* without sending it.  If a pair was sent the counter keeps its bytes.  When
\* bytes were sent the heartbeat timer starts anew.
TickTimeout(data, pair, rest) ==
  LET heartbeat == wanted /\ ~bytes /\ ~data
      something == bytes \/ data \/ heartbeat
      timers    == Deschedule(left, "tick")
  IN  /\ Due("tick")
      /\ data => queued
      /\ pair => data
      /\ rest => queued
      /\ ~data => rest = queued
      /\ queued' = rest
      /\ wanted' = (wanted /\ ~heartbeat)
      /\ bytes' = pair
      /\ sentData' = (sentData /\ ~something)
      /\ left' = IF something THEN HeartbeatTimer(timers, phase = "opening") ELSE timers
      /\ quiet' = IF data \/ (heartbeat /\ phase = "open") THEN 0 ELSE quiet
      /\ UNCHANGED <<phase, connVars, rtoVars, rtoWhen, age, silence>>

\* The heartbeat timer: a heartbeat waits for the tick, unless something was sent.
\* The mutant does not start the tick timer.
HeartbeatUnticked == left
HeartbeatTicks == IF sentData THEN left ELSE EnsureTickTimeout(left)
HeartbeatTimeout ==
  /\ Due("heartbeat")
  /\ wanted' = (wanted \/ ~sentData)
  /\ left' = HeartbeatTimer(HeartbeatTicks, FALSE)
  /\ sentData' = FALSE
  /\ UNCHANGED <<phase, connVars, rtoVars, rtoWhen, age, queued, bytes, quiet, silence>>

\* A tick of time, once every timer that is due has fired.
Pass ==
  /\ phase # "closed"
  /\ \A t \in Timers : ~Due(t)
  /\ left' = [t \in Timers |-> IF left[t] = Off THEN Off ELSE left[t] - 1]
  /\ age' = [m \in Reliable |-> IF age[m] = NoAge THEN NoAge ELSE age[m] + 1]
  /\ silence' = IF silence < MaxSilence THEN silence + 1 ELSE silence
  /\ quiet' = IF phase = "open" THEN quiet + 1 ELSE quiet
  /\ UNCHANGED <<phase, connVars, rtoVars, rtoWhen, queued, wanted, bytes, sentData>>

TimerFires ==
  \/ ConnectionWarning
  \/ ConnectionTimesOut
  \/ RtoTimeout
  \/ \E data, pair, rest \in BOOLEAN : TickTimeout(data, pair, rest)
  \/ HeartbeatTimeout

Next ==
  \/ \E base \in Rtos \cup {rto}, timers \in AfterPacket : GotPacket(base, timers)
  \/ \E flush \in BOOLEAN : Send(flush)
  \/ \E m \in Data, flush \in BOOLEAN : SendReliable(m, flush)
  \/ Close
  \/ TimerFires
  \/ Pass

Spec == Init /\ [][Next]_vars

\* Time passes, and a timer that is due fires before it does.
Fairness == WF_vars(Pass) /\ WF_vars(TimerFires)

FairSpec == Spec /\ Fairness
-----------------------------------------------------------------------------
(* Properties *)

TypeOK ==
  /\ phase \in {"opening", "open", "closing", "closed"}
  /\ left \in [Timers -> Int] /\ \A t \in Timers : left[t] >= Off
  /\ connectionOpen \in BOOLEAN /\ warned \in BOOLEAN /\ warns \in BOOLEAN
  /\ told \in {"nothing", "lost", "regained"}
  /\ rto \in Nat /\ expCount \in 0 .. MaxExp /\ rtoWhen \in 0 .. MaxRto
  /\ age \in [Reliable -> Int] /\ \A m \in Reliable : age[m] >= NoAge
  /\ queued \in BOOLEAN /\ wanted \in BOOLEAN /\ bytes \in BOOLEAN /\ sentData \in BOOLEAN
  /\ silence \in Nat /\ quiet \in Nat

\* A connection is given up by its timer only after a time-out's worth of silence:
\* the one in force if the application was warned, else the shorter of the two.
OnlySilenceTimesOut ==
  [][ConnectionTimesOut => silence >= IF warned THEN ConnectionTimeout ELSE Shorter]_vars

\* "If no messages are received ... a connection warning is issued": a silent
\* connection is warned about in time, unless it is to be given up before that.
SilenceIsWarned == phase # "closed" /\ warns => silence <= Warning

\* While messages wait to be acknowledged the RTO timer runs, through every order
\* of acknowledgements, retransmissions and closing, and only then.
RtoTimerRuns == ~Empty(age) <=> left["rto"] # Off

\* A reliable message in the buffer is resent within twice the largest RTO, though
\* updateRtoTimeout overwrites the RTO that the running timer was set with, and
\* the handler passes over messages that are younger than that.
ResentInTime == TypeOK /\ RtoTimerRuns /\ \A m \in Reliable : age[m] <= 2 * MaxRto

\* An open connection sends a packet at least every two heartbeats and two ticks,
\* whatever is flushed between ticks and however packet pairs keep the byte
\* counter from being cleared.
NeverQuiet == phase = "open" => quiet <= 2 * Heartbeat + 2

\* If packets stop coming for good, the connection is closed.
SilenceEnds == <>[](silence > 0) => <>(phase = "closed")
-----------------------------------------------------------------------------
(* What the code does not do *)

\* When packets come again after a warning, the application is told.
RegainedIsTold == ~warned => told # "lost"
=============================================================================
