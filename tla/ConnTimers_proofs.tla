--------------------------- MODULE ConnTimers_proofs ---------------------------
(***************************************************************************)
(* Proofs about the timers of a connection, for every value of the         *)
(* time-outs: a silent connection is warned about in time and given up     *)
(* only for silence, reliable messages are resent within twice the largest *)
(* RTO, and an open connection never falls quiet.  Each of the three has   *)
(* an invariant that adds what a timer has left to what has passed.        *)
(***************************************************************************)
EXTENDS ConnTimers, TLAPS

-----------------------------------------------------------------------------
(* The inductive invariants *)

\* The watch for silence: what has passed and what is left make up the time until the
\* warning, or the time-out.  Only a connection that is not open may have a time-out
\* that leaves no time for a warning.  A closed connection has no timers.
WatchInv ==
  /\ phase = "closed" => \A t \in Timers : left[t] = Off
  /\ phase # "closed" =>
       /\ left["connection"] # Off
       /\ warns => /\ ~warned /\ WarnsFirst
                   /\ silence + left["connection"] = Warning
       /\ ~warns => silence + left["connection"] =
                      IF warned THEN ConnectionTimeout ELSE InitialTimeout

\* The RTO timer fires before any message is too old; one that is passed over then
\* is younger than the largest RTO.
RtoInv ==
  /\ RtoTimerRuns
  /\ left["rto"] <= MaxRto
  /\ \A m \in Reliable : age[m] # NoAge => age[m] + left["rto"] <= 2 * MaxRto

\* The next packet leaves in time.  Bytes that were counted before the last tick cost
\* the connection a tick without a heartbeat, and a turn of the heartbeat timer.
Limit == 2 * Heartbeat + 2
LeavesInTime(tick, heartbeat) ==
  IF bytes
  THEN IF tick # Off THEN quiet + tick + Heartbeat + 1 <= Limit
                     ELSE quiet + heartbeat + Heartbeat + 2 <= Limit
  ELSE \/ quiet + heartbeat + 1 <= Limit
       \/ wanted /\ tick # Off /\ quiet + tick <= Limit
HeartbeatInv ==
  /\ left["tick"] <= 1 /\ left["heartbeat"] <= Heartbeat
  /\ sentData => bytes /\ left["tick"] # Off
  /\ phase = "open" => /\ left["heartbeat"] = Off => bytes /\ left["tick"] # Off
                       /\ LeavesInTime(left["tick"], left["heartbeat"])

TimersInv == TypeOK /\ WatchInv /\ RtoInv /\ HeartbeatInv

-----------------------------------------------------------------------------
(* The helpers *)

Lefts == {l \in [Timers -> Int] : \A t \in Timers : l[t] >= Off}
Ages  == {a \in [Reliable -> Int] : \A m \in Reliable : a[m] >= NoAge}

\* Every RTO is within its limits.
LEMMA RtoWithinLimits ==
  ASSUME NEW base \in Nat, NEW exp \in Nat
  PROVE  GetRto(base, exp) \in MinRto .. MaxRto /\ GetRto(base, exp) \in 1 .. MaxRto
<1> DEFINE b == base * (1 + exp) + 1
           Is(r) == r = b \/ (r = MinRto /\ b < MinRto) \/ (r = MaxRto /\ b > MaxRto)
<1>1. b \in Nat
  OBVIOUS
<1>2. MinRto \in Nat /\ MinRto # 0 /\ MaxRto \in Nat /\ MinRto <= MaxRto
  BY ConnTimersAssumption
<1>3. GetRto(base, exp) = CHOOSE r \in MinRto .. MaxRto : Is(r)
  BY DEF GetRto
<1> HIDE DEF b
<1>4. \E r \in MinRto .. MaxRto : Is(r)
  BY <1>1, <1>2
<1>5. GetRto(base, exp) \in MinRto .. MaxRto
  BY <1>3, <1>4
<1>6. QED
  BY <1>2, <1>5

\* The time-outs, whichever is in force.
LEMMA TimeoutBounds ==
  /\ Warning \in Nat \ {0} /\ Heartbeat \in Nat \ {0}
  /\ ConnectionTimeout \in Nat /\ InitialTimeout \in Nat
  /\ ConnectionTimeout < MaxSilence /\ InitialTimeout < MaxSilence /\ Warning < MaxSilence
  /\ MaxSilence \in Nat
  /\ InitialTimeout >= Shorter /\ Shorter \in Nat
  /\ ~WarnsFirst => ConnectionTimeout = InitialTimeout
  /\ connectionOpen => WarnsFirst
BY ConnTimersAssumption DEF ConnectionTimeout, MaxSilence, Longest, Shorter, WarnsFirst

\* scheduleTimer, with and without reschedule, and descheduleTimer: one timer changes.
LEMMA Scheduled ==
  ASSUME NEW l \in Lefts, NEW name \in Timers, NEW ticks \in Nat
  PROVE  /\ Schedule(l, name, ticks) \in Lefts
         /\ Ensure(l, name, ticks) \in Lefts
         /\ Schedule(l, name, ticks)[name] = ticks
         /\ Ensure(l, name, ticks)[name] = IF l[name] = Off THEN ticks ELSE l[name]
BY DEF Lefts, Schedule, Ensure, Off

\* The other timers stay as they are.
LEMMA Unscheduled ==
  ASSUME NEW l \in Lefts, NEW name \in Timers, NEW ticks, NEW t \in Timers, t # name
  PROVE  /\ Schedule(l, name, ticks)[t] = l[t]
         /\ Ensure(l, name, ticks)[t] = l[t]
BY DEF Lefts, Schedule, Ensure

LEMMA Descheduled ==
  ASSUME NEW l \in Lefts, NEW name \in Timers
  PROVE  /\ Deschedule(l, name) \in Lefts
         /\ Deschedule(l, name)[name] = Off
         /\ \A t \in Timers : t # name => Deschedule(l, name)[t] = l[t]
BY DEF Lefts, Deschedule, Off

\* ensureTickTimeout touches only the tick timer, and leaves it running.
LEMMA Ticked ==
  ASSUME NEW l \in Lefts
  PROVE  /\ EnsureTickTimeout(l) \in Lefts
         /\ EnsureTickTimeout(l)["tick"] = IF l["tick"] = Off THEN 1 ELSE l["tick"]
         /\ EnsureTickTimeout(l)["connection"] = l["connection"]
         /\ EnsureTickTimeout(l)["rto"] = l["rto"]
         /\ EnsureTickTimeout(l)["heartbeat"] = l["heartbeat"]
<1>1. {"connection", "rto", "tick", "heartbeat"} = Timers
  BY DEF Timers
<1>2. EnsureTickTimeout(l) = Ensure(l, "tick", 1) /\ 1 \in Nat
  BY DEF EnsureTickTimeout
<1>3. "tick" \in Timers /\ "connection" \in Timers /\ "rto" \in Timers /\ "heartbeat" \in Timers
  BY <1>1
<1>4. /\ Ensure(l, "tick", 1) \in Lefts
      /\ Ensure(l, "tick", 1)["tick"] = IF l["tick"] = Off THEN 1 ELSE l["tick"]
  BY <1>2, <1>3, Scheduled
<1>5. QED
  BY <1>2, <1>3, <1>4, Unscheduled

\* updateRtoTimeout: the timer runs afterwards if and only if messages wait, and one that
\* ran goes on.
RtoFollows(l, buffer, r) ==
  /\ r \in Lefts
  /\ Empty(buffer) <=> r["rto"] = Off
  /\ ~Empty(buffer) => IF l["rto"] = Off THEN r["rto"] \in 1 .. MaxRto
                                         ELSE r["rto"] = l["rto"]
  /\ r["connection"] = l["connection"] /\ r["tick"] = l["tick"]
  /\ r["heartbeat"] = l["heartbeat"]

LEMMA RtoUpdated ==
  ASSUME NEW l \in Lefts, NEW buffer, NEW base \in Nat, NEW exp \in Nat
  PROVE  RtoFollows(l, buffer, UpdateRtoTimer(l, buffer, base, exp))
<1>1. GetRto(base, exp) \in 1 .. MaxRto /\ GetRto(base, exp) \in Nat
  BY RtoWithinLimits
<1>2. "tick" \in Timers /\ "connection" \in Timers /\ "rto" \in Timers /\ "heartbeat" \in Timers
  BY DEF Timers
<1>3. CASE Empty(buffer)
  <2>1. UpdateRtoTimer(l, buffer, base, exp) = Deschedule(l, "rto")
    BY <1>3 DEF UpdateRtoTimer
  <2>2. /\ Deschedule(l, "rto") \in Lefts /\ Deschedule(l, "rto")["rto"] = Off
        /\ \A t \in Timers : t # "rto" => Deschedule(l, "rto")[t] = l[t]
    BY <1>2, Descheduled
  <2>3. QED
    BY <1>2, <1>3, <2>1, <2>2 DEF RtoFollows
<1>4. CASE ~Empty(buffer)
  <2>1. UpdateRtoTimer(l, buffer, base, exp) = Ensure(l, "rto", GetRto(base, exp))
    BY <1>4 DEF UpdateRtoTimer
  <2>2. l["rto"] \in Int /\ l["rto"] >= Off
    BY <1>2 DEF Lefts
  <2>3. /\ Ensure(l, "rto", GetRto(base, exp)) \in Lefts
        /\ Ensure(l, "rto", GetRto(base, exp))["rto"] =
              IF l["rto"] = Off THEN GetRto(base, exp) ELSE l["rto"]
    BY <1>1, <1>2, Scheduled
  <2>4. QED
    BY <1>1, <1>2, <1>4, <2>1, <2>2, <2>3, Unscheduled DEF Off, RtoFollows
<1>5. QED
  BY <1>3, <1>4

\* resetConnectionTimeout and resetHeartbeatTimeout.
LEMMA ConnectionReset ==
  ASSUME NEW l \in Lefts
  PROVE  LET r == ResetConnectionTimer(l)
         IN  /\ r \in Lefts
             /\ r["connection"] = IF WarnsFirst THEN Warning ELSE ConnectionTimeout
             /\ r["rto"] = l["rto"] /\ r["tick"] = l["tick"] /\ r["heartbeat"] = l["heartbeat"]
<1> DEFINE first == IF WarnsFirst THEN Warning ELSE ConnectionTimeout
<1>1. "tick" \in Timers /\ "connection" \in Timers /\ "rto" \in Timers /\ "heartbeat" \in Timers
  BY DEF Timers
<1>2. ResetConnectionTimer(l) = Schedule(l, "connection", first)
  BY DEF ResetConnectionTimer, WarnsFirst
<1>3. first \in Nat
  BY TimeoutBounds
<1> HIDE DEF first
<1>4. /\ Schedule(l, "connection", first) \in Lefts
      /\ Schedule(l, "connection", first)["connection"] = first
  BY <1>1, <1>3, Scheduled
<1>5. QED
  BY <1>1, <1>2, <1>4, Unscheduled DEF first

LEMMA HeartbeatReset ==
  ASSUME NEW l \in Lefts
  PROVE  LET r == Schedule(l, "heartbeat", Heartbeat)
         IN  /\ r \in Lefts /\ r["heartbeat"] = Heartbeat
             /\ r["rto"] = l["rto"] /\ r["tick"] = l["tick"]
             /\ r["connection"] = l["connection"]
<1>1. "tick" \in Timers /\ "connection" \in Timers /\ "rto" \in Timers /\ "heartbeat" \in Timers
  BY DEF Timers
<1>2. Heartbeat \in Nat
  BY ConnTimersAssumption
<1>3. /\ Schedule(l, "heartbeat", Heartbeat) \in Lefts
      /\ Schedule(l, "heartbeat", Heartbeat)["heartbeat"] = Heartbeat
  BY <1>1, <1>2, Scheduled
<1>4. /\ Schedule(l, "heartbeat", Heartbeat)["rto"] = l["rto"]
      /\ Schedule(l, "heartbeat", Heartbeat)["tick"] = l["tick"]
      /\ Schedule(l, "heartbeat", Heartbeat)["connection"] = l["connection"]
  BY <1>1, Unscheduled
<1>5. QED
  BY <1>3, <1>4

\* The buffer: whether it is empty, and what registering does to it.
LEMMA Buffered ==
  ASSUME NEW a \in Ages, NEW m \in Reliable, NEW messages
  PROVE  /\ Register(a, m) \in Ages /\ Register(a, m)[m] = 0
         /\ \A n \in Reliable \ {m} : Register(a, m)[n] = a[n]
         /\ ~Empty(Register(a, m))
         /\ Deregister(a, messages) \in Ages
         /\ \A n \in Reliable : Deregister(a, messages)[n] \in {NoAge, a[n]}
         /\ Empty(a) => Empty(Deregister(a, messages))
BY DEF Ages, Register, Deregister, Empty, NoAge

\* What the type invariant says of timers and messages.
LEMMA TypeFacts ==
  ASSUME TypeOK
  PROVE  /\ left \in Lefts /\ age \in Ages
         /\ left["connection"] \in Int /\ left["connection"] >= Off
         /\ left["rto"] \in Int /\ left["rto"] >= Off
         /\ left["tick"] \in Int /\ left["tick"] >= Off
         /\ left["heartbeat"] \in Int /\ left["heartbeat"] >= Off
         /\ rto \in Nat /\ expCount \in Nat /\ rtoWhen \in Nat /\ rtoWhen <= MaxRto
         /\ silence \in Nat /\ quiet \in Nat
<1>1. left \in Lefts /\ age \in Ages /\ {"connection", "rto", "tick", "heartbeat"} = Timers
  BY DEF TypeOK, Lefts, Ages, Timers
<1>2. /\ left["connection"] \in Int /\ left["connection"] >= Off
      /\ left["rto"] \in Int /\ left["rto"] >= Off
      /\ left["tick"] \in Int /\ left["tick"] >= Off
      /\ left["heartbeat"] \in Int /\ left["heartbeat"] >= Off
  BY <1>1 DEF Lefts
<1>3. rto \in Nat /\ expCount \in Nat /\ rtoWhen \in Nat /\ rtoWhen <= MaxRto
  BY ConnTimersAssumption DEF TypeOK
<1>4. QED
  BY <1>1, <1>2, <1>3 DEF TypeOK

-----------------------------------------------------------------------------
(* How a step may change what each invariant is about *)

\* A step that is no packet leaves the watch for silence alone.
LEMMA WatchKept ==
  ASSUME TimersInv, phase # "closed", phase' # "closed",
         left'["connection"] = left["connection"],
         UNCHANGED <<connectionOpen, warned, warns, silence>>
  PROVE  WatchInv'
BY DEF TimersInv, WatchInv, WarnsFirst, ConnectionTimeout

\* A packet begins it anew; the SYN-RST sets the other time-out, too, after that.
LEMMA WatchReset ==
  ASSUME TimersInv, phase' # "closed", NEW base, PacketResets(base),
         connectionOpen => connectionOpen',
         left'["connection"] = IF WarnsFirst THEN Warning ELSE ConnectionTimeout
  PROVE  WatchInv'
<1>1. /\ silence' = 0 /\ warns' = WarnsFirst /\ warned' = FALSE
  BY DEF PacketResets
<1>2. CASE WarnsFirst
  <2>1. left'["connection"] = Warning /\ Warning \in Nat /\ warns'
    BY <1>1, <1>2, TimeoutBounds
  <2>2. WarnsFirst'
    BY <1>2, ConnTimersAssumption DEF WarnsFirst, ConnectionTimeout
  <2>3. silence' + left'["connection"] = Warning /\ left'["connection"] # Off /\ ~warned'
    BY <1>1, <2>1 DEF Off
  <2>4. QED
    BY <2>1, <2>2, <2>3, Zenon DEF WatchInv
<1>3. CASE ~WarnsFirst
  <2>1. left'["connection"] = InitialTimeout /\ InitialTimeout \in Nat /\ ~warns'
    BY <1>1, <1>3, TimeoutBounds
  <2>2. QED
    BY <1>1, <2>1 DEF WatchInv, Off
<1>4. QED
  BY <1>2, <1>3

\* The buffer and the RTO timer change together: messages leave the buffer or enter it
\* anew, and a timer is set only while no other message waits.
LEMMA RtoKept ==
  ASSUME TimersInv, left' \in Lefts, age' \in Ages,
         \A m \in Reliable : age'[m] \in {NoAge, 0, age[m]},
         Empty(age') <=> left'["rto"] = Off,
         \/ left'["rto"] = left["rto"]
         \/ left'["rto"] <= MaxRto /\ \A m \in Reliable : age'[m] \in {NoAge, 0}
  PROVE  RtoInv'
<1>1. RtoTimerRuns'
  BY DEF RtoTimerRuns
<1>2. /\ left["rto"] \in Int /\ left'["rto"] \in Int /\ left["rto"] <= MaxRto /\ MaxRto \in Nat
      /\ \A m \in Reliable : age[m] \in Int /\ age'[m] \in Int
  BY TypeFacts, ConnTimersAssumption DEF TimersInv, RtoInv, Lefts, Timers, Ages
<1>3. ASSUME NEW m \in Reliable, age'[m] # NoAge
      PROVE  age'[m] + left'["rto"] <= 2 * MaxRto
  <2>1. CASE age'[m] = 0
    BY <1>2, <2>1
  <2>2. CASE age'[m] = age[m] /\ left'["rto"] = left["rto"]
    BY <1>2, <1>3, <2>2 DEF TimersInv, RtoInv
  <2>3. QED
    BY <1>3, <2>1, <2>2
<1>4. QED
  BY <1>1, <1>2, <1>3 DEF RtoInv

\* A step that sends nothing may start the tick timer.
LEMMA HeartbeatKept ==
  ASSUME TimersInv, UNCHANGED <<phase, wanted, bytes, sentData, quiet>>,
         left'["tick"] = left["tick"] \/ (left["tick"] = Off /\ left'["tick"] = 1),
         left'["heartbeat"] = left["heartbeat"]
  PROVE  HeartbeatInv'
<1>1. /\ left["tick"] \in Int /\ left["tick"] >= -1 /\ left["tick"] <= 1
      /\ left["heartbeat"] \in Int /\ left["heartbeat"] >= -1
      /\ left["heartbeat"] <= Heartbeat /\ Heartbeat \in Nat \ {0} /\ quiet \in Nat
  BY TypeFacts, TimeoutBounds DEF TimersInv, HeartbeatInv, Off
<1>2. CASE left'["tick"] = left["tick"]
  BY <1>2 DEF TimersInv, HeartbeatInv, LeavesInTime
<1>3. CASE left["tick"] = Off /\ left'["tick"] = 1
  BY <1>1, <1>3 DEF TimersInv, HeartbeatInv, LeavesInTime, Limit, Off
<1>4. QED
  BY <1>2, <1>3

\* A step that sends a packet leaves the tick timer running.
LEMMA HeartbeatLeaves ==
  ASSUME TimersInv, ControlPacketLeaves, phase' = phase, left'["tick"] \in 0 .. 1,
         left'["heartbeat"] = left["heartbeat"]
  PROVE  HeartbeatInv'
<1>1. left["heartbeat"] <= Heartbeat /\ Heartbeat \in Nat \ {0}
  BY TimeoutBounds DEF TimersInv, HeartbeatInv
<1>2. QED
  BY <1>1 DEF HeartbeatInv, LeavesInTime, Limit, Off, ControlPacketLeaves

\* Every timer of a closed connection is off.
LEMMA Closed ==
  ASSUME TimersInv, ForceClose
  PROVE  WatchInv' /\ RtoInv' /\ HeartbeatInv' /\ left' \in Lefts /\ age' \in Ages
<1>1. /\ left'["rto"] = Off /\ left'["tick"] = Off /\ left'["heartbeat"] = Off
      /\ \A m \in Reliable : age'[m] = NoAge
      /\ left' \in Lefts /\ age' \in Ages
  BY DEF ForceClose, Timers, Lefts, Ages, Off, NoAge
<1>2. WatchInv'
  BY DEF ForceClose, WatchInv
<1>3. RtoInv'
  BY <1>1, ConnTimersAssumption DEF RtoInv, RtoTimerRuns, Empty, Off
<1>4. HeartbeatInv'
  BY <1>1, TimeoutBounds DEF ForceClose, HeartbeatInv, Off
<1>5. QED
  BY <1>1, <1>2, <1>3, <1>4

-----------------------------------------------------------------------------
(* Packets *)

\* What a packet finds of the timers: the watch begins anew, the tick timer may run.
LEMMA Arrives ==
  ASSUME TimersInv, NEW timers \in AfterPacket
  PROVE  /\ timers \in Lefts
         /\ timers["connection"] = IF WarnsFirst THEN Warning ELSE ConnectionTimeout
         /\ timers["rto"] = left["rto"] /\ timers["heartbeat"] = left["heartbeat"]
         /\ \/ timers["tick"] = left["tick"]
            \/ left["tick"] = Off /\ timers["tick"] = 1
<1> DEFINE reset == ResetConnectionTimer(left)
<1>1. left \in Lefts
  BY TypeFacts DEF TimersInv
<1>2. /\ reset \in Lefts
      /\ reset["connection"] = IF WarnsFirst THEN Warning ELSE ConnectionTimeout
      /\ reset["rto"] = left["rto"] /\ reset["tick"] = left["tick"]
      /\ reset["heartbeat"] = left["heartbeat"]
  BY <1>1, ConnectionReset
<1>3. timers = reset \/ timers = EnsureTickTimeout(reset)
  BY DEF AfterPacket
<1> HIDE DEF reset
<1>4. QED
  BY <1>2, <1>3, Ticked

\* Only a value that an RTT response gives, or the old one, is the RTO after a packet.
LEMMA PacketTypes ==
  ASSUME TimersInv, NEW base \in Rtos \cup {rto}, PacketResets(base)
  PROVE  /\ base \in Nat /\ rto' \in Nat /\ expCount' \in 0 .. MaxExp /\ silence' \in Nat
         /\ warned' \in BOOLEAN /\ warns' \in BOOLEAN
         /\ told' \in {"nothing", "lost", "regained"}
<1>1. base \in Nat /\ rto' = base /\ expCount' = 0 /\ silence' = 0
  BY TypeFacts, ConnTimersAssumption DEF TimersInv, PacketResets
<1>2. expCount' \in 0 .. MaxExp
  BY <1>1, ConnTimersAssumption
<1>3. warned' \in BOOLEAN /\ warns' \in BOOLEAN
  <2>1. WarnsFirst \in BOOLEAN
    BY DEF WarnsFirst
  <2>2. QED
    BY <2>1, Zenon DEF PacketResets
<1>4. told' \in {"nothing", "lost", "regained"}
  BY DEF PacketResets, Told, TimersInv, TypeOK
<1>5. QED
  BY <1>1, <1>2, <1>3, <1>4

LEMMA GotNothingStep ==
  ASSUME TimersInv, NEW base \in Rtos \cup {rto}, NEW timers \in AfterPacket,
         phase # "closed", PacketResets(base), GotNothing(timers)
  PROVE  TimersInv'
<1>1. /\ left' = timers
      /\ UNCHANGED <<phase, connectionOpen, rtoWhen, age, queued, wanted, bytes, sentData, quiet>>
  BY DEF GotNothing, sendVars
<1>2. left' \in Lefts /\ age' \in Ages
  BY <1>1, Arrives, TypeFacts DEF TimersInv
<1>3. TypeOK'
  BY <1>1, <1>2, PacketTypes DEF TimersInv, TypeOK, Lefts, Ages
<1>4. WatchInv'
  BY <1>1, phase # "closed", Arrives, WatchReset
<1>5. RtoInv'
  BY <1>1, <1>2, Arrives, RtoKept DEF TimersInv, RtoInv, RtoTimerRuns, Empty
<1>6. HeartbeatInv'
  BY <1>1, Arrives, HeartbeatKept
<1>7. QED
  BY <1>3, <1>4, <1>5, <1>6 DEF TimersInv

LEMMA GotDataStep ==
  ASSUME TimersInv, NEW base \in Rtos \cup {rto}, NEW timers \in AfterPacket,
         phase # "closed", PacketResets(base), GotData(timers)
  PROVE  TimersInv'
<1>1. /\ left' = EnsureTickTimeout(timers) /\ queued' = TRUE
      /\ UNCHANGED <<phase, connectionOpen, rtoWhen, age, wanted, bytes, sentData, quiet>>
  BY DEF GotData
<1>2. /\ timers \in Lefts
      /\ timers["connection"] = IF WarnsFirst THEN Warning ELSE ConnectionTimeout
      /\ timers["rto"] = left["rto"] /\ timers["heartbeat"] = left["heartbeat"]
      /\ timers["tick"] = left["tick"] \/ (left["tick"] = Off /\ timers["tick"] = 1)
  BY Arrives
<1>3. /\ left' \in Lefts /\ age' \in Ages /\ left'["connection"] = timers["connection"]
      /\ left'["rto"] = timers["rto"] /\ left'["heartbeat"] = timers["heartbeat"]
      /\ left'["tick"] = IF timers["tick"] = Off THEN 1 ELSE timers["tick"]
  BY <1>1, <1>2, Ticked, TypeFacts DEF TimersInv
<1>4. TypeOK'
  BY <1>1, <1>3, PacketTypes DEF TimersInv, TypeOK, Lefts, Ages
<1>5. WatchInv'
  BY <1>1, <1>2, <1>3, WatchReset
<1>6. RtoInv'
  BY <1>1, <1>2, <1>3, RtoKept DEF TimersInv, RtoInv, RtoTimerRuns, Empty
<1>7. HeartbeatInv'
  BY <1>1, <1>2, <1>3, HeartbeatKept
<1>8. QED
  BY <1>4, <1>5, <1>6, <1>7 DEF TimersInv

LEMMA GotRstStep ==
  ASSUME TimersInv, NEW base \in Rtos \cup {rto}, PacketResets(base), GotRst
  PROVE  TimersInv'
<1>1. WatchInv' /\ RtoInv' /\ HeartbeatInv' /\ left' \in Lefts /\ age' \in Ages
  BY Closed DEF GotRst
<1>2. TypeOK'
  <2>1. /\ phase' = "closed" /\ queued' = FALSE /\ wanted' = FALSE /\ bytes' = FALSE
        /\ sentData' = FALSE /\ rtoWhen' = 0 /\ quiet' = 0
        /\ connectionOpen' \in BOOLEAN
    BY Zenon DEF GotRst, ForceClose, TimersInv, TypeOK
  <2>2. rtoWhen' \in 0 .. MaxRto
    BY <2>1, ConnTimersAssumption
  <2>3. QED
    BY <1>1, <2>1, <2>2, PacketTypes DEF TypeOK, Lefts, Ages
<1>3. QED
  BY <1>1, <1>2 DEF TimersInv

LEMMA GotSynRstStep ==
  ASSUME TimersInv, NEW base \in Rtos \cup {rto}, NEW timers \in AfterPacket,
         PacketResets(base), GotSynRst(base, timers)
  PROVE  TimersInv'
<1> DEFINE buffer == Deregister(age, {"control"})
           first  == UpdateRtoTimer(timers, buffer, base, 0)
<1>1. /\ phase' = "open" /\ connectionOpen' = TRUE /\ age' = buffer
      /\ left' = Schedule(first, "heartbeat", Heartbeat)
      /\ sentData' = FALSE /\ quiet' = 0 /\ UNCHANGED <<rtoWhen, queued, wanted, bytes>>
  BY DEF GotSynRst, HeartbeatTimer
<1>2. /\ timers \in Lefts
      /\ timers["connection"] = IF WarnsFirst THEN Warning ELSE ConnectionTimeout
      /\ timers["rto"] = left["rto"]
      /\ timers["tick"] = left["tick"] \/ (left["tick"] = Off /\ timers["tick"] = 1)
  BY Arrives
<1>3. /\ left \in Lefts /\ age \in Ages /\ base \in Nat /\ 0 \in Nat /\ "control" \in Reliable
      /\ left["rto"] \in Int
  BY TypeFacts, PacketTypes DEF TimersInv, Reliable
<1>4. buffer \in Ages /\ \A m \in Reliable : buffer[m] \in {NoAge, age[m]}
  BY <1>3, Buffered
<1>5. Empty(age) => Empty(buffer)
  BY <1>3, Buffered
<1> HIDE DEF buffer
<1>6. /\ first \in Lefts
      /\ Empty(buffer) <=> first["rto"] = Off
      /\ ~Empty(buffer) => IF timers["rto"] = Off THEN first["rto"] \in 1 .. MaxRto
                                                  ELSE first["rto"] = timers["rto"]
      /\ first["connection"] = timers["connection"] /\ first["tick"] = timers["tick"]
  <2>1. timers \in Lefts /\ base \in Nat /\ 0 \in Nat
    BY <1>2, <1>3
  <2>2. RtoFollows(timers, buffer, first)
    BY <2>1, RtoUpdated
  <2> HIDE DEF first
  <2>3. QED
    BY <2>2 DEF RtoFollows
<1> HIDE DEF first
<1>7. /\ left' \in Lefts /\ left'["heartbeat"] = Heartbeat
      /\ left'["rto"] = first["rto"] /\ left'["tick"] = first["tick"]
      /\ left'["connection"] = first["connection"]
  BY <1>1, <1>6, HeartbeatReset
<1>8. TypeOK'
  BY <1>1, <1>4, <1>7, PacketTypes DEF TimersInv, TypeOK, Lefts, Ages
<1>9. WatchInv'
  BY <1>1, <1>2, <1>6, <1>7, WatchReset
<1>10. RtoInv'
  <2>1. \/ left'["rto"] = left["rto"]
        \/ left'["rto"] <= MaxRto /\ \A m \in Reliable : age'[m] \in {NoAge, 0}
    <3>1. CASE Empty(buffer)
      BY <1>1, <1>6, <1>7, <3>1, ConnTimersAssumption DEF Empty, Off
    <3>2. CASE ~Empty(buffer)
      <4>1. left["rto"] # Off
        BY <1>5, <3>2 DEF TimersInv, RtoInv, RtoTimerRuns
      <4>2. QED
        BY <1>2, <1>6, <1>7, <3>2, <4>1
    <3>3. QED
      BY <3>1, <3>2
  <2>2. Empty(age') <=> left'["rto"] = Off
    BY <1>1, <1>6, <1>7
  <2>3. age' \in Ages /\ \A m \in Reliable : age'[m] \in {NoAge, 0, age[m]}
    BY <1>1, <1>4
  <2>4. QED
    BY <1>7, <2>1, <2>2, <2>3, RtoKept
<1>11. HeartbeatInv'
  <2>1. /\ left'["tick"] \in Int /\ left'["tick"] <= 1 /\ left'["tick"] >= -1
        /\ Heartbeat \in Nat \ {0}
    BY <1>2, <1>6, <1>7, TypeFacts, TimeoutBounds DEF TimersInv, HeartbeatInv, Off
  <2>2. QED
    BY <1>1, <1>7, <2>1 DEF HeartbeatInv, LeavesInTime, Limit, Off
<1>12. QED
  BY <1>8, <1>9, <1>10, <1>11 DEF TimersInv

\* The RTO timer once messages have left the buffer.
LEMMA Acknowledged ==
  ASSUME TimersInv, NEW timers \in Lefts, timers["rto"] = left["rto"],
         NEW base \in Nat, NEW exp \in Nat, NEW messages
  PROVE  LET rest  == Deregister(age, messages)
             first == UpdateRtoTimer(timers, rest, base, exp)
         IN  /\ rest \in Ages /\ first \in Lefts
             /\ Empty(rest) <=> first["rto"] = Off
             /\ ~Empty(rest) => first["rto"] = left["rto"]
             /\ \A m \in Reliable : rest[m] \in {NoAge, age[m]}
             /\ first["connection"] = timers["connection"] /\ first["tick"] = timers["tick"]
             /\ first["heartbeat"] = timers["heartbeat"]
<1> DEFINE rest  == Deregister(age, messages)
           first == UpdateRtoTimer(timers, rest, base, exp)
<1>1. age \in Ages /\ "control" \in Reliable
  BY TypeFacts DEF TimersInv, Reliable
<1>2. /\ rest \in Ages /\ \A m \in Reliable : rest[m] \in {NoAge, age[m]}
      /\ Empty(age) => Empty(rest)
  BY <1>1, Buffered
<1> HIDE DEF rest
<1>3. /\ first \in Lefts
      /\ Empty(rest) <=> first["rto"] = Off
      /\ ~Empty(rest) => IF timers["rto"] = Off THEN first["rto"] \in 1 .. MaxRto
                                                ELSE first["rto"] = timers["rto"]
      /\ first["connection"] = timers["connection"] /\ first["tick"] = timers["tick"]
      /\ first["heartbeat"] = timers["heartbeat"]
  <2>1. RtoFollows(timers, rest, first)
    BY RtoUpdated
  <2> HIDE DEF first
  <2>2. QED
    BY <2>1 DEF RtoFollows
<1>4. ~Empty(rest) => left["rto"] # Off
  BY <1>2 DEF TimersInv, RtoInv, RtoTimerRuns
<1> HIDE DEF first
<1>5. /\ rest \in Ages /\ first \in Lefts
      /\ Empty(rest) <=> first["rto"] = Off
      /\ ~Empty(rest) => first["rto"] = left["rto"]
      /\ \A m \in Reliable : rest[m] \in {NoAge, age[m]}
      /\ first["connection"] = timers["connection"] /\ first["tick"] = timers["tick"]
      /\ first["heartbeat"] = timers["heartbeat"]
  BY <1>2, <1>3, <1>4
<1>6. QED
  BY <1>5 DEF first, rest

\* A message that is registered while the RTO timer is off, or runs for others.
Joins(l, a, m, buffer, r) ==
  /\ buffer \in Ages /\ r \in Lefts
  /\ ~Empty(buffer) /\ r["rto"] # Off
  /\ IF Empty(a) THEN r["rto"] \in 1 .. MaxRto ELSE r["rto"] = l["rto"]
  /\ buffer[m] = 0 /\ \A n \in Reliable \ {m} : buffer[n] = a[n]
  /\ r["connection"] = l["connection"] /\ r["heartbeat"] = l["heartbeat"]
  /\ r["tick"] = IF l["tick"] = Off THEN 1 ELSE l["tick"]

LEMMA Registered ==
  ASSUME NEW l \in Lefts, NEW a \in Ages, NEW m \in Reliable, NEW base \in Nat, NEW exp \in Nat,
         Empty(a) <=> l["rto"] = Off
  PROVE  Joins(l, a, m, Register(a, m),
               EnsureTickTimeout(UpdateRtoTimer(l, Register(a, m), base, exp)))
<1> DEFINE buffer == Register(a, m)
           u      == UpdateRtoTimer(l, buffer, base, exp)
           r      == EnsureTickTimeout(u)
<1>1. /\ buffer \in Ages /\ ~Empty(buffer)
      /\ buffer[m] = 0 /\ \A n \in Reliable \ {m} : buffer[n] = a[n]
  BY Buffered
<1> HIDE DEF buffer
<1>2. /\ u \in Lefts
      /\ u["rto"] # Off
      /\ IF Empty(a) THEN u["rto"] \in 1 .. MaxRto ELSE u["rto"] = l["rto"]
      /\ u["connection"] = l["connection"] /\ u["tick"] = l["tick"]
      /\ u["heartbeat"] = l["heartbeat"]
  <2>1. RtoFollows(l, buffer, u)
    BY <1>1, RtoUpdated
  <2> HIDE DEF u
  <2>2. QED
    BY <1>1, <2>1 DEF RtoFollows
<1> HIDE DEF u
<1>3. /\ r \in Lefts /\ r["rto"] = u["rto"] /\ r["connection"] = u["connection"]
      /\ r["heartbeat"] = u["heartbeat"]
      /\ r["tick"] = IF u["tick"] = Off THEN 1 ELSE u["tick"]
  BY <1>2, Ticked
<1> HIDE DEF r
<1>4. Joins(l, a, m, buffer, r)
  BY <1>1, <1>2, <1>3 DEF Joins
<1>5. QED
  BY <1>4 DEF r, u, buffer

\* The RTO that was in force when the timer was set stays within its limits.
LEMMA RtoWhenTyped ==
  ASSUME TimersInv, NEW buffer, NEW base \in Nat, NEW exp \in Nat
  PROVE  UpdateRtoWhen(buffer, base, exp) \in 0 .. MaxRto
<1>1. GetRto(base, exp) \in 0 .. MaxRto /\ rtoWhen \in 0 .. MaxRto
  BY RtoWithinLimits, ConnTimersAssumption DEF TimersInv, TypeOK
<1>2. QED
  BY <1>1 DEF UpdateRtoWhen

LEMMA GotAckStep ==
  ASSUME TimersInv, NEW base \in Rtos \cup {rto}, NEW timers \in AfterPacket,
         NEW messages, PacketResets(base), GotAck(base, timers, messages)
  PROVE  TimersInv'
<1> DEFINE rest   == Deregister(age, messages)
           closes == phase = "closing" /\ Empty(rest)
           first  == UpdateRtoTimer(timers, rest, base, 0)
           buffer == IF closes THEN Register(rest, "control") ELSE rest
<1>1. /\ age' = buffer
      /\ left' = IF closes THEN EnsureTickTimeout(UpdateRtoTimer(first, buffer, base, 0)) ELSE first
      /\ rtoWhen' = UpdateRtoWhen(buffer, base, 0)
      /\ IF closes THEN ControlPacketLeaves ELSE UNCHANGED <<bytes, sentData, quiet>>
      /\ UNCHANGED <<phase, connectionOpen, queued, wanted>> /\ phase' # "closed"
  BY DEF GotAck
<1>2. /\ timers \in Lefts
      /\ timers["connection"] = IF WarnsFirst THEN Warning ELSE ConnectionTimeout
      /\ timers["rto"] = left["rto"] /\ timers["heartbeat"] = left["heartbeat"]
      /\ timers["tick"] = left["tick"] \/ (left["tick"] = Off /\ timers["tick"] = 1)
  BY Arrives
<1>3. base \in Nat /\ 0 \in Nat /\ "control" \in Reliable
  BY PacketTypes DEF Reliable
<1>4. /\ rest \in Ages /\ first \in Lefts
      /\ Empty(rest) <=> first["rto"] = Off
      /\ ~Empty(rest) => first["rto"] = left["rto"]
      /\ \A m \in Reliable : rest[m] \in {NoAge, age[m]}
      /\ first["connection"] = timers["connection"] /\ first["tick"] = timers["tick"]
      /\ first["heartbeat"] = timers["heartbeat"]
  BY <1>2, <1>3, Acknowledged
<1>5. rtoWhen' \in 0 .. MaxRto
  BY <1>1, <1>3, RtoWhenTyped
<1> HIDE DEF rest, first
<1>6. CASE closes
  <2>1. age' = Register(rest, "control") /\ ControlPacketLeaves
        /\ left' = EnsureTickTimeout(UpdateRtoTimer(first, Register(rest, "control"), base, 0))
    BY <1>1, <1>6
  <2>2. /\ age' \in Ages /\ left' \in Lefts
        /\ ~Empty(age') /\ left'["rto"] # Off
        /\ left'["rto"] \in 1 .. MaxRto
        /\ age'["control"] = 0 /\ \A n \in Reliable \ {"control"} : age'[n] = rest[n]
        /\ left'["connection"] = first["connection"]
        /\ left'["heartbeat"] = first["heartbeat"]
        /\ left'["tick"] = IF first["tick"] = Off THEN 1 ELSE first["tick"]
    <3>1. /\ first \in Lefts /\ rest \in Ages /\ "control" \in Reliable /\ base \in Nat /\ 0 \in Nat
          /\ Empty(rest) <=> first["rto"] = Off
      BY <1>3, <1>4
    <3> DEFINE joined == Register(rest, "control")
               r == EnsureTickTimeout(UpdateRtoTimer(first, joined, base, 0))
    <3>2. Joins(first, rest, "control", joined, r)
      BY <3>1, Registered
    <3>3. age' = joined /\ left' = r
      BY <2>1
    <3> HIDE DEF joined, r
    <3>4. QED
      BY <1>6, <3>2, <3>3 DEF Joins
  <2>3. TypeOK'
    BY <1>1, <1>5, <2>1, <2>2, PacketTypes
       DEF TimersInv, TypeOK, Lefts, Ages, ControlPacketLeaves
  <2>4. \A m \in Reliable : age'[m] \in {NoAge, 0}
    BY <1>6, <2>2 DEF Empty
  <2>5. RtoInv'
    BY <2>2, <2>4, RtoKept
  <2>6. WatchInv'
    BY <1>1, <1>2, <1>4, <2>2, WatchReset
  <2>7. left'["tick"] \in 0 .. 1
    BY <1>2, <1>4, <2>2, TypeFacts DEF TimersInv, HeartbeatInv, Off
  <2>8. HeartbeatInv'
    BY <1>1, <1>2, <1>4, <2>1, <2>2, <2>7, HeartbeatLeaves
  <2>9. QED
    BY <2>3, <2>5, <2>6, <2>8 DEF TimersInv
<1>7. CASE ~closes
  <2>1. age' = rest /\ left' = first /\ UNCHANGED <<bytes, sentData, quiet>>
    BY <1>1, <1>7
  <2>2. TypeOK'
    BY <1>1, <1>4, <1>5, <2>1, PacketTypes DEF TimersInv, TypeOK, Lefts, Ages
  <2>3. \/ left'["rto"] = left["rto"]
        \/ left'["rto"] <= MaxRto /\ \A m \in Reliable : age'[m] \in {NoAge, 0}
    BY <1>4, <2>1, ConnTimersAssumption DEF Empty, Off
  <2>4. RtoInv'
    BY <1>4, <2>1, <2>3, RtoKept
  <2>5. WatchInv'
    BY <1>1, <1>2, <1>4, <2>1, WatchReset
  <2>6. HeartbeatInv'
    BY <1>1, <1>2, <1>4, <2>1, HeartbeatKept
  <2>7. QED
    BY <2>2, <2>4, <2>5, <2>6 DEF TimersInv
<1>8. QED
  BY <1>6, <1>7

-----------------------------------------------------------------------------
(* The application *)

\* Enqueueing starts the tick timer, and may send what waits.
LEMMA EnqueueHeartbeat ==
  ASSUME TimersInv, NEW flush, Enqueue(flush),
         left'["tick"] = IF left["tick"] = Off THEN 1 ELSE left["tick"],
         left'["heartbeat"] = left["heartbeat"]
  PROVE  HeartbeatInv'
<1>1. phase' = phase /\ wanted' = wanted
  BY DEF Enqueue
<1>2. left'["tick"] \in 0 .. 1
  BY TypeFacts DEF TimersInv, HeartbeatInv, Off
<1>3. CASE ControlPacketLeaves
  BY <1>1, <1>2, <1>3, HeartbeatLeaves
<1>4. CASE UNCHANGED <<bytes, sentData, quiet>>
  BY <1>1, <1>4, HeartbeatKept
<1>5. QED
  BY <1>3, <1>4 DEF Enqueue

LEMMA EnqueueTypes ==
  ASSUME TimersInv, NEW flush, Enqueue(flush), left' \in Lefts, age' \in Ages,
         rtoWhen' \in 0 .. MaxRto
  PROVE  TypeOK'
<1>1. /\ UNCHANGED <<phase, connectionOpen, warned, warns, told, rto, expCount, wanted, silence>>
      /\ queued' = TRUE
  BY DEF Enqueue, connVars, rtoVars
<1>2. bytes' \in BOOLEAN /\ sentData' \in BOOLEAN /\ quiet' \in Nat
  <2>1. CASE flush
    BY <2>1 DEF Enqueue, ControlPacketLeaves
  <2>2. CASE ~flush
    BY <2>2 DEF Enqueue, TimersInv, TypeOK
  <2>3. QED
    BY <2>1, <2>2
<1>3. QED
  BY <1>1, <1>2 DEF TimersInv, TypeOK, Lefts, Ages

LEMMA SendStep ==
  ASSUME TimersInv, NEW flush, Send(flush)
  PROVE  TimersInv'
<1>1. /\ Enqueue(flush) /\ left' = EnsureTickTimeout(left)
      /\ age' = age /\ rtoWhen' = rtoWhen /\ phase = "open" /\ phase' = "open"
      /\ UNCHANGED <<connectionOpen, warned, warns, silence>>
  BY DEF Send, Enqueue, connVars
<1>2. /\ left' \in Lefts /\ left'["connection"] = left["connection"]
      /\ left'["rto"] = left["rto"] /\ left'["heartbeat"] = left["heartbeat"]
      /\ left'["tick"] = IF left["tick"] = Off THEN 1 ELSE left["tick"]
  BY <1>1, Ticked, TypeFacts DEF TimersInv
<1>3. age' \in Ages /\ rtoWhen' \in 0 .. MaxRto
  BY <1>1, TypeFacts DEF TimersInv, TypeOK
<1>4. TypeOK'
  BY <1>1, <1>2, <1>3, EnqueueTypes
<1>5. WatchInv'
  BY <1>1, <1>2, WatchKept
<1>6. RtoInv'
  BY <1>1, <1>2, <1>3, RtoKept DEF TimersInv, RtoInv, RtoTimerRuns, Empty
<1>7. HeartbeatInv'
  BY <1>1, <1>2, EnqueueHeartbeat
<1>8. QED
  BY <1>4, <1>5, <1>6, <1>7 DEF TimersInv

LEMMA SendReliableStep ==
  ASSUME TimersInv, NEW m \in Data, NEW flush, SendReliable(m, flush)
  PROVE  TimersInv'
<1>1. /\ Enqueue(flush) /\ age' = Register(age, m)
      /\ rtoWhen' = UpdateRtoWhen(age', rto, expCount)
      /\ left' = EnsureTickTimeout(UpdateRtoTimer(left, age', rto, expCount))
      /\ phase = "open" /\ phase' = "open" /\ UNCHANGED <<connectionOpen, warned, warns, silence>>
  BY DEF SendReliable, Enqueue, connVars
<1>2. /\ left \in Lefts /\ age \in Ages /\ rto \in Nat /\ expCount \in Nat /\ m \in Reliable
      /\ Empty(age) <=> left["rto"] = Off
  BY TypeFacts DEF TimersInv, RtoInv, RtoTimerRuns, Reliable
<1>3. /\ age' \in Ages /\ left' \in Lefts
      /\ ~Empty(age') /\ left'["rto"] # Off
      /\ IF Empty(age) THEN left'["rto"] \in 1 .. MaxRto ELSE left'["rto"] = left["rto"]
      /\ age'[m] = 0 /\ \A n \in Reliable \ {m} : age'[n] = age[n]
      /\ left'["connection"] = left["connection"] /\ left'["heartbeat"] = left["heartbeat"]
      /\ left'["tick"] = IF left["tick"] = Off THEN 1 ELSE left["tick"]
  <2> DEFINE buffer == Register(age, m)
             r == EnsureTickTimeout(UpdateRtoTimer(left, buffer, rto, expCount))
  <2>1. Joins(left, age, m, buffer, r)
    BY <1>2, Registered
  <2>2. age' = buffer /\ left' = r
    BY <1>1
  <2> HIDE DEF buffer, r
  <2>3. QED
    BY <2>1, <2>2 DEF Joins
<1>4. rtoWhen' \in 0 .. MaxRto
  BY <1>1, <1>2, RtoWhenTyped
<1>5. TypeOK'
  BY <1>1, <1>3, <1>4, EnqueueTypes
<1>6. WatchInv'
  BY <1>1, <1>3, WatchKept
<1>7. RtoInv'
  <2>1. \A n \in Reliable : age'[n] \in {NoAge, 0, age[n]}
    BY <1>3
  <2>2. Empty(age) => \A n \in Reliable : age'[n] \in {NoAge, 0}
    BY <1>3 DEF Empty
  <2>3. Empty(age) => left'["rto"] <= MaxRto
    BY <1>3, ConnTimersAssumption
  <2>4. QED
    BY <1>3, <2>1, <2>2, <2>3, RtoKept
<1>8. HeartbeatInv'
  BY <1>1, <1>3, EnqueueHeartbeat
<1>9. QED
  BY <1>5, <1>6, <1>7, <1>8 DEF TimersInv

\* Closing empties the buffer of a SYN, and puts the RST into an empty one.
LEMMA CloseStep ==
  ASSUME TimersInv, Close
  PROVE  TimersInv'
<1> DEFINE rest   == IF phase = "opening" THEN Deregister(age, {"control"}) ELSE age
           first  == IF phase = "opening" THEN UpdateRtoTimer(left, rest, rto, expCount) ELSE left
           buffer == IF Empty(rest) THEN Register(rest, "control") ELSE rest
           timers == IF Empty(rest)
                     THEN EnsureTickTimeout(UpdateRtoTimer(first, buffer, rto, expCount)) ELSE first
<1>1. /\ phase \in {"opening", "open"} /\ phase' = "closing"
      /\ age' = buffer
      /\ left' = IF phase = "opening" THEN Schedule(timers, "heartbeat", Heartbeat) ELSE timers
      /\ rtoWhen' = IF Empty(rest) THEN UpdateRtoWhen(buffer, rto, expCount) ELSE rtoWhen
      /\ sentData' = ((sentData \/ Empty(rest)) /\ phase = "open")
      /\ bytes' = (bytes \/ Empty(rest))
      /\ quiet' = IF Empty(rest) THEN 0 ELSE quiet
      /\ UNCHANGED <<connectionOpen, warned, warns, told, rto, expCount, queued, wanted, silence>>
  BY DEF Close, HeartbeatTimer, connVars, rtoVars
<1>2. /\ left \in Lefts /\ age \in Ages /\ rto \in Nat /\ expCount \in Nat
      /\ rtoWhen \in 0 .. MaxRto /\ "control" \in Reliable
      /\ left["heartbeat"] <= Heartbeat
  BY TypeFacts DEF TimersInv, TypeOK, Reliable, HeartbeatInv
<1>3. /\ rest \in Ages /\ first \in Lefts
      /\ Empty(rest) <=> first["rto"] = Off
      /\ ~Empty(rest) => first["rto"] = left["rto"]
      /\ \A m \in Reliable : rest[m] \in {NoAge, age[m]}
      /\ first["connection"] = left["connection"] /\ first["tick"] = left["tick"]
      /\ first["heartbeat"] = left["heartbeat"]
  <2>1. CASE phase = "opening"
    BY <1>2, <2>1, Acknowledged
  <2>2. CASE phase # "opening"
    BY <1>2, <2>2 DEF TimersInv, RtoInv, RtoTimerRuns
  <2>3. QED
    BY <2>1, <2>2
<1> HIDE DEF rest, first
<1>4. /\ buffer \in Ages /\ timers \in Lefts
      /\ Empty(buffer) <=> timers["rto"] = Off
      /\ \A m \in Reliable : buffer[m] \in {NoAge, 0, age[m]}
      /\ \/ timers["rto"] = left["rto"]
         \/ timers["rto"] <= MaxRto /\ \A m \in Reliable : buffer[m] \in {NoAge, 0}
      /\ timers["connection"] = left["connection"] /\ timers["heartbeat"] = left["heartbeat"]
      /\ IF Empty(rest) THEN timers["tick"] \in 0 .. 1 ELSE timers["tick"] = left["tick"]
  <2>1. CASE Empty(rest)
    <3>1. buffer = Register(rest, "control")
          /\ timers = EnsureTickTimeout(UpdateRtoTimer(first, Register(rest, "control"), rto, expCount))
      BY <2>1
    <3>2. /\ buffer \in Ages /\ timers \in Lefts
          /\ ~Empty(buffer) /\ timers["rto"] # Off
          /\ timers["rto"] \in 1 .. MaxRto
          /\ buffer["control"] = 0 /\ \A n \in Reliable \ {"control"} : buffer[n] = rest[n]
          /\ timers["connection"] = first["connection"]
          /\ timers["heartbeat"] = first["heartbeat"]
          /\ timers["tick"] = IF first["tick"] = Off THEN 1 ELSE first["tick"]
      <4>1. Joins(first, rest, "control", Register(rest, "control"),
                  EnsureTickTimeout(UpdateRtoTimer(first, Register(rest, "control"), rto, expCount)))
        BY <1>2, <1>3, Registered
      <4>2. Joins(first, rest, "control", buffer, timers)
        BY <3>1, <4>1
      <4> HIDE DEF buffer, timers
      <4>3. QED
        BY <2>1, <4>2 DEF Joins
    <3>3. \A m \in Reliable : buffer[m] \in {NoAge, 0}
      BY <2>1, <3>2 DEF Empty
    <3>4. timers["tick"] \in 0 .. 1
      BY <1>3, <3>2, TypeFacts DEF TimersInv, HeartbeatInv, Off
    <3>5. timers["rto"] <= MaxRto
      BY <3>2, ConnTimersAssumption
    <3> HIDE DEF buffer, timers
    <3>6. QED
      BY <1>3, <2>1, <3>2, <3>3, <3>4, <3>5
  <2>2. CASE ~Empty(rest)
    BY <1>3, <2>2
  <2>3. QED
    BY <2>1, <2>2
<1>5. rtoWhen' \in 0 .. MaxRto
  BY <1>1, <1>2, RtoWhenTyped
<1> HIDE DEF buffer, timers
<1>6. /\ left' \in Lefts /\ left'["connection"] = timers["connection"]
      /\ left'["rto"] = timers["rto"] /\ left'["tick"] = timers["tick"]
      /\ left'["heartbeat"] \in {Heartbeat, left["heartbeat"]}
  <2>1. CASE phase = "opening"
    BY <1>1, <1>4, <2>1, HeartbeatReset
  <2>2. CASE phase # "opening"
    BY <1>1, <1>4, <2>2
  <2>3. QED
    BY <2>1, <2>2
<1>7. TypeOK'
  <2>1. sentData' \in BOOLEAN /\ bytes' \in BOOLEAN
    <3>1. Empty(rest) \in BOOLEAN
      BY DEF Empty
    <3>2. QED
      BY <1>1, <3>1, Zenon DEF TimersInv, TypeOK
  <2>2. quiet' \in Nat
    BY <1>1, TypeFacts DEF TimersInv
  <2>3. QED
    BY <1>1, <1>4, <1>5, <1>6, <2>1, <2>2 DEF TimersInv, TypeOK, Lefts, Ages
<1>8. WatchInv'
  BY <1>1, <1>4, <1>6, WatchKept
<1>9. RtoInv'
  BY <1>1, <1>4, <1>6, RtoKept
<1>10. HeartbeatInv'
  <2>1. left'["tick"] <= 1 /\ left'["heartbeat"] <= Heartbeat
    BY <1>2, <1>4, <1>6, TimeoutBounds DEF TimersInv, HeartbeatInv
  <2>2. sentData' => bytes' /\ left'["tick"] # Off
    <3>1. CASE Empty(rest)
      <4>1. bytes'
        BY <1>1, <3>1, Zenon
      <4>2. left'["tick"] # Off
        BY <1>4, <1>6, <3>1 DEF Off
      <4>3. QED
        BY <4>1, <4>2
    <3>2. CASE ~Empty(rest)
      BY <1>1, <1>4, <1>6, <3>2 DEF TimersInv, HeartbeatInv
    <3>3. QED
      BY <3>1, <3>2
  <2>3. QED
    BY <1>1, <2>1, <2>2 DEF HeartbeatInv
<1>11. QED
  BY <1>7, <1>8, <1>9, <1>10 DEF TimersInv

-----------------------------------------------------------------------------
(* Timers fire *)

\* A timer that is due belongs to a connection that is not closed.
LEMMA NoneIsDue ==
  ASSUME TimersInv, NEW timer \in Timers, Due(timer)
  PROVE  phase # "closed"
BY DEF TimersInv, WatchInv, Due, Off

\* What is left of the time-out after the warning.
LEMMA ConnectionWarningStep ==
  ASSUME TimersInv, ConnectionWarning
  PROVE  TimersInv'
<1>1. /\ left["connection"] = 0 /\ warns
      /\ warned' = TRUE /\ warns' = FALSE /\ told' = "lost"
      /\ left' = Schedule(left, "connection", ConnectionTimeout - Warning)
      /\ UNCHANGED <<phase, connectionOpen, rto, expCount, rtoWhen, age, silence>>
      /\ UNCHANGED <<queued, wanted, bytes, sentData, quiet>>
  BY DEF ConnectionWarning, Due, AfterWarning, rtoVars, sendVars
<1>2. /\ "connection" \in Timers /\ "rto" \in Timers /\ "tick" \in Timers
      /\ "heartbeat" \in Timers
  BY DEF Timers
<1>3. phase # "closed"
  BY <1>1, <1>2, NoneIsDue DEF Due
<1>4. /\ silence + left["connection"] = Warning /\ WarnsFirst
  BY <1>1, <1>3 DEF TimersInv, WatchInv
<1>5. ConnectionTimeout - Warning \in Nat /\ ConnectionTimeout \in Nat /\ Warning \in Nat
  BY <1>4, TimeoutBounds DEF WarnsFirst
<1> DEFINE after == ConnectionTimeout - Warning
<1>6. left \in Lefts /\ silence \in Nat /\ age \in Ages
  BY TypeFacts DEF TimersInv
<1>7. /\ left' \in Lefts /\ left'["connection"] = after
  BY <1>1, <1>2, <1>5, <1>6, Scheduled
<1>8. /\ left'["rto"] = left["rto"] /\ left'["tick"] = left["tick"]
      /\ left'["heartbeat"] = left["heartbeat"]
  BY <1>1, <1>2, <1>6, Unscheduled
<1>9. TypeOK'
  BY <1>1, <1>7 DEF TimersInv, TypeOK, Lefts
<1>10. WatchInv'
  <2>1. silence' = Warning /\ silence' + left'["connection"] = ConnectionTimeout
    BY <1>1, <1>4, <1>5, <1>6, <1>7
  <2>2. ConnectionTimeout' = ConnectionTimeout /\ left'["connection"] # Off
    BY <1>1, <1>5, <1>7 DEF ConnectionTimeout, Off
  <2>3. QED
    BY <1>1, <1>3, <2>1, <2>2 DEF WatchInv
<1>11. RtoInv'
  BY <1>1, <1>6, <1>7, <1>8, RtoKept DEF TimersInv, RtoInv, RtoTimerRuns, Empty
<1>12. HeartbeatInv'
  BY <1>1, <1>8, HeartbeatKept
<1>13. QED
  BY <1>9, <1>10, <1>11, <1>12 DEF TimersInv

LEMMA ConnectionTimesOutStep ==
  ASSUME TimersInv, ConnectionTimesOut
  PROVE  TimersInv'
<1>1. WatchInv' /\ RtoInv' /\ HeartbeatInv' /\ left' \in Lefts /\ age' \in Ages
  BY Closed DEF ConnectionTimesOut
<1>2. TypeOK'
  <2>1. /\ phase' = "closed" /\ queued' = FALSE /\ wanted' = FALSE /\ bytes' = FALSE
        /\ sentData' = FALSE /\ rtoWhen' = 0 /\ quiet' = 0
        /\ UNCHANGED <<connectionOpen, warned, warns, told, rto, expCount, silence>>
    BY DEF ConnectionTimesOut, ForceClose, connVars, rtoVars
  <2>2. rtoWhen' \in 0 .. MaxRto
    BY <2>1, ConnTimersAssumption
  <2>3. QED
    BY <1>1, <2>1, <2>2 DEF TimersInv, TypeOK, Lefts, Ages
<1>3. QED
  BY <1>1, <1>2 DEF TimersInv

\* The overdue messages are sent anew; the others are younger than the largest RTO, which
\* the timer that starts again adds to their age.
LEMMA RtoTimeoutStep ==
  ASSUME TimersInv, RtoTimeout
  PROVE  TimersInv'
<1> DEFINE buffer == [m \in Reliable |-> IF m \in Overdue THEN 0 ELSE age[m]]
           exp    == IF expCount < MaxExp THEN expCount + 1 ELSE MaxExp
           off    == Deschedule(left, "rto")
           timers == IF Overdue = {} THEN off ELSE EnsureTickTimeout(off)
<1>1. /\ left["rto"] = 0 /\ age' = buffer /\ expCount' = exp
      /\ left' = UpdateRtoTimer(timers, buffer, rto, exp)
      /\ rtoWhen' = UpdateRtoWhen(buffer, rto, exp)
      /\ queued' = (queued \/ Overdue \cap Data # {})
      /\ IF "control" \in Overdue THEN ControlPacketLeaves ELSE UNCHANGED <<bytes, sentData, quiet>>
      /\ UNCHANGED <<phase, connectionOpen, warned, warns, told, rto, wanted, silence>>
  BY DEF RtoTimeout, Due, connVars
<1>2. /\ "connection" \in Timers /\ "rto" \in Timers /\ "tick" \in Timers
      /\ "heartbeat" \in Timers
  BY DEF Timers
<1>3. /\ left \in Lefts /\ age \in Ages /\ rto \in Nat /\ rtoWhen \in Nat /\ rtoWhen <= MaxRto
      /\ expCount \in 0 .. MaxExp
  BY TypeFacts DEF TimersInv, TypeOK
<1>4. exp \in 0 .. MaxExp /\ exp \in Nat
  BY <1>3, ConnTimersAssumption
<1>5. phase # "closed"
  BY <1>1, <1>2, NoneIsDue DEF Due
<1>6. /\ off \in Lefts /\ off["rto"] = Off /\ off["connection"] = left["connection"]
      /\ off["tick"] = left["tick"] /\ off["heartbeat"] = left["heartbeat"]
  <2>1. /\ off \in Lefts /\ off["rto"] = Off
        /\ \A t \in Timers : t # "rto" => off[t] = left[t]
    BY <1>2, <1>3, Descheduled
  <2>2. QED
    BY <1>2, <2>1
<1> HIDE DEF off, exp
<1>7. /\ timers \in Lefts /\ timers["rto"] = Off
      /\ timers["connection"] = left["connection"]
      /\ timers["tick"] = IF left["tick"] = Off /\ Overdue # {} THEN 1 ELSE left["tick"]
      /\ timers["heartbeat"] = left["heartbeat"]
  <2>1. CASE Overdue = {}
    BY <1>6, <2>1
  <2>2. CASE Overdue # {}
    BY <1>6, <2>2, Ticked
  <2>3. QED
    BY <2>1, <2>2
<1>8. buffer \in Ages /\ \A m \in Reliable : buffer[m] = IF m \in Overdue THEN 0 ELSE age[m]
  BY <1>3 DEF Ages, NoAge
<1> HIDE DEF buffer, timers
<1>9. /\ left' \in Lefts
      /\ Empty(buffer) <=> left'["rto"] = Off
      /\ ~Empty(buffer) => left'["rto"] \in 1 .. MaxRto
      /\ left'["connection"] = left["connection"] /\ left'["tick"] = timers["tick"]
      /\ left'["heartbeat"] = left["heartbeat"]
  <2> DEFINE r == UpdateRtoTimer(timers, buffer, rto, exp)
  <2>1. timers \in Lefts /\ rto \in Nat /\ exp \in Nat
    BY <1>3, <1>4, <1>7
  <2>2. RtoFollows(timers, buffer, r)
    BY <2>1, RtoUpdated
  <2> HIDE DEF r
  <2>3. left' = r
    BY <1>1 DEF r
  <2>4. QED
    BY <1>7, <2>2, <2>3 DEF RtoFollows
<1>10. rtoWhen' \in 0 .. MaxRto
  BY <1>1, <1>3, <1>4, RtoWhenTyped
<1>11. TypeOK'
  <2>1. queued' \in BOOLEAN
    BY <1>1, Zenon DEF TimersInv, TypeOK
  <2>2. bytes' \in BOOLEAN /\ sentData' \in BOOLEAN /\ quiet' \in Nat
    <3>1. CASE "control" \in Overdue
      BY <1>1, <3>1 DEF ControlPacketLeaves
    <3>2. CASE "control" \notin Overdue
      BY <1>1, <3>2 DEF TimersInv, TypeOK
    <3>3. QED
      BY <3>1, <3>2
  <2>3. QED
    BY <1>1, <1>4, <1>8, <1>9, <1>10, <2>1, <2>2 DEF TimersInv, TypeOK, Lefts, Ages
<1>12. WatchInv'
  BY <1>1, <1>5, <1>9, WatchKept
<1>13. RtoInv'
  <2>1. RtoTimerRuns'
    BY <1>1, <1>9 DEF RtoTimerRuns
  <2>2. left'["rto"] \in Int /\ left'["rto"] <= MaxRto /\ MaxRto \in Nat
    BY <1>2, <1>9, ConnTimersAssumption DEF Lefts, Off
  <2>3. ASSUME NEW m \in Reliable, age'[m] # NoAge
        PROVE  age'[m] + left'["rto"] <= 2 * MaxRto
    <3>1. age'[m] <= MaxRto /\ age'[m] \in Int
      <4>1. CASE m \in Overdue
        BY <1>1, <1>8, <2>2, <4>1
      <4>2. CASE m \notin Overdue
        <5>1. age'[m] = age[m] /\ age[m] \in Int
          BY <1>1, <1>3, <1>8, <4>2 DEF Ages
        <5>2. ~(rtoWhen <= age[m])
          BY <2>3, <4>2, <5>1 DEF Overdue
        <5>3. QED
          BY <1>3, <2>2, <5>1, <5>2
      <4>3. QED
        BY <4>1, <4>2
    <3>2. QED
      BY <2>2, <3>1
  <2>4. QED
    BY <2>1, <2>2, <2>3 DEF RtoInv
<1>14. HeartbeatInv'
  <2>1. CASE "control" \in Overdue
    <3>1. ControlPacketLeaves /\ phase' = phase
      BY <1>1, <2>1
    <3>2. left'["tick"] \in 0 .. 1
      BY <1>7, <1>9, <2>1, TypeFacts DEF TimersInv, HeartbeatInv, Off
    <3>3. QED
      BY <1>9, <3>1, <3>2, HeartbeatLeaves
  <2>2. CASE "control" \notin Overdue
    BY <1>1, <1>7, <1>9, <2>2, HeartbeatKept
  <2>3. QED
    BY <2>1, <2>2
<1>15. QED
  BY <1>11, <1>12, <1>13, <1>14 DEF TimersInv

\* A tick sends data, or a heartbeat, or only clears the byte counter; in the last case
\* a turn of the heartbeat timer begins, and the next tick after it sends.
LEMMA TickTimeoutStep ==
  ASSUME TimersInv, NEW data \in BOOLEAN, NEW pair \in BOOLEAN, NEW rest \in BOOLEAN,
         TickTimeout(data, pair, rest)
  PROVE  TimersInv'
<1> DEFINE something == bytes \/ data \/ (wanted /\ ~bytes /\ ~data)
           off       == Deschedule(left, "tick")
<1>1. /\ left["tick"] = 0
      /\ UNCHANGED <<phase, connectionOpen, warned, warns, told, rto, expCount, rtoWhen, age, silence>>
  BY DEF TickTimeout, Due, connVars, rtoVars
<1>2. /\ ~data => ~bytes'
      /\ sentData' => sentData /\ ~something
      /\ data => quiet' = 0
      /\ wanted /\ ~bytes /\ phase = "open" => quiet' = 0
      /\ quiet' \in {0, quiet}
      /\ bytes \/ ~wanted => data \/ quiet' = quiet
      /\ something /\ phase # "opening" => left' = Schedule(off, "heartbeat", Heartbeat)
      /\ ~(something /\ phase # "opening") => left' = off
  BY Zenon DEF TickTimeout, HeartbeatTimer
<1>3. /\ queued' \in BOOLEAN /\ bytes' \in BOOLEAN /\ wanted' \in BOOLEAN
      /\ sentData' \in BOOLEAN
  BY Zenon DEF TickTimeout
<1>4. /\ "connection" \in Timers /\ "rto" \in Timers /\ "tick" \in Timers
      /\ "heartbeat" \in Timers
  BY DEF Timers
<1>5. phase # "closed"
  BY <1>1, <1>4, NoneIsDue DEF Due
<1>6. /\ left \in Lefts /\ age \in Ages /\ quiet \in Nat /\ Heartbeat \in Nat \ {0}
      /\ left["heartbeat"] <= Heartbeat
      /\ left["heartbeat"] \in Int /\ left["heartbeat"] >= -1
  BY TypeFacts, TimeoutBounds DEF TimersInv, HeartbeatInv, Off
<1>7. /\ off \in Lefts /\ off["tick"] = Off /\ off["connection"] = left["connection"]
      /\ off["rto"] = left["rto"] /\ off["heartbeat"] = left["heartbeat"]
  <2>1. /\ off \in Lefts /\ off["tick"] = Off
        /\ \A t \in Timers : t # "tick" => off[t] = left[t]
    BY <1>4, <1>6, Descheduled
  <2>2. QED
    BY <1>4, <2>1
<1> HIDE DEF off
<1>8. /\ left' \in Lefts /\ left'["tick"] = Off /\ left'["connection"] = left["connection"]
      /\ left'["rto"] = left["rto"]
      /\ left'["heartbeat"] = IF something /\ phase # "opening" THEN Heartbeat
                                                              ELSE left["heartbeat"]
  <2>1. CASE something /\ phase # "opening"
    <3>1. left' = Schedule(off, "heartbeat", Heartbeat)
      BY <1>2, <2>1
    <3>2. QED
      BY <1>7, <2>1, <3>1, HeartbeatReset
  <2>2. CASE ~(something /\ phase # "opening")
    <3>1. left' = off
      BY <1>2, <2>2
    <3>2. QED
      BY <1>7, <2>2, <3>1
  <2>3. QED
    BY <2>1, <2>2
<1>9. TypeOK'
  BY <1>1, <1>2, <1>3, <1>6, <1>8 DEF TimersInv, TypeOK, Lefts, Ages
<1>10. WatchInv'
  BY <1>1, <1>5, <1>8, WatchKept
<1>11. RtoInv'
  BY <1>1, <1>6, <1>8, RtoKept DEF TimersInv, RtoInv, RtoTimerRuns, Empty
<1>12. HeartbeatInv'
  <2>1. ~sentData'
    BY <1>2 DEF TimersInv, HeartbeatInv
  <2>2. left'["tick"] <= 1 /\ left'["heartbeat"] <= Heartbeat
    BY <1>6, <1>8 DEF Off
  <2>3. ASSUME phase = "open"
        PROVE  /\ left'["heartbeat"] # Off
               /\ LeavesInTime(left["tick"], left["heartbeat"])'
    <3>1. CASE data
      <4>1. left'["heartbeat"] = Heartbeat /\ quiet' = 0 /\ left'["tick"] = Off
        BY <1>2, <1>8, <2>3, <3>1
      <4>2. QED
        BY <1>6, <4>1 DEF LeavesInTime, Limit, Off
    <3>2. CASE ~data /\ bytes
      <4>1. /\ left'["heartbeat"] = Heartbeat /\ quiet' = quiet /\ left'["tick"] = Off
            /\ ~bytes'
        BY <1>2, <1>8, <2>3, <3>2
      <4>2. quiet + Heartbeat + 1 <= Limit
        BY <1>1, <1>6, <2>3, <3>2 DEF TimersInv, HeartbeatInv, LeavesInTime, Limit, Off
      <4>3. QED
        BY <1>6, <4>1, <4>2 DEF LeavesInTime, Limit, Off
    <3>3. CASE ~data /\ ~bytes /\ wanted
      <4>1. left'["heartbeat"] = Heartbeat /\ quiet' = 0 /\ left'["tick"] = Off /\ ~bytes'
        BY <1>2, <1>8, <2>3, <3>3
      <4>2. QED
        BY <1>6, <4>1 DEF LeavesInTime, Limit, Off
    <3>4. CASE ~data /\ ~bytes /\ ~wanted
      <4>1. /\ left'["heartbeat"] = left["heartbeat"] /\ quiet' = quiet
            /\ left'["tick"] = Off /\ ~bytes'
        BY <1>2, <1>8, <2>3, <3>4
      <4>2. quiet + left["heartbeat"] + 1 <= Limit /\ left["heartbeat"] # Off
        BY <2>3, <3>4 DEF TimersInv, HeartbeatInv, LeavesInTime
      <4>3. QED
        BY <4>1, <4>2 DEF LeavesInTime, Limit
    <3>5. QED
      BY <3>1, <3>2, <3>3, <3>4
  <2>4. QED
    BY <1>1, <2>1, <2>2, <2>3 DEF HeartbeatInv
<1>13. QED
  BY <1>9, <1>10, <1>11, <1>12 DEF TimersInv

\* The heartbeat timer starts the tick timer, unless something was sent: then it runs.
LEMMA HeartbeatTimeoutStep ==
  ASSUME TimersInv, HeartbeatTimeout
  PROVE  TimersInv'
<1>1. /\ left["heartbeat"] = 0
      /\ left' = Schedule(HeartbeatTicks, "heartbeat", Heartbeat)
      /\ sentData' = FALSE
      /\ UNCHANGED <<phase, connectionOpen, warned, warns, told, rto, expCount, rtoWhen, age>>
      /\ UNCHANGED <<queued, bytes, quiet, silence>>
  BY DEF HeartbeatTimeout, Due, HeartbeatTimer, connVars, rtoVars
<1>2. (wanted' <=> wanted \/ ~sentData) /\ wanted' \in BOOLEAN
  BY Zenon DEF HeartbeatTimeout
<1>3. /\ left \in Lefts /\ age \in Ages /\ quiet \in Nat /\ Heartbeat \in Nat \ {0}
      /\ left["tick"] \in Int /\ left["tick"] >= -1 /\ left["tick"] <= 1
  BY TypeFacts, TimeoutBounds DEF TimersInv, HeartbeatInv, Off
<1>4. phase # "closed"
  BY <1>1, NoneIsDue DEF Due, Timers
<1> DEFINE ticks == HeartbeatTicks
<1>5. /\ ticks \in Lefts /\ ticks["connection"] = left["connection"]
      /\ ticks["rto"] = left["rto"]
      /\ ticks["tick"] = IF ~sentData /\ left["tick"] = Off THEN 1 ELSE left["tick"]
  BY <1>3, Ticked DEF HeartbeatTicks
<1> HIDE DEF ticks
<1>6. /\ left' \in Lefts /\ left'["heartbeat"] = Heartbeat
      /\ left'["connection"] = left["connection"] /\ left'["rto"] = left["rto"]
      /\ left'["tick"] = ticks["tick"]
  <2>1. left' = Schedule(ticks, "heartbeat", Heartbeat)
    BY <1>1 DEF ticks
  <2>2. QED
    BY <1>5, <2>1, HeartbeatReset
<1>7. TypeOK'
  BY <1>1, <1>2, <1>6 DEF TimersInv, TypeOK, Lefts
<1>8. WatchInv'
  BY <1>1, <1>4, <1>6, WatchKept
<1>9. RtoInv'
  BY <1>1, <1>3, <1>6, RtoKept DEF TimersInv, RtoInv, RtoTimerRuns, Empty
<1>10. HeartbeatInv'
  <2>1. left'["tick"] \in 0 .. 1
    BY <1>3, <1>5, <1>6 DEF TimersInv, HeartbeatInv, Off
  <2>2. ASSUME phase = "open"
        PROVE  LeavesInTime(left["tick"], left["heartbeat"])'
    <3>1. CASE bytes
      <4>1. bytes' = bytes /\ quiet' = quiet /\ left'["tick"] # Off
        BY <1>1, <2>1 DEF Off
      <4>2. CASE left["tick"] = Off
        <5>1. quiet + 0 + Heartbeat + 2 <= Limit /\ left'["tick"] <= 1
          BY <1>1, <2>1, <2>2, <3>1, <4>2 DEF TimersInv, HeartbeatInv, LeavesInTime
        <5>2. quiet + left'["tick"] + Heartbeat + 1 <= Limit
          BY <1>3, <2>1, <5>1 DEF Limit
        <5>3. QED
          BY <3>1, <4>1, <5>2 DEF LeavesInTime, Limit
      <4>3. CASE left["tick"] # Off
        <5>1. quiet + left["tick"] + Heartbeat + 1 <= Limit /\ left'["tick"] = left["tick"]
          BY <1>5, <1>6, <2>2, <3>1, <4>3 DEF TimersInv, HeartbeatInv, LeavesInTime
        <5>2. QED
          BY <3>1, <4>1, <5>1 DEF LeavesInTime, Limit
      <4>4. QED
        BY <4>2, <4>3
    <3>2. CASE ~bytes
      <4>1. ~sentData /\ wanted' /\ ~bytes' /\ quiet' = quiet /\ left'["tick"] # Off
        BY <1>1, <1>2, <2>1, <3>2 DEF TimersInv, HeartbeatInv, Off
      <4>2. quiet + left'["tick"] <= Limit
        <5>1. CASE quiet + left["heartbeat"] + 1 <= Limit
          BY <1>1, <1>3, <2>1, <5>1 DEF Limit
        <5>2. CASE left["tick"] # Off /\ quiet + left["tick"] <= Limit
          BY <1>5, <1>6, <5>2
        <5>3. QED
          BY <2>2, <3>2, <5>1, <5>2 DEF TimersInv, HeartbeatInv, LeavesInTime
      <4>3. QED
        BY <4>1, <4>2 DEF LeavesInTime, Limit
    <3>3. QED
      BY <3>1, <3>2
  <2>3. QED
    BY <1>1, <1>3, <1>6, <2>1, <2>2 DEF HeartbeatInv, Off
<1>11. QED
  BY <1>7, <1>8, <1>9, <1>10 DEF TimersInv

-----------------------------------------------------------------------------
(* Time passes *)

LEMMA PassStep ==
  ASSUME TimersInv, Pass
  PROVE  TimersInv'
<1>1. /\ phase # "closed" /\ \A t \in Timers : left[t] # 0
      /\ left' = [t \in Timers |-> IF left[t] = Off THEN Off ELSE left[t] - 1]
      /\ age' = [m \in Reliable |-> IF age[m] = NoAge THEN NoAge ELSE age[m] + 1]
      /\ silence' = IF silence < MaxSilence THEN silence + 1 ELSE silence
      /\ quiet' = IF phase = "open" THEN quiet + 1 ELSE quiet
      /\ UNCHANGED <<phase, connectionOpen, warned, warns, told, rto, expCount, rtoWhen>>
      /\ UNCHANGED <<queued, wanted, bytes, sentData>>
  BY DEF Pass, Due, connVars, rtoVars
<1>2. /\ "connection" \in Timers /\ "rto" \in Timers /\ "tick" \in Timers
      /\ "heartbeat" \in Timers
  BY DEF Timers
<1>3. /\ left \in Lefts /\ age \in Ages /\ silence \in Nat /\ quiet \in Nat
      /\ Heartbeat \in Nat \ {0} /\ MaxRto \in Nat
  BY TypeFacts, TimeoutBounds, ConnTimersAssumption DEF TimersInv
<1>4. /\ left' \in Lefts
      /\ \A t \in Timers : /\ left[t] = Off => left'[t] = Off
                           /\ left[t] # Off => left[t] \in Nat \ {0} /\ left'[t] = left[t] - 1
  BY <1>1, <1>3 DEF Lefts, Off
<1>5. /\ age' \in Ages
      /\ \A m \in Reliable : /\ age[m] = NoAge => age'[m] = NoAge
                             /\ age[m] # NoAge => age[m] \in Nat /\ age'[m] = age[m] + 1
  BY <1>1, <1>3 DEF Ages, NoAge
<1>6. TypeOK'
  BY <1>1, <1>3, <1>4, <1>5, TimeoutBounds DEF TimersInv, TypeOK, Lefts, Ages
<1>7. WatchInv'
  <2> DEFINE l == left["connection"]
  <2>1. l \in Nat \ {0} /\ left'["connection"] = l - 1
    BY <1>1, <1>2, <1>4 DEF TimersInv, WatchInv
  <2>2. silence + l \in {Warning, ConnectionTimeout, InitialTimeout}
    BY <1>1 DEF TimersInv, WatchInv
  <2>3. silence < MaxSilence
    BY <1>3, <2>1, <2>2, TimeoutBounds
  <2>4. silence' + left'["connection"] = silence + l /\ left'["connection"] # Off
    BY <1>1, <1>3, <2>1, <2>3 DEF Off
  <2>5. ConnectionTimeout' = ConnectionTimeout /\ (WarnsFirst' <=> WarnsFirst)
    BY <1>1 DEF ConnectionTimeout, WarnsFirst
  <2>6. QED
    BY <1>1, <2>4, <2>5 DEF TimersInv, WatchInv
<1>8. RtoInv'
  <2>1. RtoTimerRuns'
    <3>1. Empty(age') <=> Empty(age)
      BY <1>5 DEF Empty, NoAge
    <3>2. left'["rto"] = Off <=> left["rto"] = Off
      BY <1>2, <1>4 DEF Off
    <3>3. QED
      BY <3>1, <3>2 DEF TimersInv, RtoInv, RtoTimerRuns
  <2>2. left'["rto"] <= MaxRto
    BY <1>2, <1>3, <1>4 DEF TimersInv, RtoInv, Off
  <2>3. ASSUME NEW m \in Reliable, age'[m] # NoAge
        PROVE  age'[m] + left'["rto"] <= 2 * MaxRto
    <3>1. age[m] \in Nat /\ age[m] # NoAge /\ age'[m] = age[m] + 1
      BY <1>5, <2>3
    <3>2. left["rto"] # Off
      BY <3>1 DEF TimersInv, RtoInv, RtoTimerRuns, Empty
    <3>3. left["rto"] \in Nat /\ left'["rto"] = left["rto"] - 1
      BY <1>2, <1>4, <3>2
    <3>4. age[m] + left["rto"] <= 2 * MaxRto
      BY <3>1 DEF TimersInv, RtoInv
    <3>5. QED
      BY <3>1, <3>3, <3>4
  <2>4. QED
    BY <2>1, <2>2, <2>3 DEF RtoInv
<1>9. HeartbeatInv'
  <2>1. /\ left["tick"] = Off => left'["tick"] = Off
        /\ left["tick"] # Off => left["tick"] \in Nat \ {0} /\ left'["tick"] = left["tick"] - 1
        /\ left["heartbeat"] = Off => left'["heartbeat"] = Off
        /\ left["heartbeat"] # Off =>
             left["heartbeat"] \in Nat \ {0} /\ left'["heartbeat"] = left["heartbeat"] - 1
    BY <1>2, <1>4
  <2>2. left'["tick"] <= 1 /\ left'["heartbeat"] <= Heartbeat
    BY <1>3, <2>1 DEF TimersInv, HeartbeatInv, Off
  <2>3. sentData' => bytes' /\ left'["tick"] # Off
    BY <1>1, <2>1 DEF TimersInv, HeartbeatInv, Off
  <2>4. ASSUME phase = "open"
        PROVE  /\ left'["heartbeat"] = Off => bytes' /\ left'["tick"] # Off
               /\ LeavesInTime(left["tick"], left["heartbeat"])'
    <3>1. quiet' = quiet + 1
      BY <1>1, <2>4
    <3>2. left'["heartbeat"] = Off => bytes' /\ left'["tick"] # Off
      BY <1>1, <2>1, <2>4 DEF TimersInv, HeartbeatInv, Off
    <3>3. left["heartbeat"] = Off => bytes /\ left["tick"] # Off
      BY <2>4 DEF TimersInv, HeartbeatInv
    <3>4. LeavesInTime(left["tick"], left["heartbeat"])
      BY <2>4 DEF TimersInv, HeartbeatInv
    <3>5. LeavesInTime(left["tick"], left["heartbeat"])'
      BY <1>1, <1>3, <2>1, <3>1, <3>3, <3>4 DEF LeavesInTime, Limit, Off
    <3>6. QED
      BY <3>2, <3>5
  <2>5. QED
    BY <1>1, <2>2, <2>3, <2>4 DEF HeartbeatInv
<1>10. QED
  BY <1>6, <1>7, <1>8, <1>9 DEF TimersInv

-----------------------------------------------------------------------------
(* The invariant *)

LEMMA InitTimers == Init => TimersInv
<1> SUFFICES ASSUME Init PROVE TimersInv
  OBVIOUS
<1>1. /\ phase \in {"opening", "open"} /\ connectionOpen = (phase = "open")
      /\ age = [m \in Reliable |-> IF m = "control" /\ phase = "opening" THEN 0 ELSE NoAge]
      /\ warns = (Warning < InitialTimeout) /\ warned = FALSE /\ told = "nothing"
      /\ rto = InitRto /\ expCount = 0
      /\ rtoWhen = IF phase = "opening" THEN GetRto(InitRto, 0) ELSE 0
      /\ queued = FALSE /\ wanted = FALSE /\ bytes = TRUE /\ sentData = TRUE
      /\ silence = 0 /\ quiet = 0
  BY DEF Init
<1>2. /\ left \in [Timers -> {left[t] : t \in Timers}]
      /\ left["connection"] = IF warns THEN Warning ELSE InitialTimeout
      /\ left["rto"] = IF phase = "opening" THEN rtoWhen ELSE Off
      /\ left["tick"] = 1 /\ left["heartbeat"] = Off
  BY DEF Init, Timers
<1>3. rtoWhen \in 0 .. MaxRto /\ (phase = "opening" => rtoWhen \in 1 .. MaxRto)
  BY <1>1, RtoWithinLimits, ConnTimersAssumption
<1>4. left \in Lefts
  BY <1>2, <1>3, ConnTimersAssumption DEF Lefts, Timers, Off
<1>5. age \in Ages /\ "control" \in Reliable
  BY <1>1 DEF Ages, NoAge, Reliable
<1>6. TypeOK
  <2>1. connectionOpen \in BOOLEAN /\ warns \in BOOLEAN
    <3>1. (phase = "open") \in BOOLEAN /\ (Warning < InitialTimeout) \in BOOLEAN
      OBVIOUS
    <3>2. QED
      BY <1>1, <3>1, Zenon
  <2>2. rto \in Nat /\ expCount \in 0 .. MaxExp
    BY <1>1, ConnTimersAssumption
  <2>3. QED
    BY <1>1, <1>3, <1>4, <1>5, <2>1, <2>2 DEF TypeOK, Lefts, Ages
<1>7. WatchInv
  <2>1. warns <=> Warning < InitialTimeout
    BY <1>1, Zenon
  <2>2. warns => WarnsFirst
    BY <2>1, ConnTimersAssumption DEF WarnsFirst, ConnectionTimeout
  <2>3. QED
    BY <1>1, <1>2, <2>2, ConnTimersAssumption DEF WatchInv, Off
<1>8. RtoInv
  <2>1. CASE phase = "opening"
    BY <1>1, <1>2, <1>3, <1>5, <2>1, ConnTimersAssumption
       DEF RtoInv, RtoTimerRuns, Empty, NoAge, Off
  <2>2. CASE phase # "opening"
    BY <1>1, <1>2, <2>2, ConnTimersAssumption DEF RtoInv, RtoTimerRuns, Empty, NoAge, Off
  <2>3. QED
    BY <2>1, <2>2
<1>9. HeartbeatInv
  BY <1>1, <1>2, TimeoutBounds DEF HeartbeatInv, LeavesInTime, Limit, Off
<1>10. QED
  BY <1>6, <1>7, <1>8, <1>9 DEF TimersInv

LEMMA StepTimers == TimersInv /\ [Next]_vars => TimersInv'
<1> SUFFICES ASSUME TimersInv, [Next]_vars PROVE TimersInv'
  OBVIOUS
<1>1. ASSUME NEW base \in Rtos \cup {rto}, NEW timers \in AfterPacket, GotPacket(base, timers)
      PROVE  TimersInv'
  <2>1. phase # "closed" /\ PacketResets(base)
    BY <1>1 DEF GotPacket
  <2>2. \/ GotNothing(timers) \/ GotData(timers)
        \/ \E messages \in SUBSET Data : GotAck(base, timers, messages)
        \/ GotSynRst(base, timers) \/ GotRst
    BY <1>1 DEF GotPacket
  <2>3. QED
    BY <2>1, <2>2, GotNothingStep, GotDataStep, GotAckStep, GotSynRstStep, GotRstStep
<1>2. ASSUME TimerFires PROVE TimersInv'
  BY <1>2, ConnectionWarningStep, ConnectionTimesOutStep, RtoTimeoutStep, TickTimeoutStep,
     HeartbeatTimeoutStep DEF TimerFires
<1>3. CASE UNCHANGED vars
  BY <1>3 DEF vars, connVars, rtoVars, sendVars, TimersInv, TypeOK, WatchInv, WarnsFirst,
              ConnectionTimeout, RtoInv, RtoTimerRuns, Empty, HeartbeatInv, LeavesInTime
<1>4. QED
  BY <1>1, <1>2, <1>3, SendStep, SendReliableStep, CloseStep, PassStep DEF Next

\* The inductive invariant holds in every state.
THEOREM TimersInvariant == Spec => []TimersInv
BY InitTimers, StepTimers, PTL DEF Spec

-----------------------------------------------------------------------------
(* What it is for *)

\* resetConnectionTimeout and connectionTimeoutCallback: however packets, the SYN-RST and
\* the other timers interleave, the application is warned of a silence in time.
THEOREM SilenceWarned == Spec => []SilenceIsWarned
<1>1. TimersInv => SilenceIsWarned
  <2> SUFFICES ASSUME TimersInv, phase # "closed", warns PROVE silence <= Warning
    BY DEF SilenceIsWarned
  <2>1. silence + left["connection"] = Warning /\ left["connection"] # Off
    BY DEF TimersInv, WatchInv
  <2>2. QED
    BY <2>1, TypeFacts, TimeoutBounds DEF TimersInv, Off
<1>2. QED
  BY <1>1, TimersInvariant, PTL

\* connectionTimeoutCallback gives a connection up only after a whole time-out without a
\* packet, also when the time-out changed while it was watched.
THEOREM OnlySilenceEnds == Spec => OnlySilenceTimesOut
<1>1. ASSUME TimersInv, ConnectionTimesOut
      PROVE  silence >= IF warned THEN ConnectionTimeout ELSE Shorter
  <2>1. left["connection"] = 0 /\ ~warns
    BY <1>1 DEF ConnectionTimesOut, Due
  <2>2. phase # "closed"
    BY <1>1, <2>1, NoneIsDue DEF Due, Timers
  <2>3. silence = IF warned THEN ConnectionTimeout ELSE InitialTimeout
    BY <1>1, <2>1, <2>2, TypeFacts DEF TimersInv, WatchInv
  <2>4. QED
    BY <2>3, TimeoutBounds
<1>2. TimersInv /\ [Next]_vars =>
        [ConnectionTimesOut => silence >= IF warned THEN ConnectionTimeout ELSE Shorter]_vars
  BY <1>1
<1>3. QED
  BY <1>2, TimersInvariant, PTL DEF Spec, OnlySilenceTimesOut

\* rtoTimeoutCallback: through every order of acknowledgements, retransmissions, back-offs
\* and closing, the RTO timer runs while a message waits, and resends it in time.
THEOREM ResentWithinTwoRtos == Spec => []ResentInTime
<1>1. TimersInv => ResentInTime
  <2> SUFFICES ASSUME TimersInv, NEW m \in Reliable PROVE age[m] <= 2 * MaxRto
    BY DEF ResentInTime, TimersInv, RtoInv
  <2>1. age[m] \in Int /\ age[m] >= -1 /\ MaxRto \in Nat
    BY TypeFacts, ConnTimersAssumption DEF TimersInv, Ages, NoAge
  <2>2. CASE age[m] = NoAge
    BY <2>1, <2>2 DEF NoAge
  <2>3. CASE age[m] # NoAge
    <3>1. left["rto"] # Off /\ age[m] + left["rto"] <= 2 * MaxRto
      BY <2>3 DEF TimersInv, RtoInv, RtoTimerRuns, Empty
    <3>2. QED
      BY <2>1, <3>1, TypeFacts DEF TimersInv, Off
  <2>4. QED
    BY <2>2, <2>3
<1>2. QED
  BY <1>1, TimersInvariant, PTL

\* tickTimeoutCallback and heartbeatTimeoutCallback: whatever is flushed between ticks,
\* an open connection is not quiet for longer than two heartbeats and two ticks.
THEOREM NeverQuietForLong == Spec => []NeverQuiet
<1>1. TimersInv => NeverQuiet
  <2> SUFFICES ASSUME TimersInv, phase = "open" PROVE quiet <= Limit
    BY DEF NeverQuiet, Limit
  <2>1. /\ LeavesInTime(left["tick"], left["heartbeat"])
        /\ left["heartbeat"] = Off => bytes /\ left["tick"] # Off
    BY DEF TimersInv, HeartbeatInv
  <2>2. QED
    BY <2>1, TypeFacts, TimeoutBounds DEF TimersInv, LeavesInTime, Limit, Off
<1>2. QED
  BY <1>1, TimersInvariant, PTL
=============================================================================
