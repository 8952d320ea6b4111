------------------------------ MODULE SendQueue ------------------------------
(***************************************************************************)
(* EmiSendQueue of an open connection, with the two timers of              *)
(* EmiConnTimers that make it send: messages wait in one queue for each    *)
(* priority, acknowledgements in a map with one entry for each channel; a  *)
(* tick, or a queue that grows too long, fills packets with them, within a *)
(* budget of bytes for the last ticks.  Of a packet's header only the size *)
(* matters here.  Retransmissions are messages like any other.             *)
(***************************************************************************)
EXTENDS Integers, SequencesExt, FiniteSetsExt

CONSTANTS
  Lowest,         \* EMI_NUMBER_OF_PRIORITIES - 1; priority 0 is immediate
  Kinds,          \* the messages to look at: [priority, channel, size]
  HeaderSize,     \* size of a packet header
  AckSize,        \* size of an acknowledgement
  ControlSize,    \* size of a control message's packet
  Mtu,            \* _bufLength
  Ticks,          \* number of ticks the byte counter looks back, 100 in the code
  Allowances,     \* what EmiCongestionControl::tickAllowance may return
  PairInterval,   \* EMI_PACKET_PAIR_INTERVAL
  AckSns,         \* bound: numbers that acknowledgements have
  MaxMessages,    \* bound: messages enqueued in a behaviour
  MaxAcks         \* bound: acknowledgements enqueued in a behaviour

Priorities == 0 .. Lowest
Channels   == {kind.channel : kind \in Kinds}

ASSUME SendQueueAssumption ==
  /\ Lowest \in Nat
  /\ Kinds \subseteq [priority : Priorities, channel : Nat, size : Nat \ {0}]
  /\ HeaderSize \in Nat \ {0} /\ AckSize \in Nat \ {0} /\ ControlSize \in Nat \ {0}
  /\ Mtu \in Nat /\ \A kind \in Kinds : HeaderSize + kind.size + AckSize <= Mtu
  /\ Ticks \in Nat \ {0} /\ Allowances \subseteq Nat /\ AckSns \subseteq Nat
  /\ PairInterval \in Nat \ {0} /\ MaxMessages \in Nat /\ MaxAcks \in Nat

VARIABLES
  queues,       \* _queue: the messages of each priority, oldest first
  acks,         \* _acks: the number to acknowledge, by channel
  acked,        \* _acksSentInThisTick
  number,       \* _packetSequenceNumber, modulo PairInterval
  window,       \* _bytesSentCounter: bytes of the last ticks, newest first
  wanted,       \* _enqueueHeartbeat
  tickTimer,    \* the tick timer is scheduled
  sentData,     \* _sentDataSinceLastHeartbeat
  enqueued,     \* number of messages enqueued so far (history)
  acksEnqueued, \* number of acknowledgements enqueued so far (history)
  packets,      \* what the last step sent (history)
  lastSent,     \* number of the last message of each priority sent (history)
  sentCount,    \* number of messages sent (history)
  ackCount      \* acknowledgements sent for each channel since the tick (history)

\* What filling and sending packets changes, as one record.
state == [queues |-> queues, acks |-> acks, acked |-> acked, number |-> number,
          window |-> window, lastSent |-> lastSent, sentCount |-> sentCount,
          ackCount |-> ackCount, packets |-> <<>>, size |-> 0, done |-> FALSE]

SetState(s) ==
  /\ queues' = s.queues /\ acks' = s.acks /\ acked' = s.acked /\ number' = s.number
  /\ window' = s.window /\ lastSent' = s.lastSent /\ sentCount' = s.sentCount
  /\ ackCount' = s.ackCount /\ packets' = s.packets

vars == <<queues, acks, acked, number, window, lastSent, sentCount, ackCount,
          packets, wanted, tickTimer, sentData, enqueued, acksEnqueued>>

Init ==
  /\ queues = [p \in Priorities |-> <<>>] /\ acks = [c \in {} |-> 0] /\ acked = {}
  /\ number \in 0 .. PairInterval - 1
  /\ window = [t \in 1 .. Ticks |-> 0]
  /\ wanted = FALSE /\ tickTimer = FALSE /\ sentData = FALSE
  /\ enqueued = 0 /\ acksEnqueued = 0 /\ packets = <<>>
  /\ lastSent = [p \in Priorities |-> 0] /\ sentCount = 0
  /\ ackCount = [c \in Channels |-> 0]

SumOf(s) == FoldSeq(LAMBDA a, b : a + b, 0, s)

\* SendQueue::sizeInBytes, and the number of messages in it
QueueSize(q) ==
  MapThenSumSet(LAMBDA p : SumOf([i \in DOMAIN q[p] |-> q[p][i].size]), Priorities)

Queued(q) == MapThenSumSet(LAMBDA p : Len(q[p]), Priorities)

-----------------------------------------------------------------------------
(* SendQueue::iterator: which message comes next *)

\* taken[p] messages of priority p were taken from the queues q so far.
Waiting(q, taken) == {p \in Priorities : taken[p] < Len(q[p])}

\* More than twice as many messages of this priority were taken as of the next
\* lower one.  The mutant never lets the lower one through before all others.
YieldsNever(taken, p) == FALSE
Yields(taken, p) == p < Lowest /\ taken[p] > taken[p + 1] * 2 + 1

\* currentPriority(): the highest priority that need not let lower ones through,
\* or else the last one that should have.
CurrentPriority(q, taken) ==
  LET eager == {p \in Waiting(q, taken) : ~Yields(taken, p)}
  IN  IF eager # {} THEN Min(eager) ELSE Max(Waiting(q, taken))

-----------------------------------------------------------------------------
(* Packets *)

ChannelsOf(messages) == {messages[i].channel : i \in DOMAIN messages}

\* The acknowledgements that messages carry, the first one of each channel:
\* those of channels that had none since the tick.  The mutant forgets that.
CarriedAlways(s, messages) == DOMAIN s.acks \cap ChannelsOf(messages)
Carried(s, messages) == (DOMAIN s.acks \ s.acked) \cap ChannelsOf(messages)

\* Size of a packet with these messages.
PacketSize(s, messages) ==
  HeaderSize + SumOf([i \in DOMAIN messages |-> messages[i].size])
             + AckSize * Cardinality(Carried(s, messages))

\* The message loop of fillPacket: messages are taken until one does not fit,
\* and that one counts as taken as well.  The mutant looks at the size of the
\* packet without the message.
FitsBefore(s, messages, message, limit) == PacketSize(s, messages) <= limit
Fits(s, messages, message, limit) == PacketSize(s, Append(messages, message)) <= limit

TakeMessage(s, limit, before) ==
  LET p == CurrentPriority(s.queues, before.taken)
      message == s.queues[p][before.taken[p] + 1]
  IN  IF before.full THEN before
      ELSE IF Fits(s, before.messages, message, limit)
      THEN [before EXCEPT !.taken[p] = @ + 1, !.messages = Append(@, message)]
      ELSE [before EXCEPT !.taken[p] = @ + 1, !.full = TRUE]

TakeMessages(s, limit) ==
  LET none == [taken |-> [p \in Priorities |-> 0], messages |-> <<>>, full |-> FALSE]
      take[n \in 0 .. Queued(s.queues)] ==
        IF n = 0 THEN {none}
        ELSE {TakeMessage(s, limit, before) : before \in take[n - 1]}
  IN  take[Queued(s.queues)]

\* The acknowledgement loop of fillPacket: in the order of the channels, until
\* one does not fit.
AcksThatFit(channels, room) ==
  {c \in channels : AckSize * Cardinality({d \in channels : d <= c}) <= room}

\* eraseUntil.  The mutant keeps the last message taken, if it is the only one
\* of its priority.
EraseTooFew(q, taken) == [p \in Priorities |-> SubSeq(q[p], Max({taken[p], 1}), Len(q[p]))]
EraseUntil(q, taken) == [p \in Priorities |-> SubSeq(q[p], taken[p] + 1, Len(q[p]))]

\* The acknowledgements that a packet has: one that goes by itself has its
\* number, one that goes with a message only whether the number is not 0.
Written(s, messages, alone) ==
  [c \in Carried(s, messages) \cup alone |->
     IF c \in alone THEN s.acks[c] ELSE IF s.acks[c] # 0 THEN 1 ELSE 0]

AcksLeft(s, messages, alone) == DOMAIN s.acks \ (ChannelsOf(messages) \cup alone)

\* Messages filled.messages and acknowledgements alone leave in a packet; all
\* messages taken are erased, the one that did not fit included.
Pack(s, filled, alone, room) ==
  LET written == Written(s, filled.messages, alone)
      size == PacketSize(s, filled.messages) + AckSize * Cardinality(alone)
      left == EraseUntil(s.queues, filled.taken)
  IN  [s EXCEPT
         !.size   = size,
         !.queues = left,
         !.acks   = [c \in AcksLeft(s, filled.messages, alone) |-> @[c]],
         !.acked  = @ \cup ChannelsOf(filled.messages) \cup alone,
         !.ackCount = [c \in Channels |-> @[c] + IF c \in DOMAIN written THEN 1 ELSE 0],
         !.lastSent = [p \in Priorities |-> Max({@[p]} \cup
                         {m.id : m \in {m \in ToSet(filled.messages) : m.priority = p}})],
         !.sentCount = @ + Len(filled.messages),
         !.packets = Append(@, [messages |-> filled.messages, acks |-> written,
                                size |-> size, room |-> room,
                                left |-> {p \in Priorities : left[p] # <<>>}])]

\* EmiSendQueue::fillPacket, with room bytes left in the budget: its size is 0 if
\* there is nothing to send.
FillPacket(s, limit, room) ==
  LET AloneWith(messages) == AcksThatFit(DOMAIN s.acks \ (s.acked \cup ChannelsOf(messages)),
                                         limit - PacketSize(s, messages))
  IN  UNION {{IF filled.messages = <<>> /\ alone = {} THEN [s EXCEPT !.size = 0]
              ELSE Pack(s, filled, alone, room) :
                alone \in {AloneWith(filled.messages)}} :
               filled \in TakeMessages(s, limit)}

\* sendDatagram
SendDatagram(s, size) == [s EXCEPT !.window[1] = @ + size]

\* incrementSequenceNumber.  The mutant forgets the mask.
NextUnmasked(s) == [s EXCEPT !.number = @ + 1]
NextNumber(s) == [s EXCEPT !.number = (@ + 1) % PairInterval]

\* What is left of the budget; below zero if more was sent already.
Room(s, allowance) == Max({Mtu, Ticks * allowance}) - SumOf(s.window)

\* A packet within that.  The code computes the room without sign: below zero
\* it is huge.
AllowedSize(room) == IF room < 0 THEN Mtu ELSE Min({room, Mtu})
FillWithinBudget(s) ==
  UNION {FillPacket(s, AllowedSize(room), room) :
           room \in {Room(s, allowance) : allowance \in Allowances}}

\* flush()
Flush(s) ==
  {IF filled.size = 0 THEN filled ELSE NextNumber(SendDatagram(filled, filled.size)) :
     filled \in FillWithinBudget(s)}

\* The branch of tick() that sends a pair of packets of the same size, if there
\* is something for the second one, which ignores the budget.
SendFirst(first)  == SendDatagram(first, first.size)
SendBoth(s, size) == NextNumber(SendDatagram(SendDatagram(s, size), size))

SendPair(s) ==
  UNION {IF first.size = 0 THEN {first}
         ELSE {IF second.size = 0 THEN NextNumber(SendFirst(first))
               ELSE SendBoth(second, Max({first.size, second.size})) :
                 second \in FillPacket(NextNumber(first), Mtu, Mtu)} :
           first \in FillWithinBudget(s)}

\* The loop of tick(): packets until there is nothing more to send, or after
\* one pair.
SendNext(s) ==
  IF s.done THEN {s}
  ELSE IF s.number = 0 THEN {[after EXCEPT !.done = TRUE] : after \in SendPair(s)}
  ELSE {[after EXCEPT !.done = after.size = 0] : after \in Flush(s)}

SendPackets(s) ==
  LET rounds == 1 + Cardinality(DOMAIN s.acks) + Queued(s.queues)
      send[n \in 0 .. rounds] ==
        IF n = 0 THEN {s} ELSE UNION {SendNext(before) : before \in send[n - 1]}
  IN  send[rounds]

-----------------------------------------------------------------------------
(* Actions *)

\* A queue that would get too long is flushed first, and also before an
\* immediate message.
FlushesFirst(kind) ==
  \/ QueueSize(queues) + kind.size >= Mtu - HeaderSize
  \/ kind.priority = 0

\* The application, or the retransmission timeout, has a message.
EnqueueMessage(kind) ==
  LET message == [id |-> enqueued + 1, priority |-> kind.priority,
                  channel |-> kind.channel, size |-> kind.size]
  IN
  /\ enqueued < MaxMessages
  /\ \E s \in IF FlushesFirst(kind) THEN Flush(state) ELSE {state} :
       /\ SetState([s EXCEPT !.queues[kind.priority] = Append(@, message)])
       /\ sentData' = (sentData \/ s.size > 0)
  /\ enqueued' = enqueued + 1
  /\ tickTimer' = TRUE
  /\ UNCHANGED <<wanted, acksEnqueued>>

\* A control message goes out by itself, whatever the budget is, and leaves the
\* packet number alone.
EnqueueControlMessage ==
  /\ enqueued < MaxMessages
  /\ SetState([SendDatagram(state, ControlSize) EXCEPT !.sentCount = @ + 1])
  /\ sentData' = TRUE
  /\ enqueued' = enqueued + 1
  /\ tickTimer' = TRUE
  /\ UNCHANGED <<wanted, acksEnqueued>>

\* The receiver buffer has an acknowledgement for a channel.  The newest number
\* waits, which is the largest of those that do not wrap.
EnqueueAck(channel, sn) ==
  /\ acksEnqueued < MaxAcks
  /\ SetState([state EXCEPT !.acks =
       [c \in DOMAIN @ \cup {channel} |->
          IF c # channel THEN @[c]
          ELSE Max({sn} \cup {@[d] : d \in DOMAIN @ \cap {channel}})]])
  /\ acksEnqueued' = acksEnqueued + 1
  /\ tickTimer' = TRUE
  /\ UNCHANGED <<enqueued, wanted, sentData>>

\* sendHeartbeat and the line after it: both count its bytes.
SendHeartbeat(s) == NextNumber(SendDatagram(SendDatagram(s, HeaderSize), HeaderSize))

\* BytesSentTheLastNTicks::tick
NextTick(s) ==
  [s EXCEPT !.window = [t \in 1 .. Ticks |-> IF t = 1 THEN 0 ELSE @[t - 1]]]

\* What tick() resets first, and when a heartbeat follows the packets it sent.
AtTick(s) == [s EXCEPT !.acked = {}, !.ackCount = [c \in Channels |-> 0]]
HeartbeatFollows(s) == s.size = 0 /\ wanted /\ s.window[1] = 0

\* The tick timer fires, once.  Unless a pair was sent, a heartbeat may follow and
\* the byte counter moves on.  If anything was sent since the last tick, the
\* heartbeat timer starts anew.
Tick ==
  /\ tickTimer
  /\ \E s \in SendPackets(AtTick(state)) :
       /\ SetState(IF s.size > 0 THEN s
                   ELSE IF HeartbeatFollows(s) THEN NextTick(SendHeartbeat(s)) ELSE NextTick(s))
       /\ wanted' = (wanted /\ ~HeartbeatFollows(s))
       /\ sentData' = (sentData /\ s.window[1] = 0 /\ ~HeartbeatFollows(s))
  /\ tickTimer' = FALSE
  /\ UNCHANGED <<enqueued, acksEnqueued>>

\* Whether the heartbeat timer starts the tick timer.  The mutant does not.
LeavesTickTimer == tickTimer
StartsTickTimer == tickTimer \/ ~sentData

\* The heartbeat timer fires, and starts anew.
HeartbeatTimeout ==
  /\ wanted' = (wanted \/ ~sentData)
  /\ tickTimer' = StartsTickTimer
  /\ sentData' = FALSE
  /\ SetState(state)
  /\ UNCHANGED <<enqueued, acksEnqueued>>

Next ==
  \/ \E kind \in Kinds : EnqueueMessage(kind)
  \/ EnqueueControlMessage
  \/ \E channel \in Channels, sn \in AckSns : EnqueueAck(channel, sn)
  \/ Tick
  \/ HeartbeatTimeout

Spec == Init /\ [][Next]_vars

\* Both timers fire once they are scheduled; the heartbeat timer always is.  Only
\* Tick stops the tick timer, and it can whenever the timer runs, so that its
\* fairness is stated of the timer alone.
TickTimerFires == tickTimer /\ tickTimer' = FALSE

Fairness == WF_tickTimer(TickTimerFires) /\ WF_vars(HeartbeatTimeout)

FairSpec == Spec /\ Fairness

-----------------------------------------------------------------------------
(* Properties *)

Message == [id : 1 .. MaxMessages, priority : Priorities, channel : Channels, size : Nat]

\* The types of the state; messages wait in the queue of their priority.
TypeOK ==
  /\ queues \in [Priorities -> Seq(Message)]
  /\ \A p \in Priorities : \A i \in DOMAIN queues[p] : queues[p][i].priority = p
  /\ acks \in [DOMAIN acks -> AckSns] /\ DOMAIN acks \subseteq Channels
  /\ acked \subseteq Channels
  /\ number \in 0 .. PairInterval - 1
  /\ window \in [1 .. Ticks -> Nat]
  /\ wanted \in BOOLEAN /\ tickTimer \in BOOLEAN /\ sentData \in BOOLEAN
  /\ enqueued \in 0 .. MaxMessages /\ acksEnqueued \in 0 .. MaxAcks

\* Messages of a priority leave the queue in the order in which they came, and
\* are sent at most once (fillPacket, eraseUntil), however packets, pairs and
\* flushes cut the queue.
SentOnceInOrder ==
  TypeOK /\ \A p \in Priorities :
    LET ids == <<lastSent[p]>> \o [i \in DOMAIN queues[p] |-> queues[p][i].id]
    IN  \A i, j \in DOMAIN ids : i < j => ids[i] < ids[j]

\* "only one ack is sent per channel per tick": with data or without, by a tick
\* or by the flushes after it.
OneAckPerTick == \A c \in Channels : ackCount[c] <= 1


\* "For every message of a given priority, two messages of the priority one step
\* above will be sent (if there are any)": wherever one looks in a packet, a
\* priority that has messages waiting, for the rest of the packet or after it, was
\* neither overtaken by the next lower one, nor left behind by the next higher
\* one, by more than that.
Shares ==
  \A k \in DOMAIN packets : \A n \in 0 .. Len(packets[k].messages) :
    LET Of(p, first, last) ==
          {i \in first .. last : packets[k].messages[i].priority = p}
        CountOf(p) == Cardinality(Of(p, 1, n))
        Waits(p)   == p \in packets[k].left \/ Of(p, n + 1, Len(packets[k].messages)) # {}
    IN  \A p \in 0 .. Lowest - 1 :
          /\ Waits(p) => CountOf(p) >= 2 * CountOf(p + 1)
          /\ Waits(p + 1) => CountOf(p) <= 2 * CountOf(p + 1) + 2

\* Messages and acknowledgements do not wait for ever, whatever the congestion
\* control allows: the tick timer may stop while they wait, and a heartbeat
\* starts it again.
QueueDrains == []<>(DOMAIN acks = {} /\ \A p \in Priorities : queues[p] = <<>>)

-----------------------------------------------------------------------------
(* What the code does not do *)

\* Each message is sent or still waits.
NothingForgotten ==
  enqueued = sentCount + Queued(queues)

\* A packet is sent only if the bytes of the last ticks and its own are within
\* the budget, except for the second of a pair.
WithinBudget == \A k \in DOMAIN packets : packets[k].size <= packets[k].room

\* The comment above the acknowledgement loop of fillPacket speaks of the
\* acknowledgements that were "not sent along with actual data": those that were
\* tell the other host the number that waited.
AckIsTold ==
  [][\A c \in DOMAIN acks : \A k \in DOMAIN packets' :
       c \in DOMAIN packets'[k].acks => packets'[k].acks[c] = acks[c]]_vars

\* An immediate message does not wait for the tick.
ImmediateIsSent == queues[0] = <<>>
=============================================================================
