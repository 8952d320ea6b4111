--------------------------- MODULE ReliableOrdered ---------------------------
(***************************************************************************)
(* One direction of one RELIABLE_ORDERED channel, end to end: the sending  *)
(* side (EmiLogicalConnection::send, EmiConn::enqueueMessage, the sender   *)
(* buffer and its retransmission timeout), a network that loses, reorders  *)
(* and duplicates packets, and the receiving side                          *)
(* (EmiReceiverBuffer::gotMessage) with its acknowledgements.              *)
(*                                                                         *)
(* A message too large for a packet travels as several parts with          *)
(* consecutive sequence numbers.  A part is identified by the number the   *)
(* sender gave it, so that a part stored under a wrong number shows.       *)
(*                                                                         *)
(* No other channel has parts in the receiver buffer: what they do to      *)
(* split messages of this one is in the module Unordered (mixed), which    *)
(* shares EmiReceiverBuffer::processMessageSetData.                        *)
(***************************************************************************)
EXTENDS SeqNum, Sequences, FiniteSets

CONSTANTS
  InitialSn,            \* _initialSequenceNumber, random in the code
  MaxParts,             \* bound: parts of one message
  MaxSent,              \* bound: parts sent in a behaviour
  SenderBufferSize,     \* capacity of the sender buffer, in parts
  ReceiverBufferSize    \* capacity of the receiver buffer, in parts

ASSUME ChannelAssumption ==
  /\ InitialSn \in Wrapped
  /\ MaxParts \in Nat \ {0} /\ MaxSent \in Nat
  /\ SenderBufferSize \in Nat /\ ReceiverBufferSize \in Nat
  /\ InitialSn + MaxSent < Modulus64

None == -1

\* No part has one of the numbers 0 and 1, which an acknowledgement that
\* travels with data always names (true of all but two initial numbers).
NumbersAboveFlags == InitialSn > 1

\* The whole behaviour stays below the wrap of the sequence number, and within
\* half of the number space (the code guarantees neither).
NoWrap == InitialSn + MaxSent <= Mask /\ MaxSent <= Mask \div 2

\* The receiver buffer can hold what the sender buffer can, and in addition the
\* acknowledged beginning of one message (the code does not relate the sizes).
RoomyReceiver == ReceiverBufferSize >= SenderBufferSize + MaxParts - 1

VARIABLES
  stream,         \* every part handed to send(), in order (history)
  sequenceMemo,   \* sender: _sequenceMemo[cq], number of the next part
  sendBuffer,     \* sender: numbers of the parts kept for retransmission
  packets,        \* parts in the send queue or in the network
  expected,       \* receiver: _expectedSnMemo[cq]
  tree,           \* receiver: _tree, the buffered parts by guessed number
  delivered,      \* receiver: parts of the messages emitted, in order
  pendingAck,     \* receiver: _acks[cq] of the send queue, or None
  acks            \* acknowledgements in the network

senderVars   == <<stream, sequenceMemo, sendBuffer>>
receiverVars == <<expected, tree, delivered, pendingAck>>
vars         == <<senderVars, packets, receiverVars, acks>>

Part     == [data : Nat, first : BOOLEAN, last : BOOLEAN]
Packet   == [sn : Wrapped, part : Part]
Unsplit(part) == part.first /\ part.last

Init ==
  /\ stream = <<>> /\ sequenceMemo = InitialSn /\ sendBuffer = {}
  /\ packets = {} /\ acks = {}
  /\ expected = InitialSn   \* the SYN told the receiver the initial number
  /\ tree = [sn \in {} |-> None] /\ delivered = <<>> /\ pendingAck = None

-----------------------------------------------------------------------------
(* Sender *)

\* The packet that carries part number sn of the parts in s.
PacketOf(s, sn) == [sn |-> Wrap(sn), part |-> s[sn - InitialSn + 1]]

\* EmiSenderBuffer::fitsIntoBuffer, and a mutant that lets one part too many in.
FitsIntoBufferOffByOne(n) == Cardinality(sendBuffer) + n <= SenderBufferSize + 1
FitsIntoBuffer(n)         == Cardinality(sendBuffer) + n <= SenderBufferSize

\* The application sends a message that splits into n parts.  A message that
\* does not fit into the sender buffer is refused and nothing changes.
Send(n) ==
  LET new == sequenceMemo .. sequenceMemo + n - 1 IN
  /\ Len(stream) + n <= MaxSent
  /\ FitsIntoBuffer(n)
  /\ stream' = stream \o [i \in 1 .. n |->
                   [data |-> sequenceMemo + i - 1, first |-> i = 1, last |-> i = n]]
  /\ sequenceMemo' = sequenceMemo + n
  /\ sendBuffer' = sendBuffer \cup new
  /\ packets' = packets \cup {PacketOf(stream', sn) : sn \in new}
  /\ UNCHANGED <<receiverVars, acks>>

\* The retransmission timeout sends again the parts that have waited for an
\* acknowledgement long enough, which may be any of them.
RtoTimeout(due) ==
  /\ due # {}
  /\ packets' = packets \cup {PacketOf(stream, sn) : sn \in due}
  /\ UNCHANGED <<senderVars, receiverVars, acks>>

\* EmiSenderBuffer::deregisterReliableMessages.  It starts at the first
\* buffered message numbered sn or more, so it removes nothing when there is
\* none.
Deregister(buffer, sn) ==
  IF \E b \in buffer : b >= sn THEN {b \in buffer : b > sn} ELSE buffer

\* An acknowledgement of all parts up to the one it names arrives.
ReceiveAck(ack) ==
  /\ ack \in acks
  /\ sendBuffer' = Deregister(sendBuffer,
                              GuessFromReference(Unsigned(sequenceMemo - 1), ack))
  /\ UNCHANGED <<stream, sequenceMemo, packets, receiverVars, acks>>

-----------------------------------------------------------------------------
(* Receiver *)

\* EmiSendQueue::enqueueAck: a channel has one pending acknowledgement.
EnqueueAck(pending, ack) == IF pending = None THEN ack ELSE CyclicMax(pending, ack)

\* EmiReceiverBuffer::bufferMessage: a part that does not fit, or that is
\* there already, leaves the buffer as it was.
BufferMessage(T, sn, part) ==
  IF Cardinality(DOMAIN T) < ReceiverBufferSize /\ sn \notin DOMAIN T
  THEN [s \in DOMAIN T \cup {sn} |-> IF s = sn THEN part ELSE T[s]]
  ELSE T

\* lo..hi is the longest run of buffered parts from the first buffered part on.
FirstRun(T, lo, hi) ==
  /\ \A s \in DOMAIN T : lo <= s
  /\ lo <= hi /\ hi + 1 \notin DOMAIN T
  /\ \A s \in lo .. hi : s \in DOMAIN T

\* Of that run, the parts up to number `done` make whole messages.  The mutant
\* hands over the parts of a message before the last of them is there.
WholeMessagesUnchecked(T, lo, hi, done) == done = hi
WholeMessages(T, lo, hi, done) ==
  /\ done >= lo => T[done].last
  /\ \A s \in done + 1 .. hi : ~T[s].last

\* Nothing in the buffer continues what was emitted so far.
NothingToFlush(T, next) ==
  \A lo \in DOMAIN T : (\A s \in DOMAIN T : lo <= s) => lo > next \/ ~T[lo].first

(***************************************************************************)
(* EmiReceiverBuffer::flushBuffer with processBuffer, where `next` is the  *)
(* expected number: emit the whole messages at the front of the buffer, in *)
(* order, without a gap; acknowledge everything up to the end of the run,  *)
(* the parts of a message that is not whole yet included; and drop what    *)
(* was emitted.                                                            *)
(***************************************************************************)
FlushBuffer(T, next, out, pending) ==
  IF NothingToFlush(T, next)
  THEN tree' = T /\ expected' = next /\ delivered' = out /\ pendingAck' = pending
  ELSE \E lo, hi \in DOMAIN T : \E done \in lo - 1 .. hi :
         /\ FirstRun(T, lo, hi)
         /\ WholeMessages(T, lo, hi, done)
         /\ tree' = [s \in {s \in DOMAIN T : s > done} |-> T[s]]
         /\ expected' = hi + 1
         /\ delivered' = out \o [i \in 1 .. done - lo + 1 |-> T[lo + i - 1]]
         /\ pendingAck' = EnqueueAck(pending, Wrap(hi))

Guess(packet) == GuessFromExpected(expected, packet.sn)

\* The acknowledgement that gotMessage enqueues on arrival: the part itself
\* when it is the expected one, before anyone looks whether it fits into the
\* buffer; everything received so far when it is an old one; none when it is
\* ahead.  The mutants acknowledge the part that is still expected, and leave
\* old parts unacknowledged.
AckOnArrivalOffByOne(packet) ==
  IF Guess(packet) <= expected
  THEN EnqueueAck(pendingAck, Wrap(expected)) ELSE pendingAck
AckOnArrivalExpectedOnly(packet) ==
  IF Guess(packet) = expected
  THEN EnqueueAck(pendingAck, Wrap(expected)) ELSE pendingAck
AckOnArrival(packet) ==
  LET guess == Guess(packet) IN
  IF guess <= expected
  THEN EnqueueAck(pendingAck, Wrap(IF guess = expected THEN guess ELSE expected - 1))
  ELSE pendingAck

\* The mutant takes a part received before for the expected one.
IsExpectedOrOld(packet) == Guess(packet) <= expected
IsExpected(packet)      == Guess(packet) = expected

\* The expected part, and a message of its own: emitted without buffering.
ReceiveExpected(packet) ==
  /\ IsExpected(packet) /\ Unsplit(packet.part)
  /\ FlushBuffer(tree, expected + 1, Append(delivered, packet.part),
                 AckOnArrival(packet))

\* A part of a split message, or one that is ahead of the expected part.
ReceiveIntoBuffer(packet) ==
  /\ Guess(packet) >= expected
  /\ ~(IsExpected(packet) /\ Unsplit(packet.part))
  /\ FlushBuffer(BufferMessage(tree, Guess(packet), packet.part),
                 expected, delivered, AckOnArrival(packet))

\* A part received before: nothing happens but the acknowledgement.
ReceiveOld(packet) ==
  /\ Guess(packet) < expected
  /\ pendingAck' = AckOnArrival(packet)
  /\ UNCHANGED <<expected, tree, delivered>>

Receive(packet) ==
  /\ packet \in packets
  /\ ReceiveExpected(packet) \/ ReceiveIntoBuffer(packet) \/ ReceiveOld(packet)
  /\ UNCHANGED <<senderVars, packets, acks>>

\* What EmiSendQueue::fillPacket writes into the packet: an acknowledgement
\* without data names the pending number; one that goes with a message of the
\* same channel in the other direction is the outcome of
\* "hasAck && (*curAck).second", a boolean.
AckAlone(pending)    == pending
AckWithData(pending) == IF pending = 0 THEN 0 ELSE 1

SendPendingAck(ack) ==
  /\ pendingAck # None
  /\ acks' = acks \cup {ack}
  /\ pendingAck' = None
  /\ UNCHANGED <<senderVars, packets, expected, tree, delivered>>

\* The next tick of the send queue sends the pending acknowledgement, by
\* itself or with a message of the other direction.
SendAck         == SendPendingAck(AckAlone(pendingAck))
SendAckWithData == SendPendingAck(AckWithData(pendingAck))

-----------------------------------------------------------------------------
(* Network: what was received may arrive again until it is lost. *)

LosePacket(packet) ==
  /\ packets' = packets \ {packet}
  /\ UNCHANGED <<senderVars, receiverVars, acks>>

LoseAck(ack) ==
  /\ acks' = acks \ {ack}
  /\ UNCHANGED <<senderVars, packets, receiverVars>>

Next ==
  \/ \E n \in 1 .. MaxParts : Send(n)
  \/ \E due \in SUBSET sendBuffer : RtoTimeout(due)
  \/ \E packet \in packets : Receive(packet)
  \/ SendAck
  \/ SendAckWithData
  \/ \E ack \in acks : ReceiveAck(ack)
  \/ \E packet \in packets : LosePacket(packet)
  \/ \E ack \in acks : LoseAck(ack)

Spec == Init /\ [][Next]_vars

Sns == InitialSn .. InitialSn + MaxSent - 1

(***************************************************************************)
(* The retransmission timer runs while the sender buffer holds anything    *)
(* and each message in it becomes due, so every part is sent again until   *)
(* it is acknowledged; a network over which a connection stays open lets   *)
(* a packet through that is sent over and over; the tick timer runs while  *)
(* an acknowledgement is pending, and not each of its ticks finds a        *)
(* message of the other direction to send with it.                         *)
(***************************************************************************)
Fairness ==
  /\ SF_vars(SendAck)
  /\ \A sn \in Sns :
       /\ WF_vars(\E due \in SUBSET sendBuffer : sn \in due /\ RtoTimeout(due))
       /\ SF_vars(\E packet \in packets : packet.part.data = sn /\ Receive(packet))
       /\ SF_vars(ReceiveAck(Wrap(sn)))

FairSpec == Spec /\ Fairness

-----------------------------------------------------------------------------
(* Properties *)

\* The types of the state; both buffers stay within their size, although a
\* message of several parts is checked against it once, before the first part
\* is registered (EmiConn::enqueueMessage).
TypeOK ==
  /\ stream \in Seq(Part)
  /\ sequenceMemo \in Nat
  /\ sendBuffer \in SUBSET Nat
  /\ Cardinality(sendBuffer) <= SenderBufferSize
  /\ packets \in SUBSET Packet
  /\ expected \in Nat
  /\ tree \in [DOMAIN tree -> Part] /\ DOMAIN tree \in SUBSET Nat
  /\ Cardinality(DOMAIN tree) <= ReceiverBufferSize
  /\ delivered \in Seq(Part)
  /\ pendingAck \in Wrapped \cup {None}
  /\ acks \in SUBSET Wrapped

\* README.md, channel type 4: what the receiver was given is what the sender
\* sent, from the beginning, in order, nothing twice and nothing left out.
InOrder ==
  /\ Len(delivered) <= Len(stream)
  /\ \A i \in 1 .. Len(delivered) : delivered[i] = stream[i]

\* Part number sn was emitted or is held in the receiver buffer.
Received(sn) == sn < InitialSn + Len(delivered) \/ sn \in DOMAIN tree

\* The sender forgets a part only once the receiver has it: no acknowledgement,
\* in flight or processed, ever covers a part that could still get lost.
AckedIsReceived ==
  \A sn \in InitialSn .. sequenceMemo - 1 : sn \notin sendBuffer => Received(sn)

Abstract == INSTANCE OrderedDelivery WITH stream <- stream, delivered <- delivered

\* The channel hands over whole messages, in order.
ImplementsOrderedDelivery == Abstract!Spec

\* Everything sent is delivered in the end, whatever the network loses.
EverythingDelivered == Abstract!Progress

\* Every part is acknowledged in the end: the sender buffer drains.
EverythingAcknowledged == []<>(sendBuffer = {})
-----------------------------------------------------------------------------
(* The inductive invariant behind InOrder and AckedIsReceived *)

\* Part number sn of the stream.
PartOf(sn) == stream[sn - InitialSn + 1]

\* The number of the first part after the n first parts of the stream.
After(n) == InitialSn + n

\* Messages follow each other without a gap, and the last one is complete.
StreamInv ==
  /\ sequenceMemo = After(Len(stream)) /\ Len(stream) <= MaxSent
  /\ sendBuffer \subseteq InitialSn .. sequenceMemo - 1
  /\ \A i \in 1 .. Len(stream) :
        stream[i].first <=> (i = 1 \/ stream[i - 1].last)
  /\ stream # <<>> => stream[Len(stream)].last

\* A packet carries the part its number says.
PacketInv ==
  \A p \in packets : p.sn \in InitialSn .. sequenceMemo - 1 /\ p.part = PartOf(p.sn)

\* The receiver side, with the next number, the buffer and the output as
\* parameters, since a step computes them in stages.  The output is a prefix of
\* the stream that ends with a whole message; the buffer holds no part of it;
\* all parts from there up to the next number are buffered, and they are the
\* beginning of one message.
ReceiverInv(next, T, out) ==
  /\ Len(out) <= Len(stream)
  /\ \A i \in 1 .. Len(out) : out[i] = stream[i]
  /\ out # <<>> => stream[Len(out)].last
  /\ next \in After(Len(out)) .. sequenceMemo
  /\ \A sn \in DOMAIN T :
        sn \in After(Len(out)) .. sequenceMemo - 1 /\ T[sn] = PartOf(sn)
  /\ \A sn \in After(Len(out)) .. next - 1 : sn \in DOMAIN T /\ ~PartOf(sn).last

OrderInv ==
  /\ StreamInv /\ PacketInv
  /\ ReceiverInv(expected, tree, delivered) /\ expected \notin DOMAIN tree

\* A message has at most MaxParts parts, so at most MaxParts - 1 in a row are
\* not the last of their message.
ShortMessages ==
  \A i, j \in 1 .. Len(stream) :
     i <= j /\ (\A k \in i .. j : ~stream[k].last) => j - i + 1 < MaxParts

\* Acknowledgements, and what they made the sender forget, stay below the
\* number the receiver expects; those that travel with data name 0 or 1.
AckInv ==
  /\ ShortMessages
  /\ \A ack \in acks : ack \in {0, 1} \cup InitialSn .. expected - 1
  /\ pendingAck # None => pendingAck \in InitialSn .. expected - 1
  /\ \A sn \in InitialSn .. sequenceMemo - 1 : sn \notin sendBuffer => sn < expected

=============================================================================
