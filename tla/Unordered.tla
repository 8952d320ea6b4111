------------------------------ MODULE Unordered ------------------------------
(***************************************************************************)
(* One direction of a channel whose messages need not all arrive: type     *)
(* UNRELIABLE, UNRELIABLE_SEQUENCED or RELIABLE_SEQUENCED.  The receiving  *)
(* side is EmiReceiverBuffer::gotMessage with processUnorderedMessage, the *)
(* sending side EmiLogicalConnection::send, which on a RELIABLE_SEQUENCED  *)
(* channel keeps the last message in the sender buffer until it is         *)
(* acknowledged.  A message too large for a packet travels as several      *)
(* parts with consecutive numbers.  The receiver buffer is that of all     *)
(* channels of the connection: of the others, the buffered parts of the    *)
(* one that comes next in its tree are in the model.                       *)
(***************************************************************************)
EXTENDS SeqNum, MessageSets, SequencesExt

CONSTANTS
  ChannelTypes,         \* the types of channel to look at
  InitialSn,            \* _initialSequenceNumber, random in the code
  MaxParts,             \* bound: parts of one message
  MaxSent,              \* bound: parts sent in a behaviour
  SenderBufferSize,     \* capacity of the sender buffer, in parts
  ReceiverBufferSize,   \* capacity of the receiver buffer, in parts
  OtherSns,             \* bound: numbers of the parts of the other channel, and ...
  OtherTypes,           \* bound: ... types of channel beside which there is one
  MaxAcks               \* bound: acknowledgements in the network

ASSUME UnorderedAssumption ==
  /\ ChannelTypes \subseteq {"unreliable", "unreliableSequenced", "reliableSequenced"}
  /\ InitialSn \in Wrapped /\ OtherSns \subseteq Nat
  /\ OtherTypes \subseteq ChannelTypes
  /\ MaxParts \in Nat \ {0} /\ MaxSent \in Nat
  /\ SenderBufferSize \in Nat /\ ReceiverBufferSize \in Nat /\ MaxAcks \in Nat \ {0}
  /\ InitialSn + MaxSent + 1 < Modulus64

None == -1

VARIABLES
  channelType,    \* EMI_CHANNEL_QUALIFIER_TYPE(channelQualifier)
  stream,         \* every part handed to send(), in order (history)
  sendBuffer,     \* sender: numbers of the parts kept for retransmission
  reference,      \* sender: _reliableSequencedBuffer[cq]
  packets,        \* numbers of the parts in the send queue or in the network
  memo,           \* receiver: _expectedSnMemo[cq], or None
  tree,           \* receiver: _tree, the buffered parts by guessed number
  sets,           \* receiver: _messageSets
  others,         \* receiver: numbers in _tree of the next larger channelQualifier
  delivered,      \* receiver: messages emitted, repetitions left out (history)
  repeated,       \* receiver: a message was emitted twice in a row (history)
  reported,       \* receiver: numbers reported as lost (history)
  pendingAck,     \* receiver: _acks[cq] of the send queue, or None
  acks,           \* acknowledgements in the network
  crashed,        \* an assertion of the receiver failed
  mixed           \* a part of another channel was put into a message (history)

senderVars   == <<stream, sendBuffer, reference>>
bufferVars   == <<tree, sets, others>>
outputVars   == <<delivered, repeated, reported, crashed, mixed>>
receiverVars == <<memo, bufferVars, outputVars, pendingAck>>
vars         == <<channelType, senderVars, packets, receiverVars, acks>>

Reliable == channelType = "reliableSequenced"
Sequenced == channelType # "unreliable"

SequenceMemo == InitialSn + Len(stream)
PartOf(sn)   == stream[sn - InitialSn + 1]

Init ==
  /\ channelType \in ChannelTypes
  /\ stream = <<>> /\ sendBuffer = {} /\ reference = 0
  /\ packets = {} /\ acks = {}
  /\ memo = None /\ tree = [sn \in {} |-> None] /\ sets = {} /\ others = {}
  /\ delivered = <<>> /\ repeated = FALSE /\ reported = {}
  /\ crashed = FALSE /\ mixed = FALSE
  /\ pendingAck = None

-----------------------------------------------------------------------------
(* Sender *)

\* EmiSenderBuffer::deregisterReliableMessages, as in ReliableOrdered.  The
\* mutant does not find the message itself.
DeregisterStrict(buffer, sn) ==
  IF \E b \in buffer : b > sn THEN {b \in buffer : b > sn} ELSE buffer
Deregister(buffer, sn) ==
  IF \E b \in buffer : b >= sn THEN {b \in buffer : b > sn} ELSE buffer

\* The application sends a message that splits into n parts.  On a reliable
\* channel it replaces the messages that wait for their acknowledgement, but
\* has to fit into the sender buffer beside them.
Send(n) ==
  LET new == SequenceMemo .. SequenceMemo + n - 1 IN
  /\ Len(stream) + n <= MaxSent
  /\ Reliable => Cardinality(sendBuffer) + n <= SenderBufferSize
  /\ stream' = stream \o [i \in 1 .. n |->
                   [data |-> SequenceMemo + i - 1, first |-> i = 1, last |-> i = n]]
  /\ packets' = packets \cup new
  /\ IF Reliable
     THEN /\ sendBuffer' = Deregister(sendBuffer \cup new, SequenceMemo - 1)
          /\ reference' = SequenceMemo + n
     ELSE UNCHANGED <<sendBuffer, reference>>
  /\ UNCHANGED <<channelType, receiverVars, acks>>

\* The retransmission timeout.
RtoTimeout(due) ==
  /\ due # {}
  /\ packets' = packets \cup due
  /\ UNCHANGED <<channelType, senderVars, receiverVars, acks>>

\* EmiLogicalConnection::gotReliableSequencedAck
ReceiveAck(ack) ==
  /\ ack \in acks
  /\ sendBuffer' = Deregister(sendBuffer, GuessFromReference(reference, ack))
  /\ UNCHANGED <<channelType, stream, reference, packets, receiverVars, acks>>

-----------------------------------------------------------------------------
(* Receiver *)

Expected  == IF memo = None THEN InitialSn ELSE memo
Guess(sn) == GuessFromExpected(Expected, Wrap(sn))

\* EmiSendQueue::enqueueAck: a channel has one pending acknowledgement.
EnqueueAck(ack) == IF pendingAck = None THEN ack ELSE CyclicMax(pendingAck, ack)

\* The number expected after part number sn arrived.  The mutant goes back to
\* the number after a part that arrives late.
NextExpectedUnchecked(sn, part) ==
  IF channelType = "unreliableSequenced" \/ (Reliable /\ part.first)
  THEN Guess(sn) + 1 ELSE memo
NextExpected(sn, part) ==
  IF channelType = "unreliableSequenced" \/ (Reliable /\ part.first)
  THEN Max({Expected, Guess(sn) + 1}) ELSE memo

\* The mutant lets parts through that arrive late.
IsLateNever(sn) == Sequenced /\ FALSE /\ Guess(sn) < Expected
IsLate(sn)      == Sequenced /\ Guess(sn) < Expected

\* emitPacketLoss tells the application how many parts are missing.  The mutant
\* counts one too many.
ReportLossOffByOne(sn) ==
  reported' = IF channelType = "unreliableSequenced"
              THEN reported \cup (Expected - 1 .. Guess(sn) - 1) ELSE reported
ReportLoss(sn) ==
  reported' = IF channelType = "unreliableSequenced"
              THEN reported \cup (Expected .. Guess(sn) - 1) ELSE reported

\* emitMessage: the application gets the parts of a message.
Emit(message) ==
  LET again == delivered # <<>> /\ message = Last(delivered) IN
  /\ repeated' = (repeated \/ again)
  /\ delivered' = IF again THEN delivered ELSE Append(delivered, message)

EmitNothing == UNCHANGED <<repeated, delivered>>

\* A part that came too late changes nothing.
DropLate(sn, part) ==
  /\ IsLate(sn)
  /\ memo' = NextExpected(sn, part)
  /\ UNCHANGED <<bufferVars, outputVars, pendingAck>>

\* A message of one part is emitted, and everything older is forgotten.
ReceiveUnsplit(sn, part) ==
  /\ ~IsLate(sn) /\ Unsplit(part)
  /\ ReportLoss(sn)
  /\ Emit(<<part>>)
  /\ crashed' = ~IsRemovable(sets, Guess(sn))
  /\ sets' = RemoveMessageAndOlder(sets, Guess(sn))
  /\ tree' = [s \in {s \in DOMAIN tree : s > Guess(sn)} |-> tree[s]]
  /\ IF Reliable
     THEN memo' = Guess(sn) /\ pendingAck' = EnqueueAck(Wrap(sn))
     ELSE memo' = NextExpected(sn, part) /\ UNCHANGED pendingAck
  /\ UNCHANGED <<others, mixed>>

\* bufferMessage: whether the part goes into the buffer.
HasRoom == Cardinality(DOMAIN tree) + Cardinality(others) < ReceiverBufferSize
IsBuffered(sn) == HasRoom /\ sn \notin DOMAIN tree

\* The message sets after bufferMessage.  The mutant tells them of every part
\* that fits, also of one that is in the tree already.
RegisterAlways(sn, part) ==
  IF HasRoom
  THEN GotMessage(sets, sn, part) ELSE sets
Register(sn, part) == IF IsBuffered(sn) THEN GotMessage(sets, sn, part) ELSE sets

\* The acknowledgement of a part of a split message: the last part of what the
\* message of the expected number has so far.  (The expected number is 0 when
\* the first part of no message has arrived.)  The mutant acknowledges the part
\* that arrived.
SplitAckItself(S, expected, guess) == guess
SplitAck(S, expected, guess) == LastInSet(S, IF expected = None THEN 0 ELSE expected)

\* processMessageSetData stops at the first entry of the tree whose number is
\* larger than that of the last part, and does not look at the channel of an
\* entry.  These are the parts of the other channel that it takes in: when there
\* is nothing left of this channel, the tree goes on with the next one.
TakenIn(T, last) ==
  IF \E s \in DOMAIN T : s > last THEN {} ELSE {s \in others : s <= last}

(***************************************************************************)
(* processBuffer, from the first part of a message on, and the removal     *)
(* that follows: the message is emitted when it is whole, and forgotten    *)
(* with everything older; otherwise only the tree forgets what is older.   *)
(* A message of several parts is put together by processMessageSetData,    *)
(* whose assertions fail if the parts are not as many as the sets say.     *)
(* (The loop of processBuffer goes on with the part that follows, which    *)
(* never completes a message: a message is emitted when its last missing   *)
(* part arrives, see NothingWholeIsKept.)                                  *)
(***************************************************************************)
ProcessBuffer(T, S, first) ==
  LET last  == LastInSet(S, first)
      whole == {s \in DOMAIN T : s \in first .. last}
      alien == IF first = last THEN {} ELSE TakenIn(T, last)
  IN  IF Complete(S, first)
      THEN /\ Emit(LET order == SetToSortSeq(whole, <)
                   IN  [i \in DOMAIN order |-> T[order[i]]])
           /\ crashed' = (alien # {} \/ Cardinality(whole) # SetOf(S, first).size)
           /\ mixed' = (alien # {})
           /\ sets' = RemoveMessageAndOlder(S, last)
           /\ tree' = [s \in {s \in DOMAIN T : s > last} |-> T[s]]
      ELSE /\ EmitNothing /\ UNCHANGED <<crashed, mixed>>
           /\ sets' = S
           /\ tree' = [s \in {s \in DOMAIN T : s >= first} |-> T[s]]

\* A part of a split message is buffered.  If the buffer has the first part of
\* the message, see whether it is whole.
ReceivePart(sn, part) ==
  LET guess == Guess(sn)
      T == IF IsBuffered(guess)
           THEN [s \in DOMAIN tree \cup {guess} |-> IF s = guess THEN part ELSE tree[s]]
           ELSE tree
  IN
  /\ ~IsLate(sn) /\ ~Unsplit(part)
  /\ ReportLoss(sn)
  /\ \E registered \in {Register(guess, part)} :
     LET first == FirstInSet(registered, guess) IN
     /\ IF Reliable
        THEN /\ memo' = SplitAck(registered, NextExpected(sn, part), guess)
             /\ pendingAck' = EnqueueAck(Wrap(memo'))
        ELSE memo' = NextExpected(sn, part) /\ UNCHANGED pendingAck
     /\ IF first \in DOMAIN T /\ T[first].first
        THEN ProcessBuffer(T, registered, first)
        ELSE EmitNothing /\ tree' = T /\ sets' = registered /\ UNCHANGED <<crashed, mixed>>
  /\ UNCHANGED others

Receive(sn) ==
  /\ sn \in packets
  /\ ~crashed
  /\ \/ DropLate(sn, PartOf(sn))
     \/ ReceiveUnsplit(sn, PartOf(sn))
     \/ ReceivePart(sn, PartOf(sn))
  /\ UNCHANGED <<channelType, senderVars, packets, acks>>

\* The same for the other channel, as far as this one can tell: a part of it is
\* buffered, and its oldest ones leave the buffer, with a message or for good.
BufferOther(sn) ==
  /\ ~crashed /\ channelType \in OtherTypes
  /\ HasRoom /\ sn \notin others
  /\ others' = others \cup {sn}
  /\ UNCHANGED <<channelType, senderVars, packets, memo, tree, sets, outputVars,
                 pendingAck, acks>>
RemoveOther(sn) ==
  /\ ~crashed /\ sn \in others
  /\ others' = {s \in others : s > sn}
  /\ UNCHANGED <<channelType, senderVars, packets, memo, tree, sets, outputVars,
                 pendingAck, acks>>

\* EmiSendQueue::fillPacket: the pending acknowledgement travels by itself, or
\* with a message of the other direction as a boolean.  The network may lose
\* others meanwhile, and does when it holds as many as it can.
SendPendingAck(ack) ==
  /\ pendingAck # None
  /\ \E kept \in SUBSET acks :
       Cardinality(kept \cup {ack}) <= MaxAcks /\ acks' = kept \cup {ack}
  /\ pendingAck' = None
  /\ UNCHANGED <<channelType, senderVars, packets, memo, bufferVars, outputVars>>

SendAck         == SendPendingAck(pendingAck)
SendAckWithData == SendPendingAck(IF pendingAck = 0 THEN 0 ELSE 1)

-----------------------------------------------------------------------------
(* Network: what was received may arrive again until it is lost. *)

LosePacket(sn) ==
  /\ packets' = packets \ {sn}
  /\ UNCHANGED <<channelType, senderVars, receiverVars, acks>>

LoseAck(ack) ==
  /\ acks' = acks \ {ack}
  /\ UNCHANGED <<channelType, senderVars, packets, receiverVars>>

Next ==
  \/ \E n \in 1 .. MaxParts : Send(n)
  \/ \E due \in SUBSET sendBuffer : RtoTimeout(due)
  \/ \E sn \in packets : Receive(sn)
  \/ \E sn \in OtherSns : BufferOther(sn) \/ RemoveOther(sn)
  \/ SendAck
  \/ SendAckWithData
  \/ \E ack \in acks : ReceiveAck(ack)
  \/ \E sn \in packets : LosePacket(sn)
  \/ \E ack \in acks : LoseAck(ack)

Spec == Init /\ [][Next]_vars

Sns == InitialSn .. InitialSn + MaxSent - 1

\* As on a reliable ordered channel: parts are sent again until they are
\* acknowledged, what is sent over and over arrives, and not each tick finds
\* data of the other direction to put the acknowledgement with.
Fairness ==
  /\ SF_vars(SendAck)
  /\ \A sn \in Sns :
       /\ WF_vars(\E due \in SUBSET sendBuffer : sn \in due /\ RtoTimeout(due))
       /\ SF_vars(Receive(sn))
       /\ SF_vars(ReceiveAck(Wrap(sn)))

FairSpec == Spec /\ Fairness

-----------------------------------------------------------------------------
(* Properties *)

\* The types of the state; the receiver buffer keeps to its size.
TypeOK ==
  /\ channelType \in ChannelTypes
  /\ stream \in Seq(Part)
  /\ sendBuffer \subseteq Sns /\ packets \subseteq Sns /\ reported \subseteq Sns
  /\ reference \in Nat
  /\ memo \in Nat \cup {None}
  /\ tree \in [DOMAIN tree -> Part] /\ DOMAIN tree \subseteq Sns
  /\ others \subseteq OtherSns
  /\ Cardinality(DOMAIN tree) + Cardinality(others) <= ReceiverBufferSize
  /\ sets \subseteq MessageSet
  /\ delivered \in Seq(Seq(Part)) /\ repeated \in BOOLEAN
  /\ pendingAck \in Wrapped \cup {None} /\ acks \subseteq Wrapped
  /\ crashed \in BOOLEAN /\ mixed \in BOOLEAN

\* A message as it was handed to send(): consecutive parts from a first one to
\* the last one of the same message.
IsSentMessage(message) ==
  LET n == Len(message) IN
  /\ n > 0
  /\ \A i \in 1 .. n : /\ message[i] = PartOf(message[1].data + i - 1)
                       /\ message[i].first <=> i = 1
                       /\ message[i].last <=> i = n

\* README.md, channel types 2 and 3: messages never arrive as duplicates.
NoDuplicates == ~repeated

\* On an unreliable sequenced channel, as type 2 says.
SequencedOnce == channelType = "unreliableSequenced" => NoDuplicates

\* What the application was told is lost is not handed to it afterwards.
ReportedIsLost ==
  \A i \in 1 .. Len(delivered) : \A j \in 1 .. Len(delivered[i]) :
     delivered[i][j].data \notin reported

\* README.md, channel types 2 and 3: whole messages, as they were sent, and
\* never an older one after a newer one; on type 2 none is emitted twice, and on
\* both none of which a part was reported as lost.
WholeAndInOrder ==
  /\ TypeOK /\ SequencedOnce /\ ReportedIsLost
  /\ \A i \in 1 .. Len(delivered) : IsSentMessage(delivered[i])
  /\ \A i \in 1 .. Len(delivered) - 1 :
        Last(delivered[i]).data < delivered[i + 1][1].data

\* The assertions of the receiver hold: the size that the sets add up for a
\* message is that of its parts in the tree (EmiReceiverBuffer.h:403, 414), and
\* only whole messages are removed from the sets (:223).
AssertionsHold == ~crashed

\* No assertion fails as long as no part of another channel is put into a
\* message; and for the messages that the tree still has parts of, the sets know
\* what the tree has: the set of a part is the unbroken run of buffered parts
\* around it, with the flags and the size of that run.
SetsKnowTree ==
  (crashed => mixed) /\ \A sn \in DOMAIN tree :
    /\ InSet(sets, sn)
    /\ LET set == SetOf(sets, sn)
           run == set.firstMessage .. set.lastMessage
       IN  /\ run = set.members \cap DOMAIN tree
           /\ set.size = Cardinality(run)
           /\ set.hasFirst <=> \E s \in run : tree[s].first
           /\ set.hasLast  <=> \E s \in run : tree[s].last
           /\ set.firstMessage - 1 \in DOMAIN tree => tree[set.firstMessage].first

\* The parts of the message sent last.
LastMessage ==
  {sn \in InitialSn .. SequenceMemo - 1 :
     \A s \in sn .. SequenceMemo - 1 : s = SequenceMemo - 1 \/ ~PartOf(s).last}

\* The receiver has part number sn in its buffer, or it emitted its message.
Received(sn) ==
  \/ sn \in DOMAIN tree
  \/ /\ delivered # <<>>
     /\ \E i \in 1 .. Len(Last(delivered)) : Last(delivered)[i].data = sn

\* README.md, channel type 3: the sender keeps each part of the last message
\* until the receiver has it.
LastIsKept ==
  Reliable => \A sn \in LastMessage : sn \in sendBuffer \/ Received(sn)

\* README.md, channel type 3: the last message arrives in the end, and the
\* sender learns of it, unless a part of another channel ends the process.
LastArrives ==
  []<>(Reliable /\ ~mixed =>
         /\ sendBuffer = {}
         /\ stream # <<>> => /\ delivered # <<>>
                            /\ Last(Last(delivered)).data = SequenceMemo - 1)
=============================================================================
