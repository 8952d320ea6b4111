----------------------- MODULE ReliableOrdered_proofs -----------------------
(***************************************************************************)
(* Proofs about the RELIABLE_ORDERED channel, for every value of the       *)
(* constants: the types and the capacity of both buffers; below the wrap   *)
(* of the sequence number, that delivery is in order and implements        *)
(* OrderedDelivery; and with a receiver buffer that is large enough, that  *)
(* the sender forgets no part the receiver could still lose.               *)
(***************************************************************************)
EXTENDS ReliableOrdered, SeqNum_proofs, FiniteSetTheorems

-----------------------------------------------------------------------------
(* Lemmas about the operators of the model *)

\* A wrapped number has 24 bits.
LEMMA WrapType ==
  ASSUME NEW sn \in Int
  PROVE  Wrap(sn) \in Wrapped
  BY SeqNumAssumption DEF Wrap, Wrapped

\* EmiSendQueue::enqueueAck keeps one of the two acknowledgements.
LEMMA EnqueueAckIsOne ==
  ASSUME NEW pending, NEW ack
  PROVE  /\ EnqueueAck(pending, ack) \in {pending, ack}
         /\ EnqueueAck(None, ack) = ack
  BY CyclicMaxIsOne DEF EnqueueAck

\* The guess of a number never falls below zero.
LEMMA GuessType ==
  ASSUME NEW packet \in Packet, expected \in Nat
  PROVE  Guess(packet) \in Nat
<1>1. packet.sn \in Nat /\ packet.sn \in Int
  BY DEF Packet, Wrapped
<1>2. Wrap(expected) \in Int
  BY WrapType DEF Wrapped
<1>3. CyclicDifferenceSigned(Wrap(expected), packet.sn) \in Int
  BY <1>1, <1>2, SeqNumAssumption
  DEF CyclicDifferenceSigned, CyclicDifference
<1>4. QED
  BY <1>1, <1>3 DEF Guess, GuessFromExpected

-----------------------------------------------------------------------------
(* Types *)

\* A receiver buffer of parts, no larger than it may be.
BufferType(T) ==
  /\ T \in [DOMAIN T -> Part] /\ DOMAIN T \in SUBSET Nat
  /\ IsFiniteSet(DOMAIN T) /\ Cardinality(DOMAIN T) <= ReceiverBufferSize

AckType(pending) == pending \in Wrapped \cup {None}

\* What TypeOK needs to be inductive: both buffers are finite, and the packets
\* made from the sender buffer carry parts of the stream.
TypeInv ==
  /\ TypeOK
  /\ IsFiniteSet(sendBuffer) /\ IsFiniteSet(DOMAIN tree)
  /\ sequenceMemo = After(Len(stream))
  /\ sendBuffer \subseteq InitialSn .. sequenceMemo - 1

LEMMA AckOnArrivalType ==
  ASSUME TypeOK, NEW packet \in packets
  PROVE  AckType(AckOnArrival(packet))
<1>1. Guess(packet) \in Nat
  BY GuessType DEF TypeOK
<1>2. Wrap(IF Guess(packet) = expected THEN Guess(packet) ELSE expected - 1) \in Wrapped
  BY <1>1, WrapType DEF TypeOK
<1>3. QED
  BY <1>2, EnqueueAckIsOne DEF AckOnArrival, AckType, TypeOK

\* bufferMessage never exceeds the size of the buffer.
LEMMA BufferMessageType ==
  ASSUME NEW T, BufferType(T), NEW sn \in Nat, NEW part \in Part
  PROVE  BufferType(BufferMessage(T, sn, part))
<1>1. CASE Cardinality(DOMAIN T) < ReceiverBufferSize /\ sn \notin DOMAIN T
  <2> DEFINE U == [s \in DOMAIN T \cup {sn} |-> IF s = sn THEN part ELSE T[s]]
  <2>1. DOMAIN U = DOMAIN T \cup {sn} /\ U \in [DOMAIN U -> Part]
    BY DEF BufferType
  <2>2. IsFiniteSet(DOMAIN U) /\ Cardinality(DOMAIN U) = Cardinality(DOMAIN T) + 1
    BY <1>1, <2>1, FS_AddElement DEF BufferType
  <2>3. Cardinality(DOMAIN T) \in Nat /\ ReceiverBufferSize \in Nat
    BY FS_CardinalityType, ChannelAssumption DEF BufferType
  <2>4. BufferType(U)
    BY <1>1, <2>1, <2>2, <2>3 DEF BufferType
  <2>5. QED
    BY <1>1, <2>4 DEF BufferMessage
<1>2. CASE ~(Cardinality(DOMAIN T) < ReceiverBufferSize /\ sn \notin DOMAIN T)
  BY <1>2 DEF BufferMessage
<1>3. QED
  BY <1>1, <1>2

LEMMA FlushBufferType ==
  ASSUME NEW T, BufferType(T), NEW next \in Nat, NEW out \in Seq(Part),
         NEW pending, AckType(pending), FlushBuffer(T, next, out, pending)
  PROVE  /\ expected' \in Nat /\ BufferType(tree')
         /\ delivered' \in Seq(Part) /\ AckType(pendingAck')
<1>1. CASE NothingToFlush(T, next)
  BY <1>1 DEF FlushBuffer, BufferType, AckType
<1>2. CASE ~NothingToFlush(T, next)
  <2>1. PICK lo, hi \in DOMAIN T : \E done \in lo - 1 .. hi :
          /\ FirstRun(T, lo, hi)
          /\ tree' = [s \in {s \in DOMAIN T : s > done} |-> T[s]]
          /\ expected' = hi + 1
          /\ delivered' = out \o [i \in 1 .. done - lo + 1 |-> T[lo + i - 1]]
          /\ pendingAck' = EnqueueAck(pending, Wrap(hi))
    BY <1>2 DEF FlushBuffer
  <2>2. PICK done \in lo - 1 .. hi :
          /\ FirstRun(T, lo, hi)
          /\ tree' = [s \in {s \in DOMAIN T : s > done} |-> T[s]]
          /\ expected' = hi + 1
          /\ delivered' = out \o [i \in 1 .. done - lo + 1 |-> T[lo + i - 1]]
          /\ pendingAck' = EnqueueAck(pending, Wrap(hi))
    BY <2>1
  <2>3. lo \in Nat /\ hi \in Nat /\ done \in Int
    BY DEF BufferType
  <2>4. expected' \in Nat
    BY <2>2, <2>3
  <2>5. BufferType(tree')
    <3> DEFINE D == {s \in DOMAIN T : s > done}
    <3>1. DOMAIN tree' = D /\ D \subseteq DOMAIN T
      BY <2>2
    <3>2. IsFiniteSet(D) /\ Cardinality(D) <= Cardinality(DOMAIN T)
      BY FS_Subset, <3>1 DEF BufferType
    <3>3. Cardinality(D) \in Nat /\ Cardinality(DOMAIN T) \in Nat /\ ReceiverBufferSize \in Nat
      BY <3>2, FS_CardinalityType, ChannelAssumption DEF BufferType
    <3>4. Cardinality(D) <= ReceiverBufferSize
      BY <3>2, <3>3 DEF BufferType
    <3>5. tree' \in [D -> Part] /\ D \in SUBSET Nat
      BY <2>2 DEF BufferType
    <3>6. QED
      BY <3>1, <3>2, <3>4, <3>5 DEF BufferType
  <2>6. delivered' \in Seq(Part)
    <3> DEFINE new == [i \in 1 .. done - lo + 1 |-> T[lo + i - 1]]
    <3>1. \A i \in 1 .. done - lo + 1 : lo + i - 1 \in lo .. hi
      BY <2>3
    <3>2. \A i \in 1 .. done - lo + 1 : T[lo + i - 1] \in Part
      BY <2>2, <3>1 DEF FirstRun, BufferType
    <3>3. done - lo + 1 \in Nat
      BY <2>3
    <3>4. new \in Seq(Part)
      BY <3>2, <3>3
    <3>5. QED
      BY <3>4, <2>2
  <2>7. AckType(pendingAck')
    <3>1. pendingAck' = EnqueueAck(pending, Wrap(hi)) /\ Wrap(hi) \in Wrapped
      BY <2>2, <2>3, WrapType
    <3>2. QED
      BY <3>1, EnqueueAckIsOne DEF AckType
  <2>8. QED
    BY <2>4, <2>5, <2>6, <2>7 DEF BufferType, AckType
<1>3. QED
  BY <1>1, <1>2

\* A packet is made of a part the sender still has.
LEMMA PacketOfType ==
  ASSUME NEW s \in Seq(Part), NEW sn \in InitialSn .. After(Len(s)) - 1
  PROVE  PacketOf(s, sn) \in Packet
<1>1. InitialSn \in Int /\ Len(s) \in Nat /\ sn \in Int
  BY ChannelAssumption DEF Wrapped, After
<1>2. sn - InitialSn + 1 \in 1 .. Len(s)
  BY <1>1 DEF After
<1>3. QED
  BY <1>1, <1>2, WrapType DEF PacketOf, Packet

LEMMA TypeInit == Init => TypeInv
<1> SUFFICES ASSUME Init PROVE TypeInv
  OBVIOUS
<1>1. IsFiniteSet({}) /\ Cardinality({}) = 0
  BY FS_EmptySet
<1>2. InitialSn \in Nat /\ SenderBufferSize \in Nat /\ ReceiverBufferSize \in Nat
  BY ChannelAssumption DEF Wrapped
<1>3. DOMAIN tree = {}
  BY DEF Init
<1>4. TypeOK
  BY <1>1, <1>2, <1>3 DEF Init, TypeOK
<1>5. QED
  BY <1>1, <1>2, <1>3, <1>4 DEF Init, TypeInv, After

\* Sending keeps the types, and the sender buffer within its size although the
\* size is checked once for all parts of the message.
LEMMA TypeSend ==
  ASSUME TypeInv, NEW n \in 1 .. MaxParts, Send(n)
  PROVE  TypeInv'
<1> DEFINE parts == [i \in 1 .. n |->
                [data |-> sequenceMemo + i - 1, first |-> i = 1, last |-> i = n]]
           new   == sequenceMemo .. sequenceMemo + n - 1
<1>1. n \in Nat /\ sequenceMemo \in Nat /\ InitialSn \in Nat /\ Len(stream) \in Nat
  BY ChannelAssumption DEF TypeInv, TypeOK, Wrapped
<1>2. stream' \in Seq(Part) /\ Len(stream') = Len(stream) + n
  <2>1. \A i \in 1 .. n : sequenceMemo + i - 1 \in Nat
    BY <1>1
  <2>2. parts \in Seq(Part) /\ Len(parts) = n
    BY <1>1, <2>1 DEF Part
  <2>3. stream' = stream \o parts
    BY DEF Send
  <2>4. QED
    BY <2>2, <2>3 DEF TypeInv, TypeOK
<1>3. sequenceMemo' = sequenceMemo + n /\ sequenceMemo' = After(Len(stream'))
  BY <1>1, <1>2 DEF Send, TypeInv, After
<1>4. new \subseteq InitialSn .. After(Len(stream')) - 1
  BY <1>1, <1>2 DEF TypeInv, After
<1>5. sendBuffer' = sendBuffer \cup new
  BY DEF Send
<1>6. IsFiniteSet(sendBuffer') /\ Cardinality(sendBuffer') <= SenderBufferSize
  <2>1. IsFiniteSet(new) /\ Cardinality(new) = n
    <3>1. sequenceMemo \in Int /\ sequenceMemo + n - 1 \in Int
          /\ ~(sequenceMemo > sequenceMemo + n - 1)
      BY <1>1
    <3>2. IsFiniteSet(new)
          /\ Cardinality(new) = sequenceMemo + n - 1 - sequenceMemo + 1
      BY <3>1, FS_Interval
    <3>3. QED
      BY <1>1, <3>2
  <2>2. new \cap sendBuffer = {}
    BY <1>1 DEF TypeInv
  <2>3. IsFiniteSet(sendBuffer') /\
        Cardinality(sendBuffer') = Cardinality(sendBuffer) + n - Cardinality({})
    <3>1. sendBuffer \cap new = {} /\ IsFiniteSet(sendBuffer)
      BY <2>2 DEF TypeInv
    <3>2. IsFiniteSet(sendBuffer \cup new) /\ Cardinality(sendBuffer \cup new)
            = Cardinality(sendBuffer) + Cardinality(new) - Cardinality(sendBuffer \cap new)
      <4> HIDE DEF new
      <4> QED
        BY <2>1, <3>1, FS_Union
    <3>3. QED
      BY <1>5, <2>1, <3>1, <3>2
  <2>4. Cardinality({}) = 0 /\ Cardinality(sendBuffer) \in Nat
    BY FS_EmptySet, FS_CardinalityType DEF TypeInv
  <2>5. QED
    BY <1>1, <2>3, <2>4, ChannelAssumption DEF Send, FitsIntoBuffer
<1>7. packets' \in SUBSET Packet
  <2>1. \A sn \in new : PacketOf(stream', sn) \in Packet
    BY <1>2, <1>4, PacketOfType
  <2>2. QED
    BY <2>1 DEF Send, TypeInv, TypeOK
<1>8. UNCHANGED <<receiverVars, acks>>
  BY DEF Send
<1>9. sendBuffer' \subseteq InitialSn .. sequenceMemo' - 1 /\ sendBuffer' \in SUBSET Nat
  <2>1. sendBuffer \subseteq InitialSn .. sequenceMemo - 1 /\ InitialSn <= sequenceMemo
    BY <1>1 DEF TypeInv, After
  <2>2. ASSUME NEW b \in sendBuffer \cup new
        PROVE  b \in InitialSn .. sequenceMemo' - 1 /\ b \in Nat
    BY <1>1, <1>3, <2>1
  <2>3. QED
    BY <1>5, <2>2
<1>10. TypeOK'
  BY <1>1, <1>2, <1>3, <1>6, <1>7, <1>8, <1>9 DEF TypeInv, TypeOK, receiverVars
<1>11. QED
  BY <1>3, <1>6, <1>8, <1>9, <1>10 DEF TypeInv, receiverVars, After

\* Forgetting acknowledged parts leaves a part of the sender buffer.
LEMMA TypeReceiveAck ==
  ASSUME TypeInv, NEW ack \in acks, ReceiveAck(ack)
  PROVE  TypeInv'
<1>1. sendBuffer' \subseteq sendBuffer
  BY DEF ReceiveAck, Deregister
<1>2. IsFiniteSet(sendBuffer') /\ Cardinality(sendBuffer') <= Cardinality(sendBuffer)
  BY <1>1, FS_Subset DEF TypeInv
<1>3. Cardinality(sendBuffer') <= SenderBufferSize
  BY <1>2, FS_CardinalityType, ChannelAssumption DEF TypeInv, TypeOK
<1>4. QED
  BY <1>1, <1>2, <1>3 DEF TypeInv, TypeOK, ReceiveAck, receiverVars, After

\* Whatever packet arrives, the receiver keeps its types.
LEMMA TypeReceive ==
  ASSUME TypeInv, NEW packet \in packets, Receive(packet)
  PROVE  TypeInv'
<1>1. packet \in Packet /\ packet.part \in Part /\ expected \in Nat
      /\ BufferType(tree) /\ delivered \in Seq(Part)
  BY DEF TypeInv, TypeOK, Packet, BufferType
<1>2. AckType(AckOnArrival(packet)) /\ Guess(packet) \in Nat
  BY <1>1, AckOnArrivalType, GuessType DEF TypeInv
<1> DEFINE Goal == /\ expected' \in Nat /\ BufferType(tree')
                   /\ delivered' \in Seq(Part) /\ AckType(pendingAck')
<1>3. ASSUME ReceiveExpected(packet) PROVE Goal
  <2>1. expected + 1 \in Nat /\ Append(delivered, packet.part) \in Seq(Part)
    BY <1>1
  <2>2. FlushBuffer(tree, expected + 1, Append(delivered, packet.part), AckOnArrival(packet))
    BY <1>3 DEF ReceiveExpected
  <2>3. Goal
    BY <1>1, <1>2, <2>1, <2>2, FlushBufferType
  <2>4. QED
    BY <2>3
<1>4. ASSUME ReceiveIntoBuffer(packet) PROVE Goal
  <2> DEFINE T == BufferMessage(tree, Guess(packet), packet.part)
  <2>1. BufferType(T)
    BY <1>1, <1>2, BufferMessageType
  <2>2. FlushBuffer(T, expected, delivered, AckOnArrival(packet))
    BY <1>4 DEF ReceiveIntoBuffer
  <2> HIDE DEF T
  <2>3. Goal
    BY <1>1, <1>2, <2>1, <2>2, FlushBufferType
  <2>4. QED
    BY <2>3
<1>5. ASSUME ReceiveOld(packet) PROVE Goal
  BY <1>1, <1>2, <1>5 DEF ReceiveOld, BufferType, AckType
<1>6. Goal
  BY <1>3, <1>4, <1>5 DEF Receive
<1>7. UNCHANGED <<senderVars, packets, acks>>
  BY DEF Receive
<1>8. QED
  BY <1>6, <1>7 DEF TypeInv, TypeOK, senderVars, BufferType, AckType, After

LEMMA TypeNext == TypeInv /\ [Next]_vars => TypeInv'
<1> SUFFICES ASSUME TypeInv, [Next]_vars PROVE TypeInv'
  OBVIOUS
<1>1. CASE \E n \in 1 .. MaxParts : Send(n)
  BY <1>1, TypeSend
<1>2. ASSUME NEW due \in SUBSET sendBuffer, RtoTimeout(due)
      PROVE  TypeInv'
  <2>1. \A sn \in due : PacketOf(stream, sn) \in Packet
    BY PacketOfType DEF TypeInv, TypeOK
  <2>2. packets' \in SUBSET Packet
    BY <1>2, <2>1 DEF RtoTimeout, TypeInv, TypeOK
  <2>3. QED
    BY <1>2, <2>2 DEF RtoTimeout, TypeInv, TypeOK, senderVars, receiverVars, After
<1>3. CASE \E packet \in packets : Receive(packet)
  BY <1>3, TypeReceive
<1>4. CASE SendAck \/ SendAckWithData
  <2>1. PICK ack \in Wrapped : SendPendingAck(ack)
    <3>1. pendingAck # None
      BY <1>4 DEF SendAck, SendAckWithData, SendPendingAck
    <3>2. AckAlone(pendingAck) \in Wrapped /\ AckWithData(pendingAck) \in Wrapped
      BY <3>1, SeqNumAssumption DEF AckAlone, AckWithData, TypeInv, TypeOK, Wrapped
    <3>3. QED
      BY <1>4, <3>2 DEF SendAck, SendAckWithData
  <2>2. QED
    BY <2>1 DEF SendPendingAck, TypeInv, TypeOK, senderVars, After
<1>5. CASE \E ack \in acks : ReceiveAck(ack)
  BY <1>5, TypeReceiveAck
<1>6. CASE \E packet \in packets : LosePacket(packet)
  BY <1>6 DEF LosePacket, TypeInv, TypeOK, senderVars, receiverVars, After
<1>7. CASE \E ack \in acks : LoseAck(ack)
  BY <1>7 DEF LoseAck, TypeInv, TypeOK, senderVars, receiverVars, After
<1>8. CASE UNCHANGED vars
  BY <1>8 DEF vars, TypeInv, TypeOK, senderVars, receiverVars, After
<1>9. QED
  BY <1>1, <1>2, <1>3, <1>4, <1>5, <1>6, <1>7, <1>8 DEF Next

\* The types hold, and neither buffer ever holds more than its size, for a
\* message of any number of parts (EmiSenderBuffer::fitsIntoBuffer,
\* EmiReceiverBuffer::bufferMessage).
THEOREM TypeCorrect == Spec => []TypeOK
<1>1. TypeInv => TypeOK
  BY DEF TypeInv
<1>2. QED
  BY TypeInit, TypeNext, <1>1, PTL DEF Spec

-----------------------------------------------------------------------------
(* Delivery in order *)

\* The numbers of a behaviour without a wrap, and what they wrap to.
LEMMA Bounds ==
  ASSUME NoWrap, TypeInv, OrderInv
  PROVE  /\ InitialSn \in Nat /\ Len(stream) \in Nat /\ Len(delivered) \in Nat
         /\ sequenceMemo = InitialSn + Len(stream)
         /\ sequenceMemo \in Wrapped /\ expected \in Wrapped
         /\ expected \in InitialSn + Len(delivered) .. sequenceMemo
         /\ sequenceMemo - InitialSn <= Mask \div 2 /\ Mask \div 2 \in Nat
<1>1. InitialSn \in Nat /\ MaxSent \in Nat /\ Mask \in Nat /\ Mask \div 2 \in Nat
      /\ InitialSn + MaxSent <= Mask /\ MaxSent <= Mask \div 2
  BY ChannelAssumption, SeqNumAssumption DEF Wrapped, NoWrap
<1>2. Len(stream) \in Nat /\ Len(delivered) \in Nat /\ Len(stream) <= MaxSent
      /\ sequenceMemo = InitialSn + Len(stream) /\ Len(delivered) <= Len(stream)
      /\ expected \in InitialSn + Len(delivered) .. sequenceMemo
  BY DEF OrderInv, StreamInv, ReceiverInv, TypeInv, TypeOK, After
<1>3. QED
  BY <1>1, <1>2 DEF Wrapped

\* Below the wrap the receiver guesses the number of every packet right.
LEMMA GuessIsExact ==
  ASSUME NoWrap, TypeInv, OrderInv, NEW packet \in packets
  PROVE  /\ packet.sn \in InitialSn .. sequenceMemo - 1
         /\ packet.part = PartOf(packet.sn)
         /\ packet.part \in Part
         /\ Guess(packet) = packet.sn
<1>1. packet.sn \in InitialSn .. sequenceMemo - 1 /\ packet.part = PartOf(packet.sn)
  BY DEF OrderInv, PacketInv
<1>2. packet.part \in Part
  BY DEF TypeInv, TypeOK, Packet
<1>3. /\ expected \in Wrapped /\ packet.sn \in Wrapped
      /\ expected - packet.sn <= Mask \div 2 /\ packet.sn - expected < Mask \div 2
  BY <1>1, Bounds, SeqNumAssumption DEF Wrapped
<1>4. QED
  BY <1>1, <1>2, <1>3, GuessFromExpectedIsExact DEF Guess

\* The packet made from a part carries the number and the part.
LEMMA PacketOfIsExact ==
  ASSUME NEW s, NEW sn \in Wrapped
  PROVE  PacketOf(s, sn) = [sn |-> sn, part |-> s[sn - InitialSn + 1]]
  BY WrapIsIdentity DEF PacketOf

\* What Send does to the stream.
LEMMA SendStream ==
  ASSUME TypeInv, NEW n \in 1 .. MaxParts, Send(n)
  PROVE  /\ n \in Nat /\ n >= 1 /\ Len(stream) \in Nat
         /\ Len(stream') = Len(stream) + n /\ Len(stream') <= MaxSent
         /\ \A i \in 1 .. Len(stream) : stream'[i] = stream[i]
         /\ \A i \in Len(stream) + 1 .. Len(stream') :
              /\ stream'[i].first <=> i = Len(stream) + 1
              /\ stream'[i].last <=> i = Len(stream')
<1> DEFINE parts == [i \in 1 .. n |->
                [data |-> sequenceMemo + i - 1, first |-> i = 1, last |-> i = n]]
<1>1. n \in Nat /\ n >= 1 /\ sequenceMemo \in Nat /\ Len(stream) \in Nat
  BY ChannelAssumption DEF TypeInv, TypeOK
<1>2. parts \in Seq(Part) /\ Len(parts) = n
  <2>1. \A i \in 1 .. n : sequenceMemo + i - 1 \in Nat
    BY <1>1
  <2>2. QED
    BY <1>1, <2>1 DEF Part
<1>3. stream' = stream \o parts /\ stream \in Seq(Part) /\ Len(stream) + n <= MaxSent
  BY DEF Send, TypeInv, TypeOK
<1>4. Len(stream') = Len(stream) + n
  BY <1>2, <1>3
<1>5. \A i \in 1 .. Len(stream) : stream'[i] = stream[i]
  BY <1>1, <1>2, <1>3
<1>6. ASSUME NEW i \in Len(stream) + 1 .. Len(stream')
      PROVE  /\ stream'[i].first <=> i = Len(stream) + 1
             /\ stream'[i].last <=> i = Len(stream')
  <2>1. i - Len(stream) \in 1 .. n /\ stream'[i] = parts[i - Len(stream)]
    BY <1>1, <1>2, <1>3, <1>4
  <2>2. /\ stream'[i].first = (i - Len(stream) = 1)
        /\ stream'[i].last = (i - Len(stream) = n)
    BY <2>1
  <2>3. (i - Len(stream) = 1 <=> i = Len(stream) + 1)
        /\ (i - Len(stream) = n <=> i = Len(stream'))
    BY <1>1, <1>4
  <2> HIDE DEF parts
  <2>4. QED
    BY <2>2, <2>3, Zenon
<1>7. QED
  BY <1>1, <1>3, <1>4, <1>5, <1>6

\* Sequences as functions, and what an output is when parts are put at its end.
LEMMA FunctionIsSequence ==
  ASSUME NEW S, NEW n \in Nat, NEW f \in [1 .. n -> S]
  PROVE  f \in Seq(S) /\ Len(f) = n
OBVIOUS

LEMMA OutputGrows ==
  ASSUME NEW S, NEW s \in Seq(S), NEW t \in Seq(S)
  PROVE  /\ s \o t \in Seq(S) /\ Len(s \o t) = Len(s) + Len(t)
         /\ \A i \in 1 .. Len(s) : (s \o t)[i] = s[i]
         /\ \A i \in 1 .. Len(t) : (s \o t)[Len(s) + i] = t[i]
OBVIOUS

(***************************************************************************)
(* The heart of the proof: flushing a buffer that holds parts of the       *)
(* stream extends the output by whole messages, without a gap, and leaves  *)
(* the next expected part outside of the buffer.                           *)
(***************************************************************************)
LEMMA FlushBufferOrder ==
  ASSUME TypeInv, StreamInv,
         NEW T, DOMAIN T \subseteq Nat, NEW next \in Nat, NEW out \in Seq(Part),
         NEW pending, ReceiverInv(next, T, out), FlushBuffer(T, next, out, pending)
  PROVE  /\ ReceiverInv(expected', tree', delivered')
         /\ expected' \notin DOMAIN T /\ expected' \notin DOMAIN tree'
         /\ expected' >= next /\ Len(delivered') >= Len(out)
         /\ \/ pendingAck' = pending
            \/ /\ expected' - 1 \in DOMAIN T
               /\ pendingAck' = EnqueueAck(pending, Wrap(expected' - 1))
<1> DEFINE base == After(Len(out))
<1>1. /\ Len(out) \in Nat /\ InitialSn \in Nat /\ base = InitialSn + Len(out)
      /\ base <= next /\ base \in Nat /\ next <= sequenceMemo
      /\ Len(stream) \in Nat /\ sequenceMemo = InitialSn + Len(stream)
      /\ Len(out) <= Len(stream)
  BY ChannelAssumption DEF Wrapped, TypeInv, TypeOK, StreamInv, ReceiverInv, After
<1>2. /\ \A sn \in DOMAIN T :
           sn \in base .. sequenceMemo - 1 /\ T[sn] = PartOf(sn)
      /\ \A sn \in base .. next - 1 : sn \in DOMAIN T /\ ~PartOf(sn).last
      /\ \A i \in 1 .. Len(out) : out[i] = stream[i]
      /\ out # <<>> => stream[Len(out)].last
  BY DEF ReceiverInv
<1> HIDE DEF base
<1>3. CASE NothingToFlush(T, next)
  <2>1. next \notin DOMAIN T
    <3>1. SUFFICES ASSUME next \in DOMAIN T PROVE FALSE
      OBVIOUS
    <3>2. base \in DOMAIN T
      BY <1>1, <1>2, <3>1
    <3>3. \A s \in DOMAIN T : base <= s
      BY <1>1, <1>2
    <3>4. ~T[base].first
      BY <1>1, <1>3, <3>2, <3>3 DEF NothingToFlush
    <3>5. T[base] = stream[Len(out) + 1] /\ Len(out) + 1 \in 1 .. Len(stream)
      <4>1. T[base] = PartOf(base) /\ base - InitialSn + 1 = Len(out) + 1
            /\ Len(out) + 1 \in 1 .. Len(stream)
        BY <1>1, <1>2, <3>2
      <4>2. QED
        BY <4>1, Zenon DEF PartOf
    <3>6. Len(out) = 0 \/ stream[Len(out)].last
      BY <1>1, <1>2
    <3>7. stream[Len(out) + 1].first
          <=> (Len(out) + 1 = 1 \/ stream[Len(out) + 1 - 1].last)
      BY <3>5 DEF StreamInv
    <3>8. QED
      BY <1>1, <3>4, <3>5, <3>6, <3>7
  <2>2. tree' = T /\ expected' = next /\ delivered' = out /\ pendingAck' = pending
    BY <1>3 DEF FlushBuffer
  <2>3. QED
    BY <1>1, <2>1, <2>2
<1>4. CASE ~NothingToFlush(T, next)
  <2>1. PICK lo \in DOMAIN T, hi \in DOMAIN T : \E done \in lo - 1 .. hi :
          /\ FirstRun(T, lo, hi) /\ WholeMessages(T, lo, hi, done)
          /\ tree' = [s \in {s \in DOMAIN T : s > done} |-> T[s]]
          /\ expected' = hi + 1
          /\ delivered' = out \o [i \in 1 .. done - lo + 1 |-> T[lo + i - 1]]
          /\ pendingAck' = EnqueueAck(pending, Wrap(hi))
    BY <1>4 DEF FlushBuffer
  <2>2. PICK done \in lo - 1 .. hi :
          /\ FirstRun(T, lo, hi) /\ WholeMessages(T, lo, hi, done)
          /\ tree' = [s \in {s \in DOMAIN T : s > done} |-> T[s]]
          /\ expected' = hi + 1
          /\ delivered' = out \o [i \in 1 .. done - lo + 1 |-> T[lo + i - 1]]
          /\ pendingAck' = EnqueueAck(pending, Wrap(hi))
    BY <2>1
  <2>3. lo \in Nat /\ hi \in Nat /\ done \in Int /\ lo <= hi /\ done <= hi /\ lo - 1 <= done
    BY <2>2 DEF FirstRun
  <2>4. lo = base
    <3>1. lo <= next
      <4>1. PICK first \in DOMAIN T : (\A s \in DOMAIN T : first <= s) /\ ~(first > next)
        BY <1>4 DEF NothingToFlush
      <4>2. QED
        BY <1>1, <2>2, <4>1 DEF FirstRun
    <3>2. base <= lo
      BY <1>1, <1>2, <2>3
    <3>3. base < next => lo <= base
      BY <1>1, <1>2, <2>2 DEF FirstRun
    <3>4. QED
      BY <1>1, <2>3, <3>1, <3>2, <3>3
  <2>5. next <= hi + 1
    <3>1. hi + 1 \notin DOMAIN T
      BY <2>2 DEF FirstRun
    <3>2. QED
      BY <1>1, <1>2, <2>3, <2>4, <3>1
  <2>6. hi <= sequenceMemo - 1
    BY <1>1, <1>2
  <2> DEFINE new == [i \in 1 .. done - lo + 1 |-> T[lo + i - 1]]
  <2>7. /\ new \in Seq(Part) /\ Len(new) = done - base + 1 /\ done - base + 1 \in Nat
        /\ \A i \in 1 .. done - base + 1 : new[i] = stream[Len(out) + i]
    <3>1. ASSUME NEW i \in 1 .. done - base + 1
          PROVE  /\ lo + i - 1 \in DOMAIN T /\ T[lo + i - 1] = stream[Len(out) + i]
                 /\ T[lo + i - 1] \in Part
      <4>1. lo + i - 1 \in lo .. hi
        BY <2>3, <2>4
      <4>2. lo + i - 1 \in DOMAIN T
        BY <2>2, <4>1 DEF FirstRun
      <4>3. T[lo + i - 1] = PartOf(lo + i - 1)
        BY <1>2, <4>2
      <4>4. (lo + i - 1) - InitialSn + 1 = Len(out) + i
        BY <1>1, <2>3, <2>4
      <4>5. Len(out) + i \in 1 .. Len(stream)
        BY <1>1, <2>3, <2>4, <2>6
      <4>6. stream[Len(out) + i] \in Part
        BY <4>5 DEF TypeInv, TypeOK
      <4>7. T[lo + i - 1] = stream[Len(out) + i]
        BY <4>3, <4>4, Zenon DEF PartOf
      <4>8. QED
        BY <4>2, <4>6, <4>7
    <3>2. done - base + 1 \in Nat /\ done - lo + 1 = done - base + 1
      BY <1>1, <2>3, <2>4
    <3>3. new = [i \in 1 .. done - base + 1 |-> T[lo + i - 1]]
      BY <3>2
    <3>4. new \in [1 .. done - base + 1 -> Part]
      BY <3>1, <3>3
    <3>5. \A i \in 1 .. done - base + 1 : new[i] = stream[Len(out) + i]
      BY <3>1, <3>3
    <3> HIDE DEF new
    <3>6. new \in Seq(Part) /\ Len(new) = done - base + 1
      BY <3>2, <3>4, FunctionIsSequence
    <3>7. QED
      BY <3>2, <3>5, <3>6
  <2>8. /\ delivered' \in Seq(Part) /\ Len(delivered') = Len(out) + (done - base + 1)
        /\ \A i \in 1 .. Len(out) : delivered'[i] = out[i]
        /\ \A i \in 1 .. done - base + 1 : delivered'[Len(out) + i] = new[i]
    <3>1. delivered' = out \o new
      BY <2>2
    <3>2. out \in Seq(Part) /\ new \in Seq(Part) /\ Len(new) = done - base + 1
      BY <2>7
    <3> HIDE DEF new
    <3>3. QED
      BY <1>1, <3>1, <3>2, OutputGrows
  <2> HIDE DEF new
  <2>9. After(Len(delivered')) = done + 1 /\ Len(delivered') \in Nat
        /\ Len(out) <= Len(delivered') /\ Len(delivered') <= Len(stream)
    BY <1>1, <2>3, <2>4, <2>6, <2>7, <2>8 DEF After
  <2>10. ASSUME NEW i \in 1 .. Len(delivered')
         PROVE  delivered'[i] = stream[i]
    <3>1. CASE i <= Len(out)
      BY <1>1, <1>2, <2>8, <2>9, <3>1
    <3>2. CASE i > Len(out)
      <4>1. i - Len(out) \in 1 .. done - base + 1 /\ Len(out) + (i - Len(out)) = i
        BY <1>1, <2>7, <2>8, <3>2
      <4>2. QED
        BY <2>7, <2>8, <4>1
    <3>3. QED
      BY <1>1, <3>1, <3>2
  <2>11. ASSUME delivered' # <<>>
         PROVE  stream[Len(delivered')].last
    <3>1. Len(delivered') > 0
      BY <2>8, <2>9, <2>11
    <3>2. CASE done >= lo
      <4>1. T[done].last /\ done \in DOMAIN T
        BY <2>2, <2>3, <3>2 DEF WholeMessages, FirstRun
      <4>2. T[done] = stream[done - InitialSn + 1]
        BY <1>2, <4>1 DEF PartOf
      <4>3. done - InitialSn + 1 = Len(delivered')
        BY <1>1, <2>3, <2>9 DEF After
      <4>4. QED
        BY <4>1, <4>2, <4>3
    <3>3. CASE ~(done >= lo)
      <4>1. Len(delivered') = Len(out)
        BY <1>1, <2>3, <2>4, <2>8, <3>3
      <4>2. QED
        BY <1>1, <1>2, <3>1, <4>1
    <3>4. QED
      BY <3>2, <3>3
  <2>12. expected' \in After(Len(delivered')) .. sequenceMemo
    <3>1. expected' = hi + 1
      BY <2>2
    <3>2. QED
      BY <1>1, <2>3, <2>6, <2>9, <3>1
  <2>13. DOMAIN tree' = {s \in DOMAIN T : s > done}
         /\ \A s \in DOMAIN tree' : tree'[s] = T[s]
    BY <2>2
  <2>14. ASSUME NEW sn \in DOMAIN tree'
         PROVE  sn \in After(Len(delivered')) .. sequenceMemo - 1 /\ tree'[sn] = PartOf(sn)
    BY <1>1, <1>2, <2>3, <2>9, <2>13
  <2>15. ASSUME NEW sn \in After(Len(delivered')) .. expected' - 1
         PROVE  sn \in DOMAIN tree' /\ ~PartOf(sn).last
    <3>1. sn \in done + 1 .. hi /\ sn \in lo .. hi /\ sn > done
      <4>1. expected' = hi + 1
        BY <2>2
      <4>2. QED
        BY <2>3, <2>9, <4>1
    <3>2. sn \in DOMAIN T /\ ~T[sn].last
      BY <2>2, <3>1 DEF FirstRun, WholeMessages
    <3>3. QED
      BY <1>2, <2>13, <3>1, <3>2
  <2>16. ReceiverInv(expected', tree', delivered')
    BY <2>9, <2>10, <2>11, <2>12, <2>14, <2>15 DEF ReceiverInv
  <2>17. expected' \notin DOMAIN T /\ expected' \notin DOMAIN tree' /\ expected' - 1 = hi
    BY <2>2, <2>3, <2>13 DEF FirstRun
  <2>18. QED
    BY <2>2, <2>5, <2>9, <2>16, <2>17
<1>5. QED
  BY <1>3, <1>4

LEMMA OrderInit == Init => OrderInv
<1> SUFFICES ASSUME Init PROVE OrderInv
  OBVIOUS
<1>1. InitialSn \in Nat /\ MaxSent \in Nat /\ DOMAIN tree = {}
  BY ChannelAssumption DEF Wrapped, Init
<1>2. /\ stream = <<>> /\ delivered = <<>> /\ sendBuffer = {} /\ packets = {}
      /\ sequenceMemo = InitialSn /\ expected = InitialSn
  BY DEF Init
<1>3. StreamInv /\ PacketInv
  BY <1>1, <1>2 DEF StreamInv, PacketInv, After
<1>4. ReceiverInv(expected, tree, delivered)
  BY <1>1, <1>2 DEF ReceiverInv, After
<1>5. QED
  BY <1>1, <1>3, <1>4 DEF OrderInv

\* A longer stream changes nothing for what was numbered before.
LEMMA OrderSend ==
  ASSUME NoWrap, TypeInv, TypeInv', OrderInv, NEW n \in 1 .. MaxParts, Send(n)
  PROVE  OrderInv'
<1>1. /\ InitialSn \in Nat /\ Len(stream) \in Nat /\ n \in Nat /\ n >= 1
      /\ Len(stream') = Len(stream) + n /\ Len(stream') <= MaxSent
      /\ sequenceMemo = InitialSn + Len(stream)
      /\ sequenceMemo' = InitialSn + Len(stream')
      /\ Len(delivered) \in Nat /\ Len(delivered) <= Len(stream)
  BY Bounds, SendStream DEF Send, OrderInv, ReceiverInv
<1>2. \A i \in 1 .. Len(stream) : stream'[i] = stream[i]
  BY SendStream
<1>3. ASSUME NEW sn \in InitialSn .. sequenceMemo - 1
      PROVE  PartOf(sn)' = PartOf(sn)
  <2>1. sn - InitialSn + 1 \in 1 .. Len(stream)
    BY <1>1
  <2>2. QED
    BY <1>2, <2>1 DEF PartOf
<1>4. StreamInv'
  <2>1. sendBuffer' \subseteq InitialSn .. sequenceMemo' - 1
        /\ sequenceMemo' = After(Len(stream'))
    BY DEF TypeInv, After
  <2>2. ASSUME NEW i \in 1 .. Len(stream')
        PROVE  stream'[i].first <=> (i = 1 \/ stream'[i - 1].last)
    <3>1. CASE i <= Len(stream)
      <4>1. i \in 1 .. Len(stream)
        BY <1>1, <3>1
      <4>2. stream[i].first <=> (i = 1 \/ stream[i - 1].last)
        BY <4>1 DEF OrderInv, StreamInv
      <4>3. i # 1 => i - 1 \in 1 .. Len(stream)
        BY <1>1, <4>1
      <4>4. QED
        BY <1>2, <4>1, <4>2, <4>3
    <3>2. CASE i = Len(stream) + 1
      <4>1. stream'[i].first
        BY <3>2, <1>1, SendStream
      <4>2. i # 1 => stream[i - 1].last /\ i - 1 \in 1 .. Len(stream)
        <5>1. i # 1 => stream # <<>> /\ i - 1 = Len(stream) /\ Len(stream) \in 1 .. Len(stream)
          BY <1>1, <3>2
        <5>2. QED
          BY <5>1 DEF OrderInv, StreamInv
      <4>3. QED
        BY <1>2, <4>1, <4>2
    <3>3. CASE i > Len(stream) + 1
      <4>1. i \in Len(stream) + 1 .. Len(stream') /\ i # Len(stream) + 1 /\ i # 1
            /\ i - 1 \in Len(stream) + 1 .. Len(stream') /\ i - 1 # Len(stream')
        BY <1>1, <3>3
      <4>2. ~stream'[i].first /\ ~stream'[i - 1].last
        BY <4>1, SendStream
      <4>3. QED
        BY <4>1, <4>2
    <3>4. QED
      BY <1>1, <3>1, <3>2, <3>3
  <2>3. stream'[Len(stream')].last
    <3>1. Len(stream') \in Len(stream) + 1 .. Len(stream')
      BY <1>1
    <3>2. QED
      BY <3>1, SendStream
  <2>4. QED
    BY <1>1, <2>1, <2>2, <2>3 DEF StreamInv
<1>5. PacketInv'
  <2>1. ASSUME NEW p \in packets
        PROVE  p.sn \in InitialSn .. sequenceMemo' - 1 /\ p.part = PartOf(p.sn)'
    <3>1. p.sn \in InitialSn .. sequenceMemo - 1 /\ p.part = PartOf(p.sn)
      BY DEF OrderInv, PacketInv
    <3>2. p.sn \in InitialSn .. sequenceMemo' - 1
      BY <1>1, <3>1
    <3>3. QED
      BY <1>3, <3>1, <3>2
  <2>2. ASSUME NEW sn \in sequenceMemo .. sequenceMemo + n - 1
        PROVE  /\ PacketOf(stream', sn).sn \in InitialSn .. sequenceMemo' - 1
               /\ PacketOf(stream', sn).part
                  = stream'[PacketOf(stream', sn).sn - InitialSn + 1]
    <3>1. sn \in Wrapped /\ sn \in InitialSn .. sequenceMemo' - 1
      <4>1. InitialSn + MaxSent <= Mask /\ MaxSent \in Nat /\ Mask \in Nat
        BY ChannelAssumption, SeqNumAssumption DEF NoWrap
      <4>2. QED
        BY <1>1, <4>1 DEF Wrapped
    <3>2. QED
      BY <3>1, PacketOfIsExact DEF PartOf
  <2>3. packets' = packets \cup
          {PacketOf(stream', sn) : sn \in sequenceMemo .. sequenceMemo + n - 1}
    BY DEF Send
  <2>4. ASSUME NEW p \in packets'
        PROVE  p.sn \in InitialSn .. sequenceMemo' - 1 /\ p.part = PartOf(p.sn)'
    <3>1. CASE p \in packets
      BY <2>1, <3>1
    <3>2. CASE p \notin packets
      <4>1. PICK sn \in sequenceMemo .. sequenceMemo + n - 1 : p = PacketOf(stream', sn)
        BY <2>3, <3>2
      <4>2. QED
        BY <2>2, <4>1 DEF PartOf
    <3>3. QED
      BY <3>1, <3>2
  <2>5. QED
    BY <2>4 DEF PacketInv
<1>6. ReceiverInv(expected, tree, delivered)' /\ expected' \notin DOMAIN tree'
  <2>1. expected' = expected /\ tree' = tree /\ delivered' = delivered
    BY DEF Send, receiverVars
  <2>2. expected \in After(Len(delivered)) .. sequenceMemo
        /\ After(Len(delivered)) = InitialSn + Len(delivered) /\ expected \in Nat
    BY DEF OrderInv, ReceiverInv, After, TypeInv, TypeOK
  <2>3. ASSUME NEW i \in 1 .. Len(delivered)
        PROVE  delivered[i] = stream'[i]
    <3>1. i \in 1 .. Len(stream) /\ delivered[i] = stream[i]
      BY <1>1 DEF OrderInv, ReceiverInv
    <3>2. QED
      BY <1>2, <3>1
  <2>4. delivered # <<>> => stream'[Len(delivered)].last
    <3>1. delivered # <<>> => Len(delivered) \in 1 .. Len(stream)
      BY <1>1 DEF TypeInv, TypeOK
    <3>2. delivered # <<>> => stream[Len(delivered)].last
      BY DEF OrderInv, ReceiverInv
    <3>3. QED
      BY <1>2, <3>1, <3>2
  <2>5. ASSUME NEW sn \in DOMAIN tree
        PROVE  sn \in After(Len(delivered)) .. sequenceMemo' - 1 /\ tree[sn] = PartOf(sn)'
    <3>1. sn \in After(Len(delivered)) .. sequenceMemo - 1 /\ tree[sn] = PartOf(sn)
      BY DEF OrderInv, ReceiverInv
    <3>2. sn \in InitialSn .. sequenceMemo - 1
          /\ sn \in After(Len(delivered)) .. sequenceMemo' - 1
      BY <1>1, <2>2, <3>1
    <3>3. QED
      BY <1>3, <3>1, <3>2
  <2>6. ASSUME NEW sn \in After(Len(delivered)) .. expected - 1
        PROVE  sn \in DOMAIN tree /\ ~PartOf(sn)'.last
    <3>1. sn \in DOMAIN tree /\ ~PartOf(sn).last
      BY DEF OrderInv, ReceiverInv
    <3>2. sn \in InitialSn .. sequenceMemo - 1
      BY <1>1, <2>2
    <3>3. QED
      BY <1>3, <3>1, <3>2
  <2>7. expected \in After(Len(delivered)) .. sequenceMemo' /\ Len(delivered) <= Len(stream')
    BY <1>1, <2>2
  <2>8. expected \notin DOMAIN tree
    BY DEF OrderInv
  <2>9. QED
    BY <2>1, <2>3, <2>4, <2>5, <2>6, <2>7, <2>8 DEF ReceiverInv, After
<1>7. QED
  BY <1>4, <1>5, <1>6 DEF OrderInv

\* A retransmission carries the same part under the same number.
LEMMA OrderRtoTimeout ==
  ASSUME NoWrap, TypeInv, OrderInv, NEW due \in SUBSET sendBuffer, RtoTimeout(due)
  PROVE  OrderInv'
<1>1. ASSUME NEW sn \in due
      PROVE  /\ PacketOf(stream, sn).sn \in InitialSn .. sequenceMemo - 1
             /\ PacketOf(stream, sn).part = PartOf(PacketOf(stream, sn).sn)
  <2>1. sn \in InitialSn .. sequenceMemo - 1
    BY DEF OrderInv, StreamInv
  <2>2. sn \in Wrapped
    BY <2>1, Bounds, SeqNumAssumption DEF Wrapped
  <2>3. QED
    BY <2>1, <2>2, PacketOfIsExact DEF PartOf
<1>2. ASSUME NEW p \in packets'
      PROVE  p.sn \in InitialSn .. sequenceMemo - 1 /\ p.part = PartOf(p.sn)
  BY <1>1 DEF RtoTimeout, OrderInv, PacketInv
<1>3. UNCHANGED <<stream, sequenceMemo, sendBuffer, expected, tree, delivered>>
  BY DEF RtoTimeout, senderVars, receiverVars
<1>4. QED
  BY <1>2, <1>3 DEF OrderInv, PacketInv, StreamInv, ReceiverInv, PartOf, After

\* A part that is a message of its own follows whatever was emitted.
LEMMA UnsplitFollowsOutput ==
  ASSUME NoWrap, TypeInv, OrderInv, NEW packet \in packets,
         Guess(packet) = expected, packet.part.first
  PROVE  expected = After(Len(delivered))
<1>1. /\ expected \in InitialSn .. sequenceMemo - 1 /\ packet.part = PartOf(expected)
  BY GuessIsExact
<1>2. SUFFICES ASSUME expected # After(Len(delivered)) PROVE FALSE
  OBVIOUS
<1>3. /\ expected - 1 \in After(Len(delivered)) .. expected - 1
      /\ expected - InitialSn \in 1 .. Len(stream) - 1 /\ Len(stream) \in Nat
  BY <1>1, <1>2, Bounds, SeqNumAssumption DEF After, Wrapped
<1>4. ~PartOf(expected - 1).last
  BY <1>3 DEF OrderInv, ReceiverInv
<1>5. expected - InitialSn + 1 \in 1 .. Len(stream) /\ expected - InitialSn + 1 # 1
      /\ (expected - InitialSn + 1) - 1 = expected - InitialSn
      /\ (expected - 1) - InitialSn + 1 = expected - InitialSn
  <2>1. InitialSn \in Nat /\ expected \in Nat
    BY <1>1, Bounds, ChannelAssumption DEF Wrapped
  <2>2. QED
    BY <1>3, <2>1
<1>6. stream[expected - InitialSn].last
  <2>1. stream[expected - InitialSn + 1].first
    BY <1>1 DEF PartOf
  <2>2. QED
    BY <1>5, <2>1 DEF OrderInv, StreamInv
<1>7. QED
  BY <1>4, <1>5, <1>6, Zenon DEF PartOf

\* A new output and buffer for ReceiverInv, of the two steps of gotMessage.
LEMMA EmitExpected ==
  ASSUME NoWrap, TypeInv, OrderInv, NEW packet \in packets,
         IsExpected(packet), Unsplit(packet.part)
  PROVE  ReceiverInv(expected + 1, tree, Append(delivered, packet.part))
<1> DEFINE out == Append(delivered, packet.part)
<1>1. expected = After(Len(delivered))
  BY UnsplitFollowsOutput DEF IsExpected, Unsplit
<1>2. /\ expected \in InitialSn .. sequenceMemo - 1 /\ packet.part = PartOf(expected)
      /\ packet.part \in Part
  BY GuessIsExact DEF IsExpected
<1>3. /\ InitialSn \in Nat /\ Len(stream) \in Nat /\ Len(delivered) \in Nat
      /\ sequenceMemo = InitialSn + Len(stream) /\ expected = InitialSn + Len(delivered)
      /\ delivered \in Seq(Part)
  BY <1>1, Bounds DEF After, TypeInv, TypeOK
<1>4. /\ out \in Seq(Part) /\ Len(out) = Len(delivered) + 1 /\ Len(out) <= Len(stream)
      /\ \A i \in 1 .. Len(delivered) : out[i] = delivered[i]
      /\ out[Len(delivered) + 1] = packet.part /\ After(Len(out)) = expected + 1
  BY <1>2, <1>3 DEF After
<1>5. packet.part = stream[Len(delivered) + 1]
  <2>1. expected - InitialSn + 1 = Len(delivered) + 1
    BY <1>3
  <2>2. QED
    BY <1>2, <2>1, Zenon DEF PartOf
<1> HIDE DEF out
<1>6. ASSUME NEW i \in 1 .. Len(out)
      PROVE  out[i] = stream[i]
  <2>1. i \in 1 .. Len(delivered) \/ i = Len(delivered) + 1
    BY <1>3, <1>4
  <2>2. \A k \in 1 .. Len(delivered) : delivered[k] = stream[k]
    BY DEF OrderInv, ReceiverInv
  <2>3. QED
    BY <1>4, <1>5, <2>1, <2>2
<1>7. stream[Len(out)].last
  BY <1>4, <1>5 DEF Unsplit
<1>8. ASSUME NEW sn \in DOMAIN tree
      PROVE  sn \in After(Len(out)) .. sequenceMemo - 1 /\ tree[sn] = PartOf(sn)
  <2>1. sn \in expected .. sequenceMemo - 1 /\ tree[sn] = PartOf(sn) /\ sn # expected
    BY <1>1 DEF OrderInv, ReceiverInv
  <2>2. QED
    BY <1>3, <1>4, <2>1
<1>9. expected + 1 \in After(Len(out)) .. sequenceMemo
      /\ After(Len(out)) .. (expected + 1) - 1 = {}
  BY <1>2, <1>3, <1>4
<1>10. QED
  BY <1>4, <1>6, <1>7, <1>8, <1>9 DEF ReceiverInv, out

LEMMA BufferPart ==
  ASSUME NoWrap, TypeInv, OrderInv, NEW packet \in packets, Guess(packet) >= expected
  PROVE  LET T == BufferMessage(tree, Guess(packet), packet.part)
         IN  ReceiverInv(expected, T, delivered) /\ DOMAIN T \subseteq Nat
<1> DEFINE T == BufferMessage(tree, Guess(packet), packet.part)
<1>1. /\ Guess(packet) \in InitialSn .. sequenceMemo - 1
      /\ packet.part = PartOf(Guess(packet))
  BY GuessIsExact
<1>2. /\ Guess(packet) \in After(Len(delivered)) .. sequenceMemo - 1
      /\ Guess(packet) \in Nat
  BY <1>1, Bounds DEF After, Wrapped
<1>3. /\ DOMAIN tree \subseteq DOMAIN T
      /\ DOMAIN T \subseteq DOMAIN tree \cup {Guess(packet)}
      /\ \A sn \in DOMAIN T : T[sn] = IF sn \in DOMAIN tree THEN tree[sn] ELSE packet.part
  BY DEF BufferMessage
<1>4. ASSUME NEW sn \in DOMAIN T
      PROVE  sn \in After(Len(delivered)) .. sequenceMemo - 1 /\ T[sn] = PartOf(sn)
             /\ sn \in Nat
  <2>1. CASE sn \in DOMAIN tree
    BY <1>3, <2>1 DEF OrderInv, ReceiverInv, TypeInv, TypeOK
  <2>2. CASE sn \notin DOMAIN tree
    BY <1>1, <1>2, <1>3, <2>2
  <2>3. QED
    BY <2>1, <2>2
<1> HIDE DEF T
<1>5. ReceiverInv(expected, T, delivered)
  BY <1>3, <1>4 DEF OrderInv, ReceiverInv
<1>6. QED
  BY <1>4, <1>5 DEF T

\* What a packet that arrives does to the receiver.
LEMMA OrderReceiveStages ==
  ASSUME NoWrap, TypeInv, OrderInv, NEW packet \in packets, Receive(packet)
  PROVE  /\ ReceiverInv(expected', tree', delivered') /\ expected' \notin DOMAIN tree'
         /\ Len(delivered') >= Len(delivered) /\ expected' >= expected
         /\ ReceiveExpected(packet) => expected' > expected
         /\ \/ pendingAck' = AckOnArrival(packet)
            \/ /\ expected' - 1 \in DOMAIN tree \cup {Guess(packet)}
               /\ pendingAck' = EnqueueAck(AckOnArrival(packet), Wrap(expected' - 1))
         /\ ReceiveIntoBuffer(packet) =>
               expected' \notin DOMAIN BufferMessage(tree, Guess(packet), packet.part)
<1>1. /\ expected \in Nat /\ delivered \in Seq(Part) /\ DOMAIN tree \subseteq Nat
      /\ packet.part \in Part /\ Len(delivered) \in Nat /\ StreamInv
  BY DEF TypeInv, TypeOK, Packet, OrderInv
<1> DEFINE T    == BufferMessage(tree, Guess(packet), packet.part)
           Goal == /\ ReceiverInv(expected', tree', delivered')
                   /\ expected' \notin DOMAIN tree'
                   /\ Len(delivered') >= Len(delivered) /\ expected' >= expected
                   /\ \/ pendingAck' = AckOnArrival(packet)
                      \/ /\ expected' - 1 \in DOMAIN tree \cup {Guess(packet)}
                         /\ pendingAck' = EnqueueAck(AckOnArrival(packet),
                                                     Wrap(expected' - 1))
<1>2. ASSUME ReceiveExpected(packet)
      PROVE  Goal /\ expected' > expected
  <2> DEFINE out == Append(delivered, packet.part)
  <2>1. expected + 1 \in Nat /\ out \in Seq(Part) /\ Len(out) = Len(delivered) + 1
    BY <1>1
  <2>2. ReceiverInv(expected + 1, tree, out)
    BY <1>2, EmitExpected DEF ReceiveExpected
  <2>3. FlushBuffer(tree, expected + 1, out, AckOnArrival(packet))
    BY <1>2 DEF ReceiveExpected
  <2> HIDE DEF out
  <2>4. /\ ReceiverInv(expected', tree', delivered') /\ expected' \notin DOMAIN tree'
        /\ expected' >= expected + 1 /\ Len(delivered') >= Len(out)
        /\ \/ pendingAck' = AckOnArrival(packet)
           \/ /\ expected' - 1 \in DOMAIN tree
              /\ pendingAck' = EnqueueAck(AckOnArrival(packet), Wrap(expected' - 1))
    BY <1>1, <2>1, <2>2, <2>3, FlushBufferOrder
  <2>5. expected' \in Int /\ Len(delivered') \in Int
    BY <2>4, <1>1, Bounds DEF ReceiverInv, After
  <2>6. QED
    BY <1>1, <2>1, <2>4, <2>5
<1>3. ASSUME ReceiveIntoBuffer(packet)
      PROVE  Goal /\ expected' \notin DOMAIN T
  <2>1. Guess(packet) >= expected /\ FlushBuffer(T, expected, delivered, AckOnArrival(packet))
    BY <1>3 DEF ReceiveIntoBuffer
  <2>2. ReceiverInv(expected, T, delivered) /\ DOMAIN T \subseteq Nat
    BY <2>1, BufferPart
  <2>3. DOMAIN T \subseteq DOMAIN tree \cup {Guess(packet)}
    BY DEF BufferMessage
  <2> HIDE DEF T
  <2>4. /\ ReceiverInv(expected', tree', delivered')
        /\ expected' \notin DOMAIN T /\ expected' \notin DOMAIN tree'
        /\ expected' >= expected /\ Len(delivered') >= Len(delivered)
        /\ \/ pendingAck' = AckOnArrival(packet)
           \/ /\ expected' - 1 \in DOMAIN T
              /\ pendingAck' = EnqueueAck(AckOnArrival(packet), Wrap(expected' - 1))
    BY <1>1, <2>1, <2>2, FlushBufferOrder
  <2>5. QED
    BY <2>3, <2>4
<1>4. ASSUME ReceiveOld(packet)
      PROVE  Goal
  <2>1. /\ expected' = expected /\ tree' = tree /\ delivered' = delivered
        /\ pendingAck' = AckOnArrival(packet)
    BY <1>4 DEF ReceiveOld
  <2>2. QED
    BY <1>1, <2>1 DEF OrderInv
<1>5. Goal
  BY <1>2, <1>3, <1>4 DEF Receive
<1>6. QED
  BY <1>2, <1>3, <1>5

LEMMA OrderReceive ==
  ASSUME NoWrap, TypeInv, OrderInv, NEW packet \in packets, Receive(packet)
  PROVE  OrderInv'
<1>1. ReceiverInv(expected', tree', delivered') /\ expected' \notin DOMAIN tree'
  BY OrderReceiveStages
<1>2. UNCHANGED <<stream, sequenceMemo, sendBuffer, packets>>
  BY DEF Receive, senderVars
<1>3. ReceiverInv(expected, tree, delivered)'
  BY <1>1, <1>2 DEF ReceiverInv, PartOf, After
<1>4. QED
  BY <1>1, <1>2, <1>3 DEF OrderInv, StreamInv, PacketInv, PartOf, After

LEMMA OrderNext ==
  ASSUME NoWrap, TypeInv, TypeInv', OrderInv, [Next]_vars
  PROVE  OrderInv'
<1> USE DEF OrderInv, StreamInv, PacketInv, ReceiverInv, PartOf, After
<1>1. CASE \E n \in 1 .. MaxParts : Send(n)
  BY <1>1, OrderSend
<1>2. CASE \E due \in SUBSET sendBuffer : RtoTimeout(due)
  BY <1>2, OrderRtoTimeout
<1>3. CASE \E packet \in packets : Receive(packet)
  BY <1>3, OrderReceive
<1>4. CASE SendAck \/ SendAckWithData
  BY <1>4 DEF SendAck, SendAckWithData, SendPendingAck, senderVars
<1>5. CASE \E ack \in acks : ReceiveAck(ack)
  <2>1. PICK ack \in acks : ReceiveAck(ack)
    BY <1>5
  <2>2. sendBuffer' \subseteq sendBuffer
    BY <2>1 DEF ReceiveAck, Deregister
  <2>3. UNCHANGED <<stream, sequenceMemo, packets, expected, tree, delivered>>
    BY <2>1 DEF ReceiveAck, receiverVars
  <2>4. QED
    BY <2>2, <2>3
<1>6. CASE \E packet \in packets : LosePacket(packet)
  BY <1>6 DEF LosePacket, senderVars, receiverVars
<1>7. CASE \E ack \in acks : LoseAck(ack)
  BY <1>7 DEF LoseAck, senderVars, receiverVars
<1>8. CASE UNCHANGED vars
  BY <1>8 DEF vars, senderVars, receiverVars
<1>9. QED
  BY <1>1, <1>2, <1>3, <1>4, <1>5, <1>6, <1>7, <1>8 DEF Next

\* Below the wrap the channel delivers what was sent, in order, nothing twice
\* and nothing left out, whatever the network loses, repeats or reorders
\* (EmiReceiverBuffer::gotMessage, flushBuffer).
THEOREM DeliveryInOrder ==
  ASSUME NoWrap
  PROVE  Spec => []InOrder
<1>1. Init => TypeInv /\ OrderInv
  BY TypeInit, OrderInit
<1>2. TypeInv /\ OrderInv /\ [Next]_vars => TypeInv' /\ OrderInv'
  BY TypeNext, OrderNext
<1>3. OrderInv => InOrder
  BY DEF OrderInv, ReceiverInv, InOrder
<1>4. QED
  BY <1>1, <1>2, <1>3, PTL DEF Spec

-----------------------------------------------------------------------------
(* The channel implements OrderedDelivery *)

\* A packet that arrives hands over the next whole messages, or nothing.
LEMMA ReceiveDelivers ==
  ASSUME NoWrap, TypeInv, TypeInv', OrderInv, OrderInv',
         NEW packet \in packets, Receive(packet)
  PROVE  Abstract!Deliver \/ UNCHANGED <<stream, delivered>>
<1>1. stream' = stream
  BY DEF Receive, senderVars
<1>2. /\ delivered \in Seq(Part) /\ delivered' \in Seq(Part)
      /\ Len(delivered) \in Nat /\ Len(delivered') \in Nat
      /\ Len(delivered') >= Len(delivered)
  BY OrderReceiveStages DEF TypeInv, TypeOK
<1>3. /\ \A i \in 1 .. Len(delivered) : delivered[i] = stream[i]
      /\ \A i \in 1 .. Len(delivered') : delivered'[i] = stream[i]
      /\ Len(delivered') <= Len(stream)
      /\ delivered' # <<>> => stream[Len(delivered')].last
  BY <1>1 DEF OrderInv, ReceiverInv
<1>4. CASE Len(delivered') > Len(delivered)
  <2>1. delivered' # <<>>
    BY <1>2, <1>4
  <2>2. QED
    BY <1>1, <1>3, <1>4, <2>1 DEF Abstract!Deliver
<1>5. CASE Len(delivered') = Len(delivered)
  <2>1. delivered' = delivered
    BY <1>2, <1>3, <1>5
  <2>2. QED
    BY <1>1, <2>1
<1>6. QED
  BY <1>2, <1>4, <1>5

\* Below the wrap the channel hands over whole messages in order: each step is
\* one of OrderedDelivery or changes nothing there.
THEOREM OrderedDeliveryImplemented ==
  ASSUME NoWrap
  PROVE  Spec => ImplementsOrderedDelivery
<1>1. Init => TypeInv /\ OrderInv /\ Abstract!Init
  BY TypeInit, OrderInit DEF Init, Abstract!Init
<1>2. TypeInv /\ OrderInv /\ [Next]_vars => TypeInv' /\ OrderInv'
  BY TypeNext, OrderNext
<1>3. ASSUME TypeInv, TypeInv', OrderInv, OrderInv', [Next]_vars
      PROVE  [Abstract!Next]_<<stream, delivered>>
  <2>1. ASSUME NEW n \in 1 .. MaxParts, Send(n)
        PROVE  Abstract!Send
    <3>1. delivered' = delivered
      BY <2>1 DEF Send, receiverVars
    <3>2. Len(stream') > Len(stream)
      BY <1>3, <2>1, SendStream
    <3>3. QED
      BY <1>3, <2>1, <3>1, <3>2, SendStream DEF Abstract!Send
  <2>2. ASSUME NEW packet \in packets, Receive(packet)
        PROVE  Abstract!Deliver \/ UNCHANGED <<stream, delivered>>
    BY <1>3, <2>2, ReceiveDelivers
  <2>3. ASSUME ~\E n \in 1 .. MaxParts : Send(n),
               ~\E packet \in packets : Receive(packet)
        PROVE  UNCHANGED <<stream, delivered>>
    BY <1>3, <2>3
    DEF Next, vars, senderVars, receiverVars, RtoTimeout, SendAck, SendAckWithData,
        SendPendingAck, ReceiveAck, LosePacket, LoseAck
  <2>4. QED
    BY <2>1, <2>2, <2>3 DEF Abstract!Next
<1>4. QED
  BY <1>1, <1>2, <1>3, PTL DEF Spec, ImplementsOrderedDelivery, Abstract!Spec

-----------------------------------------------------------------------------
(* What is acknowledged was received *)

\* No message has more parts than MaxParts.
LEMMA ShortMessagesSend ==
  ASSUME TypeInv, OrderInv, ShortMessages, NEW n \in 1 .. MaxParts, Send(n)
  PROVE  ShortMessages'
<1>1. SUFFICES ASSUME NEW i \in 1 .. Len(stream'), NEW j \in 1 .. Len(stream'),
                      i <= j, \A k \in i .. j : ~stream'[k].last
               PROVE  j - i + 1 < MaxParts
  BY DEF ShortMessages
<1>2. /\ n \in Nat /\ n <= MaxParts /\ MaxParts \in Nat /\ Len(stream) \in Nat
      /\ Len(stream') = Len(stream) + n
      /\ \A k \in 1 .. Len(stream) : stream'[k] = stream[k]
      /\ stream'[Len(stream')].last
  <2>1. Len(stream') \in Len(stream) + 1 .. Len(stream')
    BY SendStream
  <2>2. QED
    BY <2>1, SendStream, ChannelAssumption
<1>3. CASE j <= Len(stream)
  <2>1. i \in 1 .. Len(stream) /\ j \in 1 .. Len(stream)
    BY <1>1, <1>2, <1>3
  <2>2. \A k \in i .. j : ~stream[k].last
    BY <1>1, <1>2, <1>3
  <2>3. QED
    BY <1>1, <2>1, <2>2 DEF ShortMessages
<1>4. CASE j > Len(stream)
  <2>1. j # Len(stream')
    BY <1>1, <1>2
  <2>2. i > Len(stream)
    <3>1. SUFFICES ASSUME i <= Len(stream) PROVE FALSE
      BY <1>2
    <3>2. Len(stream) \in i .. j /\ Len(stream) \in 1 .. Len(stream) /\ stream # <<>>
      BY <1>2, <1>4, <3>1
    <3>3. stream[Len(stream)].last
      BY <3>2 DEF OrderInv, StreamInv
    <3>4. QED
      BY <1>1, <1>2, <3>2, <3>3
  <2>3. QED
    BY <1>1, <1>2, <1>4, <2>1, <2>2
<1>5. QED
  BY <1>2, <1>3, <1>4

\* The buffer of a receiver with enough room has a place for the expected part.
LEMMA RoomForExpected ==
  ASSUME NoWrap, RoomyReceiver, TypeInv, OrderInv, AckInv,
         expected \in InitialSn .. sequenceMemo - 1
  PROVE  Cardinality(DOMAIN tree) < ReceiverBufferSize
<1> DEFINE base  == After(Len(delivered))
           front == base .. expected - 1
           rest  == sendBuffer \ {expected}
<1>1. /\ InitialSn \in Nat /\ Len(delivered) \in Nat /\ Len(stream) \in Nat
      /\ base = InitialSn + Len(delivered) /\ expected \in base .. sequenceMemo - 1
      /\ sequenceMemo = InitialSn + Len(stream)
      /\ MaxParts \in Nat /\ MaxParts > 0 /\ SenderBufferSize \in Nat
      /\ ReceiverBufferSize \in Nat
      /\ ReceiverBufferSize >= SenderBufferSize + MaxParts - 1
  BY Bounds, ChannelAssumption DEF After, RoomyReceiver, Wrapped
<1> HIDE DEF base
<1>2. ASSUME NEW sn \in DOMAIN tree
      PROVE  sn \in front \cup rest
  <2>1. sn \in base .. sequenceMemo - 1 /\ sn # expected
    BY DEF OrderInv, ReceiverInv, base
  <2>2. sn > expected => sn \in sendBuffer
    BY <1>1, <2>1 DEF AckInv
  <2>3. QED
    BY <1>1, <2>1, <2>2
<1>3. IsFiniteSet(front) /\ Cardinality(front) = expected - base
  <2>1. base \in Int /\ expected - 1 \in Int
    BY <1>1
  <2>2. IsFiniteSet(front)
        /\ Cardinality(front) = IF base > expected - 1 THEN 0 ELSE expected - 1 - base + 1
    BY <2>1, FS_Interval
  <2>3. QED
    BY <1>1, <2>2
<1>4. expected - base < MaxParts
  <2>1. CASE expected = base
    BY <1>1, <2>1
  <2>2. CASE expected > base
    <3> DEFINE i == Len(delivered) + 1
               j == expected - InitialSn
    <3>1. i \in 1 .. Len(stream) /\ j \in 1 .. Len(stream) /\ i <= j
          /\ j - i + 1 = expected - base
      BY <1>1, <2>2
    <3>2. ASSUME NEW k \in i .. j
          PROVE  ~stream[k].last
      <4>1. InitialSn + k - 1 \in base .. expected - 1
            /\ (InitialSn + k - 1) - InitialSn + 1 = k
        BY <1>1, <2>2
      <4>2. ~PartOf(InitialSn + k - 1).last
        BY <4>1 DEF OrderInv, ReceiverInv, base
      <4>3. QED
        BY <4>1, <4>2, Zenon DEF PartOf
    <3> HIDE DEF i, j
    <3>3. QED
      BY <3>1, <3>2 DEF AckInv, ShortMessages
  <2>3. QED
    BY <1>1, <2>1, <2>2
<1>5. IsFiniteSet(rest) /\ Cardinality(rest) = Cardinality(sendBuffer) - 1
  <2>1. expected \in sendBuffer
    BY <1>1 DEF AckInv
  <2>2. QED
    BY <2>1, FS_RemoveElement DEF TypeInv
<1>6. Cardinality(sendBuffer) \in Nat /\ Cardinality(sendBuffer) <= SenderBufferSize
  BY FS_CardinalityType DEF TypeInv, TypeOK
<1> HIDE DEF front, rest
<1>7. IsFiniteSet(front \cup rest) /\ Cardinality(front \cup rest)
        = Cardinality(front) + Cardinality(rest) - Cardinality(front \cap rest)
  BY <1>3, <1>5, FS_Union
<1>8. Cardinality(front \cap rest) \in Nat
  <2>1. front \cap rest \subseteq front
    OBVIOUS
  <2>2. IsFiniteSet(front \cap rest)
    BY <1>3, <2>1, FS_Subset
  <2>3. QED
    BY <2>2, FS_CardinalityType
<1>9. Cardinality(DOMAIN tree) <= Cardinality(front \cup rest)
  BY <1>2, <1>7, FS_Subset
<1>10. Cardinality(DOMAIN tree) \in Nat
  BY FS_CardinalityType DEF TypeInv
<1>11. /\ Cardinality(front) \in Int /\ Cardinality(rest) \in Int
       /\ Cardinality(front) < MaxParts /\ Cardinality(rest) <= SenderBufferSize - 1
  BY <1>1, <1>3, <1>4, <1>5, <1>6
<1>12. Cardinality(DOMAIN tree) <= Cardinality(front) + Cardinality(rest)
  BY <1>7, <1>8, <1>9, <1>10, <1>11
<1>13. Cardinality(DOMAIN tree) < MaxParts + (SenderBufferSize - 1)
  <2>1. MaxParts \in Int /\ SenderBufferSize \in Int
    BY <1>1
  <2>2. QED
    BY <2>1, <1>10, <1>11, <1>12
<1>14. QED
  <2>1. /\ MaxParts \in Int /\ SenderBufferSize \in Int /\ ReceiverBufferSize \in Int
        /\ ReceiverBufferSize >= SenderBufferSize + MaxParts - 1
    BY <1>1
  <2>2. QED
    BY <2>1, <1>10, <1>13

\* A part number the receiver is done with.
Below(ack) == ack \in InitialSn .. expected - 1

LEMMA AckInit == Init => AckInv
<1> SUFFICES ASSUME Init PROVE AckInv
  OBVIOUS
<1>1. InitialSn \in Nat
  BY ChannelAssumption DEF Wrapped
<1>2. stream = <<>> /\ acks = {} /\ pendingAck = None /\ sequenceMemo = InitialSn
  BY DEF Init
<1>3. ShortMessages
  BY <1>2 DEF ShortMessages
<1>4. QED
  BY <1>1, <1>2, <1>3 DEF AckInv

LEMMA AckSend ==
  ASSUME NoWrap, TypeInv, TypeInv', OrderInv, AckInv, NEW n \in 1 .. MaxParts, Send(n)
  PROVE  AckInv'
<1>1. ShortMessages'
  BY ShortMessagesSend DEF AckInv
<1>2. /\ expected' = expected /\ pendingAck' = pendingAck /\ acks' = acks
      /\ sequenceMemo' = sequenceMemo + n
      /\ sendBuffer' = sendBuffer \cup (sequenceMemo .. sequenceMemo + n - 1)
      /\ n \in Nat /\ sequenceMemo \in Nat /\ InitialSn \in Nat
  BY SendStream, ChannelAssumption DEF Send, receiverVars, TypeInv, TypeOK, Wrapped
<1>3. ASSUME NEW sn \in InitialSn .. sequenceMemo' - 1, sn \notin sendBuffer'
      PROVE  sn < expected
  <2>1. sn \in InitialSn .. sequenceMemo - 1 /\ sn \notin sendBuffer
    BY <1>2, <1>3
  <2>2. QED
    BY <2>1 DEF AckInv
<1>4. QED
  BY <1>1, <1>2, <1>3 DEF AckInv

\* What an acknowledgement removes from the sender buffer, the receiver has.
LEMMA AckReceiveAck ==
  ASSUME NoWrap, NumbersAboveFlags, TypeInv, OrderInv, AckInv, NEW ack \in acks,
         ReceiveAck(ack)
  PROVE  AckInv'
<1>1. /\ ack \in 0 .. expected - 1 /\ InitialSn \in Nat /\ expected \in Nat
      /\ expected <= sequenceMemo /\ sequenceMemo \in Wrapped /\ Mask \in Nat
  <2>1. /\ InitialSn \in Nat /\ expected \in Nat /\ expected >= InitialSn
        /\ expected <= sequenceMemo /\ sequenceMemo \in Wrapped /\ Mask \in Nat
    BY Bounds, SeqNumAssumption DEF Wrapped, OrderInv, ReceiverInv, After, TypeInv, TypeOK
  <2>2. ack \in {0, 1} \cup InitialSn .. expected - 1
    BY DEF AckInv
  <2>3. QED
    BY <2>1, <2>2 DEF NumbersAboveFlags
<1>2. GuessFromReference(Unsigned(sequenceMemo - 1), ack) = ack
  <2>1. /\ sequenceMemo - 1 \in Wrapped /\ ack \in 0 .. sequenceMemo - 1
        /\ Unsigned(sequenceMemo - 1) = sequenceMemo - 1
    BY <1>1 DEF Wrapped, Unsigned
  <2>2. QED
    BY <2>1, GuessFromReferenceIsExact
<1>3. sendBuffer' = Deregister(sendBuffer, ack)
      /\ UNCHANGED <<stream, sequenceMemo, expected, pendingAck, acks>>
  BY <1>2 DEF ReceiveAck, receiverVars
<1>4. ASSUME NEW sn \in InitialSn .. sequenceMemo - 1, sn \notin sendBuffer'
      PROVE  sn < expected
  <2>1. CASE sn \notin sendBuffer
    BY <2>1 DEF AckInv
  <2>2. CASE sn \in sendBuffer
    <3>1. ~(sn > ack)
      BY <1>3, <1>4, <2>2 DEF Deregister
    <3>2. QED
      BY <1>1, <3>1
  <2>3. QED
    BY <2>1, <2>2
<1>5. QED
  BY <1>3, <1>4 DEF AckInv, ShortMessages

\* The acknowledgement on arrival names the expected part, or one before it.
LEMMA AckOnArrivalBelow ==
  ASSUME NoWrap, TypeInv, OrderInv, AckInv, NEW packet \in packets
  PROVE  \/ AckOnArrival(packet) = None
         \/ Below(AckOnArrival(packet))
         \/ Guess(packet) = expected /\ AckOnArrival(packet) = expected
<1>1. /\ Guess(packet) \in InitialSn .. sequenceMemo - 1 /\ InitialSn \in Nat
      /\ expected \in Wrapped /\ Mask \in Nat /\ expected \in Nat
  BY GuessIsExact, Bounds, SeqNumAssumption DEF Wrapped
<1>2. pendingAck = None \/ Below(pendingAck)
  BY DEF AckInv, Below
<1>3. CASE Guess(packet) = expected
  <2>1. AckOnArrival(packet) = EnqueueAck(pendingAck, expected)
    BY <1>1, <1>3, WrapIsIdentity DEF AckOnArrival
  <2>2. QED
    BY <1>2, <1>3, <2>1, EnqueueAckIsOne
<1>4. CASE Guess(packet) < expected
  <2>1. expected - 1 \in Wrapped /\ Below(expected - 1)
    BY <1>1, <1>4 DEF Wrapped, Below
  <2>2. AckOnArrival(packet) = EnqueueAck(pendingAck, expected - 1)
    BY <1>1, <1>4, <2>1, WrapIsIdentity DEF AckOnArrival
  <2>3. QED
    BY <1>2, <2>1, <2>2, EnqueueAckIsOne
<1>5. CASE Guess(packet) > expected
  BY <1>1, <1>2, <1>5 DEF AckOnArrival
<1>6. QED
  BY <1>1, <1>3, <1>4, <1>5

\* The expected part is acknowledged before it is stored; it is stored, since
\* there is room for it.
LEMMA ExpectedAdvances ==
  ASSUME NoWrap, RoomyReceiver, TypeInv, OrderInv, AckInv,
         NEW packet \in packets, Receive(packet), Guess(packet) = expected
  PROVE  expected' > expected
<1>1. /\ expected \in InitialSn .. sequenceMemo - 1 /\ expected \in Nat
      /\ expected' >= expected /\ expected' \in Int
  <2>1. ReceiverInv(expected', tree', delivered') /\ expected' >= expected
    BY OrderReceiveStages
  <2>2. expected' \in Int
    BY <2>1 DEF ReceiverInv
  <2>3. QED
    BY <2>1, <2>2, GuessIsExact DEF TypeInv, TypeOK
<1>2. CASE ReceiveExpected(packet)
  BY <1>2, OrderReceiveStages
<1>3. CASE ReceiveIntoBuffer(packet)
  <2>1. Cardinality(DOMAIN tree) < ReceiverBufferSize
    BY <1>1, RoomForExpected
  <2>2. expected \notin DOMAIN tree
    BY DEF OrderInv
  <2>3. expected \in DOMAIN BufferMessage(tree, Guess(packet), packet.part)
    BY <2>1, <2>2 DEF BufferMessage
  <2>4. expected' \notin DOMAIN BufferMessage(tree, Guess(packet), packet.part)
    BY <1>3, OrderReceiveStages
  <2>5. expected' # expected
    BY <2>3, <2>4
  <2>6. QED
    BY <1>1, <2>5
<1>4. CASE ReceiveOld(packet)
  BY <1>1, <1>4 DEF ReceiveOld
<1>5. QED
  BY <1>2, <1>3, <1>4 DEF Receive

LEMMA AckReceive ==
  ASSUME NoWrap, RoomyReceiver, TypeInv, TypeInv', OrderInv, OrderInv', AckInv,
         NEW packet \in packets, Receive(packet)
  PROVE  AckInv'
<1> DEFINE next == expected'
<1>1. UNCHANGED <<stream, sequenceMemo, sendBuffer, packets, acks>>
  BY DEF Receive, senderVars
<1>2. /\ expected \in Nat /\ next \in Nat /\ InitialSn \in Nat
      /\ next >= expected /\ next <= Mask /\ Mask \in Nat
  <2>1. ReceiverInv(expected', tree', delivered') /\ expected' >= expected
    BY OrderReceiveStages
  <2>2. expected' \in Nat /\ expected \in Nat /\ expected' <= sequenceMemo
    BY <2>1, Bounds DEF ReceiverInv, After, TypeInv, TypeOK
  <2>3. sequenceMemo <= Mask /\ sequenceMemo \in Nat /\ Mask \in Nat /\ InitialSn \in Nat
    BY Bounds, SeqNumAssumption DEF Wrapped
  <2>4. QED
    BY <2>1, <2>2, <2>3
<1>3. /\ Guess(packet) = expected => next > expected /\ expected >= InitialSn
      /\ \A sn \in DOMAIN tree \cup {Guess(packet)} : sn >= InitialSn
      /\ \/ pendingAck' = AckOnArrival(packet)
         \/ /\ next - 1 \in DOMAIN tree \cup {Guess(packet)}
            /\ pendingAck' = EnqueueAck(AckOnArrival(packet), Wrap(next - 1))
  <2>1. \A sn \in DOMAIN tree \cup {Guess(packet)} : sn >= InitialSn
    <3>1. \A sn \in DOMAIN tree : sn \in InitialSn + Len(delivered) .. sequenceMemo - 1
      BY DEF OrderInv, ReceiverInv, After
    <3>2. \A sn \in DOMAIN tree : sn >= InitialSn
      BY <3>1, Bounds
    <3>3. Guess(packet) >= InitialSn
      <4>1. Guess(packet) \in InitialSn .. sequenceMemo - 1
        BY GuessIsExact
      <4>2. QED
        BY <4>1, Bounds
    <3>4. QED
      BY <3>2, <3>3
  <2>2. Guess(packet) = expected => expected' > expected /\ expected >= InitialSn
    BY ExpectedAdvances, GuessIsExact
  <2>3. QED
    BY <2>1, <2>2, OrderReceiveStages
<1> HIDE DEF next
<1>4. ASSUME NEW sn, Below(sn)
      PROVE  sn \in InitialSn .. next - 1
  BY <1>2, <1>4 DEF Below
<1>5. AckOnArrival(packet) = None \/ AckOnArrival(packet) \in InitialSn .. next - 1
  <2>1. CASE AckOnArrival(packet) = None \/ Below(AckOnArrival(packet))
    BY <1>4, <2>1
  <2>2. CASE Guess(packet) = expected /\ AckOnArrival(packet) = expected
    BY <1>2, <1>3, <2>2
  <2>3. QED
    BY <2>1, <2>2, AckOnArrivalBelow
<1>6. pendingAck' # None => pendingAck' \in InitialSn .. next - 1
  <2>1. CASE pendingAck' = AckOnArrival(packet)
    BY <1>5, <2>1
  <2>2. CASE /\ next - 1 \in DOMAIN tree \cup {Guess(packet)}
             /\ pendingAck' = EnqueueAck(AckOnArrival(packet), Wrap(next - 1))
    <3>1. next - 1 \in InitialSn .. next - 1 /\ next - 1 \in Wrapped
      BY <1>2, <1>3, <2>2 DEF Wrapped
    <3>2. pendingAck' \in {AckOnArrival(packet), next - 1}
      BY <2>2, <3>1, WrapIsIdentity, EnqueueAckIsOne
    <3>3. QED
      BY <1>5, <3>1, <3>2
  <2>3. QED
    BY <1>3, <2>1, <2>2
<1>7. \A ack \in acks : ack \in {0, 1} \cup InitialSn .. next - 1
  BY <1>4 DEF AckInv, Below
<1>8. ASSUME NEW sn \in InitialSn .. sequenceMemo - 1, sn \notin sendBuffer
      PROVE  sn < next
  <2>1. sn < expected
    BY <1>8 DEF AckInv
  <2>2. QED
    BY <1>2, <2>1
<1>9. QED
  BY <1>1, <1>6, <1>7, <1>8 DEF AckInv, ShortMessages, next

LEMMA AckNext ==
  ASSUME NoWrap, RoomyReceiver, TypeInv, TypeInv', OrderInv, OrderInv', AckInv,
         NumbersAboveFlags, [Next]_vars
  PROVE  AckInv'
<1>1. CASE \E n \in 1 .. MaxParts : Send(n)
  BY <1>1, AckSend
<1>2. CASE \E due \in SUBSET sendBuffer : RtoTimeout(due)
  BY <1>2 DEF RtoTimeout, senderVars, receiverVars, AckInv, ShortMessages
<1>3. CASE \E packet \in packets : Receive(packet)
  BY <1>3, AckReceive
<1>4. CASE SendAck \/ SendAckWithData
  BY <1>4 DEF SendAck, SendAckWithData, SendPendingAck, AckAlone, AckWithData,
              senderVars, AckInv, ShortMessages
<1>5. CASE \E ack \in acks : ReceiveAck(ack)
  BY <1>5, AckReceiveAck
<1>6. CASE \E packet \in packets : LosePacket(packet)
  BY <1>6 DEF LosePacket, senderVars, receiverVars, AckInv, ShortMessages
<1>7. CASE \E ack \in acks : LoseAck(ack)
  BY <1>7 DEF LoseAck, senderVars, receiverVars, AckInv, ShortMessages
<1>8. CASE UNCHANGED vars
  BY <1>8 DEF vars, senderVars, receiverVars, AckInv, ShortMessages
<1>9. QED
  BY <1>1, <1>2, <1>3, <1>4, <1>5, <1>6, <1>7, <1>8 DEF Next

\* Above the numbers 0 and 1, below the wrap, and with a receiver buffer large
\* enough, the sender forgets a part only when the receiver holds or has emitted
\* it, although the receiver acknowledges the expected part before it looks for
\* room (EmiReceiverBuffer::gotMessage), and although an acknowledgement that
\* travels with data names 0 or 1 (EmiSendQueue::fillPacket): the sender buffer
\* removes nothing for it (EmiSenderBuffer::deregisterReliableMessages).
THEOREM AcknowledgedIsReceived ==
  ASSUME NoWrap, NumbersAboveFlags, RoomyReceiver
  PROVE  Spec => []AckedIsReceived
<1>1. Init => TypeInv /\ OrderInv /\ AckInv
  BY TypeInit, OrderInit, AckInit
<1>2. TypeInv /\ OrderInv /\ AckInv /\ [Next]_vars => TypeInv' /\ OrderInv' /\ AckInv'
  BY TypeNext, OrderNext, AckNext
<1>3. TypeInv /\ OrderInv /\ AckInv => AckedIsReceived
  <2> SUFFICES ASSUME TypeInv, OrderInv, AckInv,
                      NEW sn \in InitialSn .. sequenceMemo - 1, sn \notin sendBuffer
               PROVE  Received(sn)
    BY DEF AckedIsReceived
  <2>1. sn < expected /\ InitialSn \in Nat /\ Len(delivered) \in Nat /\ expected \in Nat
    BY ChannelAssumption DEF AckInv, TypeInv, TypeOK, Wrapped
  <2>2. CASE sn < InitialSn + Len(delivered)
    BY <2>2 DEF Received
  <2>3. CASE ~(sn < InitialSn + Len(delivered))
    <3>1. sn \in After(Len(delivered)) .. expected - 1
      BY <2>1, <2>3 DEF After
    <3>2. sn \in DOMAIN tree
      BY <3>1 DEF OrderInv, ReceiverInv
    <3>3. QED
      BY <3>2 DEF Received
  <2>4. QED
    BY <2>2, <2>3
<1>4. QED
  BY <1>1, <1>2, <1>3, PTL DEF Spec
=============================================================================
