------------------------------- MODULE Feedback -------------------------------
(***************************************************************************)
(* What the header of the packets tells the other host about the packets   *)
(* that arrive: acknowledgements of packets, the loss list that NAKs come  *)
(* from, and the numbers that the congestion control keeps.  The packets   *)
(* of one direction of a connection and the feedback on them are modelled, *)
(* over a network that loses, delays, reorders and duplicates.             *)
(*                                                                         *)
(* Rates, capacities and RTT samples, and what a NAK does to them, are     *)
(* left out: they are floating-point values.  Time is what the loss list   *)
(* tells apart, RTOs since the last feedback.                              *)
(***************************************************************************)
EXTENDS SeqNum, PacketHeader, FiniteSets, TLC

CONSTANTS
  InitialSn,      \* number of the first packet
  PairInterval,   \* EMI_PACKET_PAIR_INTERVAL
  Fillers,        \* bytes that one packet of a pair may be short of the other
  MaxSends,       \* bound: packets with a number
  MaxUnnumbered,  \* bound: packets without, such as those with SYN-RST and RST
  MaxDuplicates,  \* bound: packets that the network duplicates
  MaxFeedback,    \* bound: packets in the other direction at a time
  MaxAge          \* bound: RTOs that are counted

None == -1

ASSUME FeedbackAssumption ==
  /\ InitialSn \in Nat /\ PairInterval \in Nat \ {0}
  /\ Fillers \subseteq Nat /\ 0 \in Fillers
  /\ MaxSends \in Nat /\ InitialSn + MaxSends <= Mask
  /\ {MaxUnnumbered, MaxDuplicates, MaxFeedback, MaxAge} \subseteq Nat

VARIABLES
  sender,     \* EmiSendQueue and EmiCongestionControl of the sender of the packets
  receiver,   \* EmiLossList, EmiCongestionControl and EmiSendQueue of the other host
  net,        \* packets and feedback in the network
  history,    \* numbers of the packets that were sent, that arrived and that arrived first,
              \* and the newest number that there was a NAK for
  unnumbered, duplicates   \* what was used of the bounds

vars == <<sender, receiver, net, history, unnumbered, duplicates>>

Init ==
  /\ sender = [next |-> InitialSn, newestSent |-> None, newestSeenAck |-> None]
  /\ receiver = [newest |-> None, lossSet |-> {}, newestSeen |-> None,
                 newestSentAck |-> None, enqueuePacketAck |-> FALSE, enqueuedNak |-> None]
  /\ net = {}
  /\ history = [sent |-> {}, received |-> {}, first |-> None, nak |-> None]
  /\ unnumbered = 0 /\ duplicates = 0

-----------------------------------------------------------------------------
(* The sender *)

\* A packet that is or was on its way.  One without a number has sn = None.
Packet(sn, filler) == [to |-> "receiver", sn |-> sn, filler |-> filler]

\* EmiCongestionControl::onDataSent.  It is told the number of the next packet; the
\* number before that counts as acknowledged when nothing was sent before.
OnDataSent(next) ==
  [next |-> next, newestSent |-> Wrap(next),
   newestSeenAck |-> IF sender.newestSent = None THEN Wrap(next - 1) ELSE sender.newestSeenAck]

\* flush and sendHeartbeat: the number is incremented after the packet is sent.
SendPacket ==
  /\ Cardinality(history.sent) < MaxSends
  /\ sender' = [OnDataSent(sender.next) EXCEPT !.next = @ + 1]
  /\ net' = net \cup {Packet(sender.next, 0)}
  /\ history' = [history EXCEPT !.sent = @ \cup {sender.next}]
  /\ UNCHANGED <<receiver, unnumbered, duplicates>>

\* The tick sends a pair of packets of one size, or the first one if there is nothing
\* for the second one.  They are numbered before they are sent.
SendPair(fillers) ==
  /\ sender.next % PairInterval = 0
  /\ Cardinality(history.sent) + Len(fillers) <= MaxSends
  /\ sender' = OnDataSent(sender.next + Len(fillers))
  /\ net' = net \cup {Packet(sender.next + i - 1, fillers[i]) : i \in 1 .. Len(fillers)}
  /\ history' = [history EXCEPT !.sent = @ \cup (sender.next .. sender'.next - 1)]
  /\ UNCHANGED <<receiver, unnumbered, duplicates>>

\* A control message of the connection is sent with an empty packet header.
SendUnnumbered ==
  /\ unnumbered < MaxUnnumbered /\ unnumbered' = unnumbered + 1
  /\ sender' = OnDataSent(sender.next)
  /\ net' = net \cup {Packet(None, 0)}
  /\ UNCHANGED <<receiver, history, duplicates>>

-----------------------------------------------------------------------------
(* EmiLossList *)

LostRange(oldest, newest) ==
  [oldest |-> oldest, newest |-> newest, age |-> 0, feedbacks |-> 0]

\* std::set::insert: a range that ends where another one does is not inserted.
Insert(set, ranges) ==
  set \cup {r \in ranges : r.oldest <= r.newest /\ \A q \in set : q.newest # r.newest}

\* The range of the late packet sn, if sn is in it: the first that ends at sn or later.
RangesOf(set, sn) ==
  {r \in set : /\ r.newest >= sn /\ r.oldest <= sn
               /\ \A q \in set : q.newest >= sn => r.newest <= q.newest}

\* The late packet splits its range.
Split(set, r, sn) ==
  Insert(set \ {r}, {[r EXCEPT !.newest = sn - 1],
                     [r EXCEPT !.oldest = sn + 1, !.feedbacks = 0]})

\* What is lost when a packet comes from beyond the one that was expected.  The
\* mutant takes the packet that was expected for one that came.
LostBeforeLate(newest, sn) == {LostRange(newest + 2, sn - 1)}
LostBefore(newest, sn) == {LostRange(newest + 1, sn - 1)}

\* EmiLossList::gotPacket.  A late packet that was lost becomes the newest one.
LossListGotPacket(r, wrapped) ==
  LET sn    == GuessFromExpected(r.newest + 1, wrapped)
      newer == [r EXCEPT !.newest = sn]
  IN CASE r.newest = None \/ sn = r.newest + 1 -> newer
       [] r.newest # None /\ sn < r.newest ->
            IF RangesOf(r.lossSet, sn) = {} THEN r
            ELSE [newer EXCEPT !.lossSet =
                    Split(@, CHOOSE q \in RangesOf(r.lossSet, sn) : TRUE, sn)]
       [] OTHER -> [newer EXCEPT !.lossSet = Insert(@, LostBefore(r.newest, sn))]

\* EmiLossList::calculateNak: the ranges it chooses from had feedback lately, and it
\* takes the newest of them.
Eligible(set) == {r \in set : 2 + r.feedbacks > r.age}
Chosen(set) == CHOOSE r \in Eligible(set) : \A q \in Eligible(set) : q.newest <= r.newest

\* That range and those before it are forgotten, but for what is left of it.
ForgetUpTo(set, r) == {q \in set : q.newest > r.newest}

\* The NAK timer.
NakTimeout ==
  /\ Eligible(receiver.lossSet) # {}
  /\ LET r    == Chosen(receiver.lossSet)
         left == [r EXCEPT !.oldest = @ + 1, !.age = 0, !.feedbacks = @ + 1]
     IN /\ receiver' = [receiver EXCEPT !.enqueuedNak = Wrap(r.oldest),
                                        !.lossSet = Insert(ForgetUpTo(@, r), {left})]
        /\ history' = [history EXCEPT !.nak = IF r.oldest > @ THEN r.oldest ELSE @]
  /\ UNCHANGED <<sender, net, unnumbered, duplicates>>

\* An RTO goes by.
Time ==
  /\ \E r \in receiver.lossSet : r.age < MaxAge
  /\ receiver' = [receiver EXCEPT !.lossSet =
                    {[r EXCEPT !.age = IF @ < MaxAge THEN @ + 1 ELSE @] : r \in @}]
  /\ UNCHANGED <<sender, net, history, unnumbered, duplicates>>

-----------------------------------------------------------------------------
(* EmiCongestionControl: the newest number seen and the newest acknowledged *)

NewestSeen(old, new) ==
  IF old = None \/ CyclicDifferenceSigned(new, old) > 0 THEN new ELSE old

\* The mutant does not compare.
NewestAckLast(old, new) == new
NewestAck(old, new) ==
  IF old = None \/ CyclicDifferenceSigned(new, old) > 0 THEN new ELSE old

\* What the receiver reads of a packet: the bytes of the number that was written,
\* or others.
Payload == FieldBytes("data", 4, 0)
Written(p) == IF p.sn = None THEN Write(<< >>, Payload)
              ELSE Write("sequenceNumber" :> Wrap(p.sn), Payload)
Parsed(p) == Parse(AddFillerBytes(Written(p), p.filler))
NumbersRead(p) ==
  IF Parsed(p) = Parse(Written(p)) THEN {Wrap(p.sn)} ELSE Wrapped

\* The network delivers p, and may keep a copy.
Delivers(p, duplicated) ==
  /\ net' = IF duplicated THEN net ELSE net \ {p}
  /\ duplicates' = IF duplicated THEN duplicates + 1 ELSE duplicates
  /\ duplicates' <= MaxDuplicates

GotPacket(p, duplicated) ==
  /\ p.to = "receiver" /\ p.sn # None
  /\ \E sn \in NumbersRead(p) :
       receiver' = [LossListGotPacket(receiver, sn) EXCEPT !.newestSeen = NewestSeen(@, sn)]
  /\ history' = [history EXCEPT !.received = @ \cup {p.sn},
                                !.first = IF @ = None THEN p.sn ELSE @]
  /\ Delivers(p, duplicated)
  /\ UNCHANGED <<sender, unnumbered>>

\* A packet without a number counts as packet 0 of the loss list.
GotUnnumbered(p, duplicated) ==
  /\ p.to = "receiver" /\ p.sn = None
  /\ receiver' = LossListGotPacket(receiver, 0)
  /\ Delivers(p, duplicated)
  /\ UNCHANGED <<sender, history, unnumbered>>

\* The tick of the other host.
Tick ==
  /\ ~receiver.enqueuePacketAck
  /\ receiver' = [receiver EXCEPT !.enqueuePacketAck = TRUE]
  /\ UNCHANGED <<sender, net, history, unnumbered, duplicates>>

\* The other host sends a packet, which acknowledges the newest number once, and only
\* after a tick.
SendFeedback ==
  /\ Cardinality({p \in net : p.to = "sender"}) < MaxFeedback
  /\ LET acks == receiver.enqueuePacketAck /\ receiver.newestSeen # receiver.newestSentAck
     IN /\ net' = IF acks THEN net \cup {[to |-> "sender", ack |-> receiver.newestSeen]} ELSE net
        /\ receiver' = [receiver EXCEPT !.enqueuePacketAck = FALSE,
                          !.newestSentAck = IF acks THEN receiver.newestSeen ELSE @]
  /\ UNCHANGED <<sender, history, unnumbered, duplicates>>

GotFeedback(p, duplicated) ==
  /\ p.to = "sender"
  /\ sender' = [sender EXCEPT !.newestSeenAck = NewestAck(@, p.ack)]
  /\ Delivers(p, duplicated)
  /\ UNCHANGED <<receiver, history, unnumbered>>

\* A packet that is lost may as well stay in the network.
Lose(p) ==
  /\ p.to = "sender" /\ net' = net \ {p}
  /\ UNCHANGED <<sender, receiver, history, unnumbered, duplicates>>

-----------------------------------------------------------------------------
Next ==
  \/ SendPacket
  \/ SendPair(<<0>>)
  \/ \E f \in Fillers : SendPair(<<f, 0>>) \/ SendPair(<<0, f>>)
  \/ SendUnnumbered
  \/ NakTimeout \/ Time \/ Tick \/ SendFeedback
  \/ \E p \in net, d \in BOOLEAN :
       GotPacket(p, d) \/ GotUnnumbered(p, d) \/ GotFeedback(p, d)
  \/ \E p \in net : Lose(p)

Spec == Init /\ [][Next]_vars

-----------------------------------------------------------------------------
(* Properties *)

Numbers == Wrapped \cup {None}

LostRanges == [oldest : Nat, newest : Nat, age : 0 .. MaxAge, feedbacks : Nat]

TypeOK ==
  /\ sender.next \in InitialSn .. InitialSn + MaxSends
  /\ {sender.newestSent, sender.newestSeenAck} \subseteq Numbers
  /\ receiver.lossSet \subseteq LostRanges
  /\ receiver.newest \in Nat \cup {None}
  /\ {receiver.newestSeen, receiver.newestSentAck, receiver.enqueuedNak} \subseteq Numbers
  /\ history.received \subseteq history.sent /\ history.sent \subseteq Wrapped

\* A packet that is still missing, between the first one that arrived and the packet
\* late, and that there was no NAK for and none for a later one.
Missing(sn, late) ==
  /\ sn \in history.sent \ history.received
  /\ history.first < sn /\ history.nak < sn /\ sn < late

Listed(sn) == \E r \in receiver.lossSet : sn \in r.oldest .. r.newest

\* The loss list knows what is missing: a packet that did not arrive, between the first
\* that did and another one, is in one of the ranges, until there was a NAK for it or
\* for a later one.  It needs that there was no NAK at all or that nothing arrives
\* twice: see NoneForgotten.  (EmiLossList::gotPacket and calculateNak, when packets
\* arrive late or twice and after packets that have no number)
MissingIsListed ==
  /\ TypeOK
  /\ duplicates = 0 \/ history.nak = None
       => \A late \in history.received, sn \in history.sent : Missing(sn, late) => Listed(sn)

\* The same without that condition.  It is not kept: ranges that overlap after a NAK
\* may end at one number once a packet of theirs comes twice, and only one of them
\* stays.  (EmiLossList.h:46, operator<, and EmiLossList.cc:77)
NoneForgotten ==
  \A late \in history.received, sn \in history.sent : Missing(sn, late) => Listed(sn)

\* "any oldestSequenceNumber of a LostPacketRange in the set is greater than the previous
\* LostPacketRange's newestSequenceNumber" (EmiLossList.h:57).  It is not, since a late
\* packet makes the newest number go back.
RangesApart ==
  \A r, q \in receiver.lossSet : r.newest < q.newest => r.newest < q.oldest

\* What counts as acknowledged moves forward, and only to packets that arrived.
\* (EmiCongestionControl::gotPacket and ack, with feedback that is late or repeated)
AcksAreTrue ==
  [][sender.newestSent # None /\ sender'.newestSeenAck # sender.newestSeenAck
       => /\ sender'.newestSeenAck > sender.newestSeenAck
          /\ sender'.newestSeenAck \in history.received]_vars

\* The bytes that are taken for the number of a packet are those of its number.
\* (EmiPacketHeader::parse of what write and addFillerBytes wrote)
HeadersSurvive == \A p \in net : p.to = "receiver" => Parsed(p) = Parse(Written(p))
=============================================================================
