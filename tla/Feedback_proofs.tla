--------------------------- MODULE Feedback_proofs ---------------------------
(***************************************************************************)
(* The loss list keeps what is missing, and packet acknowledgements are    *)
(* true, for any number of packets within half of the number space.        *)
(***************************************************************************)
EXTENDS Feedback, SeqNum_proofs, FiniteSetTheorems, WellFoundedInduction

\* The packets are within half of the number space, and so is number 0 if there are
\* packets without a number.
NumbersClose ==
  /\ MaxSends <= Mask \div 2
  /\ MaxUnnumbered > 0 => InitialSn + MaxSends < Mask \div 2

-----------------------------------------------------------------------------
(* The inductive invariant *)

Senders == [next : InitialSn .. InitialSn + MaxSends, newestSent : Numbers,
            newestSeenAck : Numbers]
Receivers == [newest : Nat \cup {None}, lossSet : SUBSET LostRanges, newestSeen : Numbers,
              newestSentAck : Numbers, enqueuePacketAck : BOOLEAN, enqueuedNak : Numbers]
Histories == [sent : SUBSET Wrapped, received : SUBSET Wrapped, first : Numbers, nak : Nat \cup {None}]

\* What counts as acknowledged is not beyond what was sent.
SenderInv ==
  /\ sender \in Senders
  /\ history \in Histories
  /\ history.sent = InitialSn .. sender.next - 1
  /\ sender.newestSent # None => sender.newestSeenAck # None
  /\ InitialSn > 0 /\ sender.newestSeenAck # None
       => sender.newestSeenAck \in InitialSn - 1 .. sender.next - 1

\* A packet has a number that was sent, and none other has it; feedback has one that
\* arrived.  A packet arrives once unless it was duplicated.
PacketInv ==
  /\ \A p \in net :
       \/ p.to = "sender" /\ p.ack \in history.received
       \/ /\ p.to = "receiver" /\ p.sn \in history.sent \cup {None}
          /\ p.sn = None => unnumbered > 0
  /\ \A p, q \in net :
       p.to = "receiver" /\ q.to = "receiver" /\ p.sn = q.sn /\ p.sn # None => p = q
  /\ duplicates = 0 => \A p \in net : p.to = "receiver" => p.sn \notin history.received
  /\ unnumbered \in 0 .. MaxUnnumbered /\ duplicates \in Nat

\* What is acknowledged arrived.
AckInv ==
  /\ receiver \in Receivers
  /\ {receiver.newestSeen, receiver.newestSentAck} \subseteq history.received \cup {None}
  /\ receiver.newestSeen = None => receiver.newestSentAck = None

\* A range is not empty, ends before a packet that arrived, and none other ends there.
RangesInv(set, received) ==
  /\ set \subseteq LostRanges
  /\ \A r \in set : 1 <= r.oldest /\ r.oldest <= r.newest /\ r.newest + 1 \in received
  /\ \A r, q \in set : r.newest = q.newest => r = q

\* The newest packet of the loss list is one that arrived, or number 0 before the first.
NewestInv(newest, set, received, first) ==
  /\ received = {} => newest \in {None, 0} /\ set = {} /\ first = None
  /\ received # {} => newest \in received /\ first \in received

\* MissingIsListed, of all numbers; and while there was no NAK, in a range that ends
\* before any given packet beyond.
InRange(sn, r) == sn \in r.oldest .. r.newest
KeptInv(set, received, first, nak) ==
  \A late \in received, sn \in Nat \ received :
    first < sn /\ nak < sn /\ sn < late => \E r \in set : InRange(sn, r)
NestedInv(set, received, first) ==
  \A late \in received, sn \in Nat \ received :
    first < sn /\ sn < late => \E r \in set : InRange(sn, r) /\ r.newest < late

ListInv ==
  /\ history.received \subseteq history.sent
  /\ RangesInv(receiver.lossSet, history.received)
  /\ NewestInv(receiver.newest, receiver.lossSet, history.received, history.first)
  /\ receiver.newest = 0 /\ history.received = {} => unnumbered > 0
  /\ duplicates = 0 => KeptInv(receiver.lossSet, history.received, history.first, history.nak)
  /\ history.nak = None => NestedInv(receiver.lossSet, history.received, history.first)

FeedbackInv == SenderInv /\ PacketInv /\ AckInv /\ ListInv

-----------------------------------------------------------------------------

(* The ranges of the loss list *)

\* A nonempty set of numbers has a smallest one.
LEMMA Smallest ==
  ASSUME NEW S, S \subseteq Nat, S # {}
  PROVE  \E m \in S : \A n \in S : m <= n
<1>1. PICK m \in S : \A n \in S : ~ (<<n, m>> \in OpToRel(<, Nat))
  <2> HIDE DEF OpToRel
  <2>1. QED
    BY NatLessThanWellFounded, WFMin, Zenon
<1>2. \A n \in S : ~(n < m)
  BY <1>1 DEF OpToRel
<1>3. QED
  BY <1>2, SMT

\* The range that a late packet is looked for in is there if any ends at it or later.
LEMMA FirstFrom ==
  ASSUME NEW set, set \subseteq LostRanges, NEW sn \in Nat, NEW r \in set, r.newest >= sn
  PROVE  \E q \in set : /\ q.newest >= sn
                        /\ \A p \in set : p.newest >= sn => q.newest <= p.newest
<1> DEFINE Ends == {p.newest : p \in {p \in set : p.newest >= sn}}
<1>1. Ends \subseteq Nat /\ Ends # {}
  BY DEF LostRanges
<1>2. PICK m \in Ends : \A n \in Ends : m <= n
  BY <1>1, Smallest
<1>3. QED
  BY <1>2

\* The newest range that a NAK may be for is there.
LEMMA LastEligible ==
  ASSUME NEW set, set \subseteq LostRanges, Eligible(set) # {},
         NEW bound \in Nat, \A r \in set : r.newest <= bound
  PROVE  Chosen(set) \in Eligible(set) /\ Eligible(set) \subseteq set
<1> DEFINE Below == {bound - r.newest : r \in Eligible(set)}
<1>1. Below \subseteq Nat /\ Below # {}
  BY DEF Eligible, LostRanges
<1>2. PICK m \in Below : \A n \in Below : m <= n
  BY <1>1, Smallest
<1>3. PICK r \in Eligible(set) : m = bound - r.newest
  BY <1>2
<1>4. \A q \in Eligible(set) : q.newest <= r.newest
  <2> SUFFICES ASSUME NEW q \in Eligible(set) PROVE q.newest <= r.newest
    OBVIOUS
  <2>1. bound - r.newest <= bound - q.newest
    BY <1>2, <1>3
  <2>2. q.newest \in Nat /\ r.newest \in Nat
    BY DEF Eligible, LostRanges
  <2>3. QED
    BY <2>1, <2>2
<1>5. QED
  BY <1>3, <1>4 DEF Chosen, Eligible

\* Ranges that may be inserted: they end at different numbers, before packets that arrived.
LEMMA InsertInv ==
  ASSUME NEW set, NEW received, RangesInv(set, received), NEW ranges,
         ranges \subseteq [oldest : Nat, newest : Int, age : 0 .. MaxAge, feedbacks : Nat],
         \A r \in ranges : 1 <= r.oldest /\ r.newest + 1 \in received,
         \A r, q \in ranges : r.newest = q.newest => r = q
  PROVE  /\ RangesInv(Insert(set, ranges), received)
         /\ set \subseteq Insert(set, ranges)
         /\ \A r \in ranges : r.oldest <= r.newest =>
              \/ r \in Insert(set, ranges)
              \/ \E q \in set : q.newest = r.newest
<1> DEFINE inserted == Insert(set, ranges)
<1>1. \A r \in inserted : \/ r \in set
                          \/ /\ r \in ranges /\ r.oldest <= r.newest
                             /\ \A q \in set : q.newest # r.newest
  BY DEF Insert
<1>2. inserted \subseteq LostRanges
  <2> SUFFICES ASSUME NEW r \in inserted, r \notin set PROVE r \in LostRanges
    BY DEF RangesInv
  <2>1. r \in [oldest : Nat, newest : Int, age : 0 .. MaxAge, feedbacks : Nat] /\ r.oldest <= r.newest
    BY <1>1
  <2>2. r.newest \in Nat
    BY <2>1
  <2>3. QED
    BY <2>1, <2>2 DEF LostRanges
<1>3. \A r \in inserted : 1 <= r.oldest /\ r.oldest <= r.newest /\ r.newest + 1 \in received
  BY <1>1 DEF RangesInv
<1>4. \A r, q \in inserted : r.newest = q.newest => r = q
  BY <1>1 DEF RangesInv
<1>5. QED
  BY <1>2, <1>3, <1>4 DEF RangesInv, Insert

\* A packet from beyond the one that was expected: what is between is in a range.
LEMMA LostInv ==
  ASSUME NEW set, NEW received, RangesInv(set, received),
         NEW newest \in Nat, NEW sn \in Nat, sn \in received
  PROVE  /\ RangesInv(Insert(set, LostBefore(newest, sn)), received)
         /\ set \subseteq Insert(set, LostBefore(newest, sn))
         /\ newest + 1 <= sn - 1 =>
              \/ LostRange(newest + 1, sn - 1) \in Insert(set, LostBefore(newest, sn))
              \/ \E q \in set : q.newest = sn - 1
<1> DEFINE r == LostRange(newest + 1, sn - 1)
           ranges == LostBefore(newest, sn)
<1>1. ranges = {r}
  BY DEF LostBefore
<1>2. /\ r \in [oldest : Nat, newest : Int, age : 0 .. MaxAge, feedbacks : Nat]
      /\ r.oldest = newest + 1 /\ r.newest = sn - 1
  BY FeedbackAssumption DEF LostRange
<1>3. 1 <= r.oldest /\ r.newest + 1 \in received
  BY <1>2
<1> HIDE DEF r
<1>4. /\ ranges \subseteq [oldest : Nat, newest : Int, age : 0 .. MaxAge, feedbacks : Nat]
      /\ \A q \in ranges : 1 <= q.oldest /\ q.newest + 1 \in received
      /\ \A p, q \in ranges : p.newest = q.newest => p = q
  BY <1>1, <1>2, <1>3
<1> HIDE DEF ranges
<1>5. /\ RangesInv(Insert(set, ranges), received)
      /\ set \subseteq Insert(set, ranges)
      /\ \A q \in ranges : q.oldest <= q.newest =>
           q \in Insert(set, ranges) \/ \E p \in set : p.newest = q.newest
  BY <1>4, InsertInv
<1>6. r \in ranges
  BY <1>1
<1>7. QED
  BY <1>2, <1>5, <1>6 DEF ranges, r

\* The two pieces of a range that a late packet leaves.
LEMMA SplitInv ==
  ASSUME NEW set, NEW received, RangesInv(set, received),
         NEW q \in set, NEW sn \in Nat, sn \in received, InRange(sn, q)
  PROVE  /\ RangesInv(Split(set, q, sn), received)
         /\ set \ {q} \subseteq Split(set, q, sn)
         /\ \A x \in Nat : InRange(x, q) /\ x < sn =>
              \/ \E r \in Split(set, q, sn) : InRange(x, r) /\ r.newest = sn - 1
              \/ \E p \in set : p.newest = sn - 1
         /\ \A x \in Nat : InRange(x, q) /\ x > sn =>
              \E r \in Split(set, q, sn) : InRange(x, r) /\ r.newest = q.newest
<1> DEFINE lower == [q EXCEPT !.newest = sn - 1]
           upper == [q EXCEPT !.oldest = sn + 1, !.feedbacks = 0]
           all == [oldest : Nat, newest : Int, age : 0 .. MaxAge, feedbacks : Nat]
<1>1. /\ q \in LostRanges /\ q.oldest \in Nat /\ q.newest \in Nat /\ 1 <= q.oldest
      /\ q.newest + 1 \in received /\ q.oldest <= sn /\ sn <= q.newest
  BY DEF RangesInv, LostRanges, InRange
<1>2. lower \in all /\ lower.oldest = q.oldest /\ lower.newest = sn - 1
  BY <1>1 DEF LostRanges
<1>3. upper \in all /\ upper.oldest = sn + 1 /\ upper.newest = q.newest
  <2> DEFINE above == [q EXCEPT !.oldest = sn + 1]
  <2>1. above \in all /\ above.oldest = sn + 1 /\ above.newest = q.newest
    BY <1>1 DEF LostRanges
  <2>2. upper = [above EXCEPT !.feedbacks = 0]
    OBVIOUS
  <2> HIDE DEF above, upper
  <2>3. QED
    BY <2>1, <2>2
<1>4. RangesInv(set \ {q}, received)
  BY DEF RangesInv
<1>5. Split(set, q, sn) = Insert(set \ {q}, {lower, upper})
  BY DEF Split
<1> HIDE DEF lower, upper
<1> DEFINE pieces == {lower, upper}
           others == set \ {q}
<1>11. /\ pieces \subseteq all
       /\ \A r \in pieces : 1 <= r.oldest /\ r.newest + 1 \in received
       /\ \A r, p \in pieces : r.newest = p.newest => r = p
  BY <1>1, <1>2, <1>3
<1>6. /\ RangesInv(Split(set, q, sn), received)
      /\ set \ {q} \subseteq Split(set, q, sn)
      /\ \A r \in {lower, upper} : r.oldest <= r.newest =>
              \/ r \in Split(set, q, sn)
              \/ \E p \in set \ {q} : p.newest = r.newest
  <2> HIDE DEF pieces, others
  <2>1. /\ RangesInv(Insert(others, pieces), received)
        /\ others \subseteq Insert(others, pieces)
        /\ \A r \in pieces : r.oldest <= r.newest =>
             r \in Insert(others, pieces) \/ \E p \in others : p.newest = r.newest
    <3>1. RangesInv(others, received)
      BY <1>4 DEF others
    <3>2. QED
      BY <1>11, <3>1, InsertInv
  <2>2. QED
    BY <1>5, <2>1 DEF pieces, others
<1>7. \A p \in set \ {q} : p.newest # q.newest
  BY DEF RangesInv
<1>8. ASSUME NEW x \in Nat, InRange(x, q), x < sn
      PROVE  \/ \E r \in Split(set, q, sn) : InRange(x, r) /\ r.newest = sn - 1
             \/ \E p \in set : p.newest = sn - 1
  <2>1. InRange(x, lower) /\ lower.oldest <= lower.newest
    BY <1>1, <1>2, <1>8 DEF InRange
  <2>2. QED
    BY <2>1, <1>2, <1>6
<1>9. ASSUME NEW x \in Nat, InRange(x, q), x > sn
      PROVE  \E r \in Split(set, q, sn) : InRange(x, r) /\ r.newest = q.newest
  <2>1. InRange(x, upper) /\ upper.oldest <= upper.newest
    BY <1>1, <1>3, <1>9 DEF InRange
  <2>2. QED
    BY <2>1, <1>3, <1>6, <1>7
<1>10. QED
  BY <1>6, <1>8, <1>9

-----------------------------------------------------------------------------
(* A packet arrives at the loss list *)

\* The first packet has the number that was sent.
LEMMA GuessFromNothing ==
  ASSUME NEW sn \in 0 .. Mask - 1
  PROVE  GuessFromExpected(0, sn) = sn
<1>1. Wrap(0) = 0
  BY WrapIsIdentity, SeqNumAssumption DEF Wrapped
<1>2. Mask \div 2 \in Nat /\ Mask \in Nat
  BY SeqNumAssumption
<1>3. CyclicDifferenceSigned(0, sn) \in {-sn, Mask - sn}
  BY <1>2 DEF CyclicDifferenceSigned, CyclicDifference
<1>4. QED
  BY <1>1, <1>2, <1>3 DEF GuessFromExpected

\* What gotPacket does to the loss list r, when it guesses that the number is sn.
GotCases(r, sn, newer, g) ==
  \/ (r.newest = None \/ sn = r.newest + 1) /\ g = newer
  \/ r.newest # None /\ sn < r.newest /\ RangesOf(r.lossSet, sn) = {} /\ g = r
  \/ /\ r.newest # None /\ sn < r.newest
     /\ \E q \in RangesOf(r.lossSet, sn) :
          g = [newer EXCEPT !.lossSet = Split(r.lossSet, q, sn)]
  \/ /\ r.newest # None /\ sn >= r.newest
     /\ g = [newer EXCEPT !.lossSet = Insert(r.lossSet, LostBefore(r.newest, sn))]

\* These are all the cases.
LEMMA LossListCases ==
  ASSUME NEW r \in Receivers, NEW wrapped, NEW sn \in Nat,
         GuessFromExpected(r.newest + 1, wrapped) = sn,
         NEW newer, newer = [r EXCEPT !.newest = sn]
  PROVE  GotCases(r, sn, newer, LossListGotPacket(r, wrapped))
<1> DEFINE g == LossListGotPacket(r, wrapped)
<1>1. newer.lossSet = r.lossSet /\ r.newest \in Nat \cup {None}
  BY DEF Receivers
<1>2. CASE r.newest = None \/ sn = r.newest + 1
  <2>1. g = newer
    BY <1>2, <1>1 DEF LossListGotPacket, None
  <2>2. QED
    BY <1>2, <2>1 DEF GotCases
<1>3. CASE r.newest # None /\ sn < r.newest
  <2>1. sn # r.newest + 1
    BY <1>1, <1>3 DEF None
  <2>2. g = IF RangesOf(r.lossSet, sn) = {} THEN r
            ELSE [newer EXCEPT !.lossSet =
                    Split(r.lossSet, CHOOSE q \in RangesOf(r.lossSet, sn) : TRUE, sn)]
    BY <2>1, <1>1, <1>3 DEF LossListGotPacket
  <2>3. QED
    BY <1>3, <2>2 DEF GotCases
<1>4. CASE r.newest # None /\ sn >= r.newest /\ sn # r.newest + 1
  <2>1. ~(sn < r.newest)
    BY <1>1, <1>4
  <2>2. g = [newer EXCEPT !.lossSet = Insert(r.lossSet, LostBefore(r.newest, sn))]
    BY <2>1, <1>1, <1>4 DEF LossListGotPacket
  <2>3. QED
    BY <1>4, <2>2 DEF GotCases
<1>5. \/ r.newest = None \/ sn = r.newest + 1
      \/ r.newest # None /\ sn < r.newest
      \/ r.newest # None /\ sn >= r.newest /\ sn # r.newest + 1
  BY <1>1
<1>6. QED
  BY <1>2, <1>3, <1>4, <1>5, Zenon

\* The state of the loss list: the newest number, the ranges, and with them the packets
\* that arrived and the first of them.
ListOK(newest, set, received, first) ==
  /\ received \subseteq Nat /\ newest \in Nat \cup {None}
  /\ RangesInv(set, received)
  /\ NewestInv(newest, set, received, first)

FirstOf(first, sn) == IF first = None THEN sn ELSE first

\* The ranges after hold what is missing once packet sn arrived if those before held what
\* was missing then.
Keeps(before, after, received, first, sn) ==
  /\ sn \notin received =>
       \A nak \in Nat \cup {None} :
         KeptInv(before, received, first, nak)
           => KeptInv(after, received \cup {sn}, FirstOf(first, sn), nak)
  /\ NestedInv(before, received, first)
       => NestedInv(after, received \cup {sn}, FirstOf(first, sn))

\* A number that is missing after packet sn was missing before, and lies before the newest
\* packet or beyond it but before sn.
LEMMA MissingBefore ==
  ASSUME NEW newest, NEW set, NEW received, NEW first, ListOK(newest, set, received, first),
         NEW sn \in Nat, NEW late \in received \cup {sn}, NEW x \in Nat \ (received \cup {sn}),
         FirstOf(first, sn) < x, x < late
  PROVE  /\ received # {} /\ newest \in received /\ first \in received /\ first < x
         /\ x \in Nat \ received /\ x # sn /\ x # newest
<1>1. CASE received = {}
  <2>1. FirstOf(first, sn) = sn /\ late = sn
    BY <1>1 DEF ListOK, NewestInv, FirstOf
  <2>2. QED
    BY <2>1
<1>2. CASE received # {}
  <2>1. newest \in received /\ first \in received /\ first \in Nat
    BY <1>2 DEF ListOK, NewestInv
  <2>2. FirstOf(first, sn) = first
    BY <2>1 DEF FirstOf, None
  <2>3. QED
    BY <1>2, <2>1, <2>2
<1>3. QED
  BY <1>1, <1>2

\* It is enough that each number that is missing is in a range after.
LEMMA KeepsIf ==
  ASSUME NEW newest, NEW before, NEW after, NEW received, NEW first,
         ListOK(newest, before, received, first), NEW sn \in Nat,
         \A late \in received \cup {sn}, x \in Nat \ (received \cup {sn}), nak \in Nat \cup {None} :
           /\ sn \notin received /\ KeptInv(before, received, first, nak)
           /\ FirstOf(first, sn) < x /\ nak < x /\ x < late
           => \E r \in after : InRange(x, r),
         \A late \in received \cup {sn}, x \in Nat \ (received \cup {sn}) :
           /\ NestedInv(before, received, first)
           /\ FirstOf(first, sn) < x /\ x < late
           => \E r \in after : InRange(x, r) /\ r.newest < late
  PROVE  Keeps(before, after, received, first, sn)
<1>1. ASSUME sn \notin received, NEW nak \in Nat \cup {None}, KeptInv(before, received, first, nak)
      PROVE  KeptInv(after, received \cup {sn}, FirstOf(first, sn), nak)
  BY <1>1 DEF KeptInv
<1>2. ASSUME NestedInv(before, received, first)
      PROVE  NestedInv(after, received \cup {sn}, FirstOf(first, sn))
  BY <1>2 DEF NestedInv
<1>3. QED
  BY <1>1, <1>2 DEF Keeps

\* The packet that was expected.
LEMMA ExpectedArrives ==
  ASSUME NEW newest, NEW set, NEW received, NEW first, ListOK(newest, set, received, first),
         NEW sn \in Nat, newest = None \/ sn = newest + 1
  PROVE  /\ ListOK(sn, set, received \cup {sn}, FirstOf(first, sn))
         /\ Keeps(set, set, received, first, sn)
<1>1. ListOK(sn, set, received \cup {sn}, FirstOf(first, sn))
  BY DEF ListOK, RangesInv, NewestInv, FirstOf, None
<1>2. ASSUME NEW late \in received \cup {sn}, NEW x \in Nat \ (received \cup {sn}),
             FirstOf(first, sn) < x, x < late
      PROVE  /\ x \in Nat \ received /\ first < x
             /\ \E y \in received : x < y /\ y <= late
  <2>1. /\ newest \in received /\ first < x /\ x \in Nat \ received /\ x # newest
    BY <1>2, MissingBefore
  <2>2. newest \in Nat /\ received \subseteq Nat
    BY <2>1 DEF ListOK
  <2>3. CASE late \in received
    BY <2>1, <2>2, <2>3, <1>2
  <2>4. CASE late = sn
    <3>1. sn = newest + 1
      BY <2>2 DEF None
    <3>2. x < newest /\ newest <= late
      BY <3>1, <2>4, <2>1, <2>2, <1>2
    <3>3. QED
      BY <3>2, <2>1
  <2>5. QED
    BY <2>3, <2>4
<1>3. ASSUME NEW late \in received \cup {sn}, NEW x \in Nat \ (received \cup {sn}),
             NEW nak \in Nat \cup {None}, KeptInv(set, received, first, nak),
             FirstOf(first, sn) < x, nak < x, x < late
      PROVE  \E r \in set : InRange(x, r)
  BY <1>2, <1>3 DEF KeptInv
<1>4. ASSUME NEW late \in received \cup {sn}, NEW x \in Nat \ (received \cup {sn}),
             NestedInv(set, received, first), FirstOf(first, sn) < x, x < late
      PROVE  \E r \in set : InRange(x, r) /\ r.newest < late
  <2>1. PICK y \in received : x < y /\ y <= late
    BY <1>2, <1>4
  <2>2. x \in Nat \ received /\ first < x
    BY <1>2, <1>4
  <2>3. PICK r \in set : InRange(x, r) /\ r.newest < y
    BY <2>1, <2>2, <1>4 DEF NestedInv
  <2>4. r.newest \in Nat /\ y \in Nat /\ late \in Nat
    BY DEF ListOK, RangesInv, LostRanges
  <2>5. QED
    BY <2>1, <2>3, <2>4
<1>5. QED
  BY <1>1, <1>3, <1>4, KeepsIf

\* Before a late packet another one arrived.
LEMMA SomeArrived ==
  ASSUME NEW newest, NEW set, NEW received, NEW first, ListOK(newest, set, received, first),
         NEW sn \in Nat, newest # None, sn < newest
  PROVE  newest \in received /\ received \subseteq Nat /\ first \in Nat /\ first \in received
<1>1. newest \in Nat /\ received \subseteq Nat
  BY DEF ListOK
<1>2. newest # 0
  BY <1>1
<1>3. received # {}
  BY <1>2 DEF ListOK, NewestInv
<1>4. newest \in received /\ first \in received
  BY <1>3 DEF ListOK, NewestInv
<1>5. QED
  BY <1>1, <1>4

\* A late packet that is in no range.  While there was no NAK it is one that had arrived,
\* or is older than the first.
LEMMA UnlistedArrives ==
  ASSUME NEW newest, NEW set, NEW received, NEW first, ListOK(newest, set, received, first),
         NEW sn \in Nat, newest # None, sn < newest, RangesOf(set, sn) = {}
  PROVE  /\ ListOK(newest, set, received \cup {sn}, FirstOf(first, sn))
         /\ Keeps(set, set, received, first, sn)
<1>1. newest \in received /\ received \subseteq Nat /\ first \in Nat /\ first \in received
  BY SomeArrived
<1>2. ListOK(newest, set, received \cup {sn}, FirstOf(first, sn))
  BY <1>1 DEF ListOK, RangesInv, NewestInv, FirstOf, None
<1>3. ASSUME NEW late \in received \cup {sn}, NEW x \in Nat \ (received \cup {sn}),
             NEW nak \in Nat \cup {None}, KeptInv(set, received, first, nak),
             FirstOf(first, sn) < x, nak < x, x < late
      PROVE  \E r \in set : InRange(x, r)
  <2>1. x \in Nat \ received /\ first < x
    BY <1>3, MissingBefore
  <2>2. late \in received \/ x < newest
    BY <1>1, <1>3
  <2>3. QED
    BY <1>1, <2>1, <2>2, <1>3 DEF KeptInv
<1>4. ASSUME NEW late \in received \cup {sn}, NEW x \in Nat \ (received \cup {sn}),
             NestedInv(set, received, first), FirstOf(first, sn) < x, x < late
      PROVE  \E r \in set : InRange(x, r) /\ r.newest < late
  <2>1. x \in Nat \ received /\ first < x
    BY <1>4, MissingBefore
  <2>2. CASE late \in received
    BY <2>1, <2>2, <1>4 DEF NestedInv
  <2>3. CASE late \notin received
    <3>1. late = sn /\ sn \in Nat \ received /\ first < sn
      BY <2>1, <2>3, <1>1, <1>4
    <3>2. PICK r \in set : InRange(sn, r) /\ r.newest < newest
      BY <3>1, <1>1, <1>4 DEF NestedInv
    <3>3. set \subseteq LostRanges /\ r.newest >= sn
      BY <3>2 DEF InRange, ListOK, RangesInv, LostRanges
    <3>4. PICK q \in set : /\ q.newest >= sn
                           /\ \A p \in set : p.newest >= sn => q.newest <= p.newest
      BY <3>3, FirstFrom
    <3>5. q.newest + 1 \in received /\ q.newest \in Nat /\ q.oldest \in Nat
      BY DEF ListOK, RangesInv, LostRanges
    <3>6. sn < q.newest + 1
      BY <3>4, <3>5
    <3>7. PICK p \in set : InRange(sn, p) /\ p.newest < q.newest + 1
      BY <3>1, <3>5, <3>6, <1>4 DEF NestedInv
    <3>8. p.newest \in Nat /\ p.newest >= sn /\ p.oldest <= sn
      BY <3>7 DEF InRange, ListOK, RangesInv, LostRanges
    <3>9. p.newest = q.newest
      BY <3>4, <3>5, <3>7, <3>8
    <3>10. p = q
      BY <3>9 DEF ListOK, RangesInv
    <3>11. q \in RangesOf(set, sn)
      BY <3>4, <3>8, <3>10 DEF RangesOf
    <3>12. QED
      BY <3>11
  <2>4. QED
    BY <2>2, <2>3
<1>5. QED
  BY <1>2, <1>3, <1>4, KeepsIf

\* A late packet splits its range.
LEMMA LateArrives ==
  ASSUME NEW newest, NEW set, NEW received, NEW first, ListOK(newest, set, received, first),
         NEW sn \in Nat, newest # None, sn < newest, NEW q \in RangesOf(set, sn),
         NEW after, after = Split(set, q, sn)
  PROVE  /\ ListOK(sn, after, received \cup {sn}, FirstOf(first, sn))
         /\ Keeps(set, after, received, first, sn)
<1> DEFINE arrived == received \cup {sn}
<1>1. newest \in received /\ received \subseteq Nat /\ first \in Nat /\ first \in received
  BY SomeArrived
<1>2. /\ q \in set /\ InRange(sn, q) /\ q \in LostRanges
      /\ q.newest \in Nat /\ q.oldest \in Nat /\ q.newest + 1 \in received /\ q.newest >= sn
      /\ \A p \in set : p.newest >= sn => q.newest <= p.newest
      /\ \A p \in set : p.newest \in Nat /\ p.newest + 1 \in received
      /\ \A p \in set : p.newest = q.newest => p = q
  <2>1. set \subseteq LostRanges
    BY DEF ListOK, RangesInv
  <2>2. q \in set
    BY DEF RangesOf
  <2>3. \A p \in set : p.newest + 1 \in received
    BY DEF ListOK, RangesInv
  <2>4. \A p \in set : p.newest = q.newest => p = q
    BY <2>2 DEF ListOK, RangesInv
  <2>5. QED
    BY <2>1, <2>2, <2>3, <2>4 DEF RangesOf, LostRanges, InRange
<1>3. RangesInv(set, arrived) /\ sn \in arrived
  BY DEF ListOK, RangesInv
<1>4. /\ RangesInv(after, arrived)
      /\ set \ {q} \subseteq after
      /\ \A x \in Nat : InRange(x, q) /\ x < sn =>
           \/ \E r \in after : InRange(x, r) /\ r.newest = sn - 1
           \/ \E p \in set : p.newest = sn - 1
      /\ \A x \in Nat : InRange(x, q) /\ x > sn =>
           \E r \in after : InRange(x, r) /\ r.newest = q.newest
  <2> HIDE DEF arrived
  <2>1. QED
    BY <1>2, <1>3, SplitInv
<1>5. ListOK(sn, after, arrived, FirstOf(first, sn))
  BY <1>1, <1>4 DEF ListOK, NewestInv, FirstOf, None
\* Unless sn had arrived, no range ends before it.
<1>6. \A p \in set : p.newest = sn - 1 => sn \in received
  BY <1>2
<1>7. ASSUME NEW late \in received \cup {sn}, NEW x \in Nat \ (received \cup {sn}),
             NEW nak \in Nat \cup {None}, sn \notin received, KeptInv(set, received, first, nak),
             FirstOf(first, sn) < x, nak < x, x < late
      PROVE  \E r \in after : InRange(x, r)
  <2>1. x \in Nat \ received /\ first < x /\ x # sn
    BY <1>7, MissingBefore
  <2>2. late \in received \/ x < newest
    BY <1>1, <1>7
  <2>3. PICK p \in set : InRange(x, p)
    BY <1>1, <2>1, <2>2, <1>7 DEF KeptInv
  <2>4. CASE p # q
    BY <1>4, <2>3, <2>4
  <2>5. CASE p = q
    BY <1>4, <1>6, <1>7, <2>1, <2>3, <2>5
  <2>6. QED
    BY <2>4, <2>5
<1>8. ASSUME NEW late \in received \cup {sn}, NEW x \in Nat \ (received \cup {sn}),
             NestedInv(set, received, first), FirstOf(first, sn) < x, x < late
      PROVE  \E r \in after : InRange(x, r) /\ r.newest < late
  <2>1. x \in Nat \ received /\ first < x /\ x # sn /\ late \in Nat
    BY <1>1, <1>8, MissingBefore
  \* Before sn there is a range that ends before sn, whether or not sn had arrived.
  <2>2. ASSUME x < sn, InRange(x, q) \/ late = sn
        PROVE  \E r \in after : InRange(x, r) /\ r.newest < sn
    <3>1. CASE sn \in received
      <4>1. PICK p \in set : InRange(x, p) /\ p.newest < sn
        BY <2>1, <2>2, <3>1, <1>8 DEF NestedInv
      <4>2. p # q
        BY <4>1, <1>2
      <4>3. QED
        BY <4>1, <4>2, <1>4
    <3>2. CASE sn \notin received
      <4>1. x < q.newest + 1
        BY <2>2, <1>2
      <4>2. PICK p \in set : InRange(x, p) /\ p.newest < q.newest + 1
        BY <2>1, <4>1, <1>2, <1>8 DEF NestedInv
      <4>3. CASE p = q
        <5>1. PICK r \in after : InRange(x, r) /\ r.newest = sn - 1
          BY <4>2, <4>3, <3>2, <2>1, <2>2, <1>4, <1>6
        <5>2. QED
          BY <5>1
      <4>4. CASE p # q
        <5>1. p.newest < q.newest
          BY <4>2, <4>4, <1>2
        <5>2. p.newest < sn
          BY <5>1, <1>2
        <5>3. QED
          BY <5>2, <4>2, <4>4, <1>4
      <4>5. QED
        BY <4>3, <4>4
    <3>3. QED
      BY <3>1, <3>2
  <2>3. CASE late \notin received
    BY <2>2, <2>3, <1>8
  <2>4. CASE late \in received
    <3>1. PICK p \in set : InRange(x, p) /\ p.newest < late
      BY <2>1, <2>4, <1>8 DEF NestedInv
    <3>2. CASE p # q
      BY <3>1, <3>2, <1>4
    <3>3. CASE p = q /\ x > sn
      BY <3>1, <3>3, <2>1, <1>4
    <3>4. CASE p = q /\ x < sn
      <4>1. PICK r \in after : InRange(x, r) /\ r.newest < sn
        BY <2>2, <3>1, <3>4
      <4>2. r.newest \in Nat
        BY <1>4 DEF RangesInv, LostRanges
      <4>3. sn < late
        BY <3>1, <3>4, <1>2, <2>1
      <4>4. r.newest < late
        BY <4>1, <4>2, <4>3, <2>1
      <4>5. QED
        BY <4>1, <4>4
    <3>5. QED
      BY <3>2, <3>3, <3>4, <2>1
  <2>5. QED
    BY <2>3, <2>4
<1>9. QED
  BY <1>5, <1>7, <1>8, KeepsIf

\* A packet from beyond the one that was expected, or the newest one once more.
LEMMA NewArrives ==
  ASSUME NEW newest, NEW set, NEW received, NEW first, ListOK(newest, set, received, first),
         NEW sn \in Nat, newest # None, sn >= newest,
         NEW after, after = Insert(set, LostBefore(newest, sn))
  PROVE  /\ ListOK(sn, after, received \cup {sn}, FirstOf(first, sn))
         /\ Keeps(set, after, received, first, sn)
<1> DEFINE arrived == received \cup {sn}
           lost == LostRange(newest + 1, sn - 1)
<1>1. received \subseteq Nat /\ newest \in Nat /\ (received = {} \/ (newest \in received /\ first \in received))
  BY DEF ListOK, NewestInv, None
<1>2. RangesInv(set, arrived) /\ sn \in arrived /\ RangesInv(set, received)
  BY DEF ListOK, RangesInv
<1>3. /\ RangesInv(after, arrived)
      /\ set \subseteq after
      /\ newest + 1 <= sn - 1 => lost \in after \/ \E q \in set : q.newest = sn - 1
  <2> HIDE DEF arrived
  <2>1. QED
    BY <1>1, <1>2, LostInv
<1>4. ListOK(sn, after, arrived, FirstOf(first, sn))
  BY <1>1, <1>3 DEF ListOK, NewestInv, FirstOf, None
<1>5. lost.oldest = newest + 1 /\ lost.newest = sn - 1
  BY DEF LostRange
<1>6. \A q \in set : q.newest = sn - 1 => sn \in received
  BY <1>2 DEF RangesInv, LostRanges
<1> HIDE DEF lost
\* What is missing before sn, but not before another packet, is in the new range.
<1>7. ASSUME NEW x \in Nat, newest < x, x < sn, sn \notin received
      PROVE  lost \in after /\ InRange(x, lost) /\ lost.newest < sn
  BY <1>1, <1>3, <1>5, <1>6, <1>7 DEF InRange
<1>8. ASSUME NEW late \in received \cup {sn}, NEW x \in Nat \ (received \cup {sn}),
             FirstOf(first, sn) < x, x < late
      PROVE  /\ x \in Nat \ received /\ first < x
             /\ \/ late \in received
                \/ newest \in received /\ x < newest /\ newest <= late
                \/ late = sn /\ sn \notin received /\ newest < x
  <2>1. x \in Nat \ received /\ first < x /\ x # newest /\ newest \in received
    BY <1>8, MissingBefore
  <2>2. QED
    BY <2>1, <1>1, <1>8
<1>9. ASSUME NEW late \in received \cup {sn}, NEW x \in Nat \ (received \cup {sn}),
             NEW nak \in Nat \cup {None}, KeptInv(set, received, first, nak),
             FirstOf(first, sn) < x, nak < x, x < late
      PROVE  \E r \in after : InRange(x, r)
  <2>1. CASE late = sn /\ sn \notin received /\ newest < x
    BY <2>1, <1>7, <1>9
  <2>2. CASE late \in received \/ (newest \in received /\ x < newest)
    <3>1. x \in Nat \ received /\ first < x
      BY <1>8, <1>9
    <3>2. \E r \in set : InRange(x, r)
      BY <2>2, <3>1, <1>9 DEF KeptInv
    <3>3. QED
      BY <3>2, <1>3
  <2>3. QED
    BY <1>8, <1>9, <2>1, <2>2
<1>10. ASSUME NEW late \in received \cup {sn}, NEW x \in Nat \ (received \cup {sn}),
              NestedInv(set, received, first), FirstOf(first, sn) < x, x < late
       PROVE  \E r \in after : InRange(x, r) /\ r.newest < late
  <2>1. CASE late = sn /\ sn \notin received /\ newest < x
    BY <2>1, <1>7, <1>10
  <2>2. ASSUME NEW y \in received, x < y, y <= late
        PROVE  \E r \in after : InRange(x, r) /\ r.newest < late
    <3>1. x \in Nat \ received /\ first < x
      BY <1>8, <1>10
    <3>2. PICK r \in set : InRange(x, r) /\ r.newest < y
      BY <2>2, <3>1, <1>10 DEF NestedInv
    <3>3. r.newest \in Nat /\ y \in Nat /\ late \in Nat
      BY <1>1, <1>2 DEF RangesInv, LostRanges
    <3>4. QED
      BY <3>2, <3>3, <2>2, <1>3
  <2>3. late \in received => late <= late
    BY <1>1
  <2>4. QED
    BY <1>8, <1>10, <2>1, <2>2, <2>3
<1>11. QED
  BY <1>4, <1>9, <1>10, KeepsIf

\* A packet with a number, whatever it was to the loss list.
LEMMA NumberedArrives ==
  ASSUME NEW r \in Receivers, NEW received, NEW first,
         ListOK(r.newest, r.lossSet, received, first), NEW wrapped, NEW sn \in Nat,
         GuessFromExpected(r.newest + 1, wrapped) = sn,
         NEW g, g = LossListGotPacket(r, wrapped)
  PROVE  /\ g \in Receivers
         /\ g.newestSeen = r.newestSeen /\ g.newestSentAck = r.newestSentAck
         /\ ListOK(g.newest, g.lossSet, received \cup {sn}, FirstOf(first, sn))
         /\ Keeps(r.lossSet, g.lossSet, received, first, sn)
<1> DEFINE newer == [r EXCEPT !.newest = sn]
<1>1. /\ newer \in Receivers /\ newer.newest = sn /\ newer.lossSet = r.lossSet
      /\ newer.newestSeen = r.newestSeen /\ newer.newestSentAck = r.newestSentAck
  BY DEF Receivers
<1> HIDE DEF newer
<1>2. ASSUME NEW after, ListOK(sn, after, received \cup {sn}, FirstOf(first, sn)),
             g = [newer EXCEPT !.lossSet = after]
      PROVE  /\ g \in Receivers /\ g.newest = sn /\ g.lossSet = after
             /\ g.newestSeen = r.newestSeen /\ g.newestSentAck = r.newestSentAck
  <2>1. after \in SUBSET LostRanges
    BY <1>2 DEF ListOK, RangesInv
  <2>2. QED
    BY <1>1, <1>2, <2>1 DEF Receivers
<1>3. CASE (r.newest = None \/ sn = r.newest + 1) /\ g = newer
  BY <1>1, <1>3, ExpectedArrives
<1>4. CASE r.newest # None /\ sn < r.newest /\ RangesOf(r.lossSet, sn) = {} /\ g = r
  BY <1>4, UnlistedArrives
<1>5. CASE /\ r.newest # None /\ sn < r.newest
           /\ \E q \in RangesOf(r.lossSet, sn) :
                g = [newer EXCEPT !.lossSet = Split(r.lossSet, q, sn)]
  <2>1. PICK q \in RangesOf(r.lossSet, sn) : g = [newer EXCEPT !.lossSet = Split(r.lossSet, q, sn)]
    BY <1>5
  <2> DEFINE after == Split(r.lossSet, q, sn)
  <2>2. g = [newer EXCEPT !.lossSet = after] /\ after = Split(r.lossSet, q, sn)
    BY <2>1
  <2> HIDE DEF after
  <2>3. /\ ListOK(sn, after, received \cup {sn}, FirstOf(first, sn))
        /\ Keeps(r.lossSet, after, received, first, sn)
    BY <1>5, <2>2, LateArrives
  <2>4. QED
    BY <1>2, <2>2, <2>3
<1>6. CASE /\ r.newest # None /\ sn >= r.newest
           /\ g = [newer EXCEPT !.lossSet = Insert(r.lossSet, LostBefore(r.newest, sn))]
  <2> DEFINE after == Insert(r.lossSet, LostBefore(r.newest, sn))
  <2>1. g = [newer EXCEPT !.lossSet = after] /\ after = Insert(r.lossSet, LostBefore(r.newest, sn))
    BY <1>6
  <2> HIDE DEF after
  <2>2. /\ ListOK(sn, after, received \cup {sn}, FirstOf(first, sn))
        /\ Keeps(r.lossSet, after, received, first, sn)
    BY <1>6, <2>1, NewArrives
  <2>3. QED
    BY <1>2, <2>1, <2>2
<1>7. GotCases(r, sn, newer, g)
  BY LossListCases DEF newer
<1>8. QED
  BY <1>3, <1>4, <1>5, <1>6, <1>7, Zenon DEF GotCases

\* A packet without a number, which counts as packet 0.
LEMMA UnnumberedArrives ==
  ASSUME NEW r \in Receivers, NEW received, NEW first,
         ListOK(r.newest, r.lossSet, received, first), NEW wrapped,
         GuessFromExpected(r.newest + 1, wrapped) = 0,
         NEW g, g = LossListGotPacket(r, wrapped)
  PROVE  /\ g \in Receivers
         /\ g.newestSeen = r.newestSeen /\ g.newestSentAck = r.newestSentAck
         /\ ListOK(g.newest, g.lossSet, received, first)
         /\ g.lossSet = r.lossSet
<1> DEFINE newer == [r EXCEPT !.newest = 0]
<1>1. /\ newer \in Receivers /\ newer.newest = 0 /\ newer.lossSet = r.lossSet
      /\ newer.newestSeen = r.newestSeen /\ newer.newestSentAck = r.newestSentAck
  BY DEF Receivers
<1> HIDE DEF newer
<1>2. r.newest \in Nat \cup {None} /\ RangesInv(r.lossSet, received)
  BY DEF ListOK
<1>3. CASE r.newest \in {None, 0} /\ g = newer
  BY <1>1, <1>3 DEF ListOK, NewestInv, None
<1>4. CASE g = r
  BY <1>4
<1>5. RangesOf(r.lossSet, 0) = {}
  BY <1>2 DEF RangesOf, RangesInv, LostRanges
<1>6. CASE /\ r.newest # None /\ 0 >= r.newest
           /\ g = [newer EXCEPT !.lossSet = Insert(r.lossSet, LostBefore(r.newest, 0))]
  <2>1. r.newest = 0
    BY <1>2, <1>6
  <2>2. Insert(r.lossSet, LostBefore(0, 0)) = r.lossSet
    BY DEF Insert, LostBefore, LostRange
  <2>3. g = [newer EXCEPT !.lossSet = newer.lossSet]
    BY <1>6, <2>1, <2>2, <1>1
  <2>4. g = newer
    BY <2>3, <1>1 DEF Receivers
  <2>5. QED
    BY <2>1, <2>4, <1>3
<1>7. r.newest = None \/ 0 = r.newest + 1 => r.newest \in {None, 0}
  BY <1>2 DEF None
<1>8. GotCases(r, 0, newer, g)
  <2>1. 0 \in Nat
    OBVIOUS
  <2>2. QED
    BY <2>1, LossListCases DEF newer
<1>9. QED
  BY <1>3, <1>4, <1>5, <1>6, <1>7, <1>8, Zenon DEF GotCases

-----------------------------------------------------------------------------
(* The NAK timer, and time *)

\* What there was a NAK for is forgotten, with what is before it.
LEMMA NakKeeps ==
  ASSUME NEW newest, NEW set, NEW received, NEW first, ListOK(newest, set, received, first),
         NEW r \in set, NEW left,
         left = [r EXCEPT !.oldest = @ + 1, !.age = 0, !.feedbacks = @ + 1],
         NEW nak \in Nat \cup {None}, NEW latest, latest = IF r.oldest > nak THEN r.oldest ELSE nak,
         NEW after, after = Insert(ForgetUpTo(set, r), {left})
  PROVE  /\ ListOK(newest, after, received, first)
         /\ latest \in Nat
         /\ KeptInv(set, received, first, nak) => KeptInv(after, received, first, latest)
<1> DEFINE kept == ForgetUpTo(set, r)
           all == [oldest : Nat, newest : Int, age : 0 .. MaxAge, feedbacks : Nat]
           ranges == {left}
<1>1. /\ r \in LostRanges /\ r.oldest \in Nat /\ r.newest \in Nat /\ r.feedbacks \in Nat
      /\ r.newest + 1 \in received /\ 1 <= r.oldest
      /\ \A q \in set : q.newest \in Nat /\ q.oldest \in Nat
  BY DEF ListOK, RangesInv, LostRanges
<1>2. left \in all /\ left.oldest = r.oldest + 1 /\ left.newest = r.newest
  <2> DEFINE one == [r EXCEPT !.oldest = r.oldest + 1]
             two == [one EXCEPT !.age = 0]
  <2>1. one \in all /\ one.oldest = r.oldest + 1 /\ one.newest = r.newest /\ one.feedbacks = r.feedbacks
    BY <1>1 DEF LostRanges
  <2>2. two = [one EXCEPT !.age = 0]
    OBVIOUS
  <2>3. left = [two EXCEPT !.feedbacks = r.feedbacks + 1]
    BY <1>1 DEF LostRanges
  <2> HIDE DEF one, two
  <2>4. two \in all /\ two.oldest = r.oldest + 1 /\ two.newest = r.newest
    BY <2>1, <2>2, FeedbackAssumption
  <2>5. QED
    BY <2>3, <2>4, <1>1
<1>3. RangesInv(kept, received) /\ kept \subseteq set
  BY DEF ListOK, RangesInv, ForgetUpTo
<1>4. /\ ranges \subseteq all
      /\ \A q \in ranges : 1 <= q.oldest /\ q.newest + 1 \in received
      /\ \A p, q \in ranges : p.newest = q.newest => p = q
  BY <1>1, <1>2
<1>5. after = Insert(kept, ranges)
  OBVIOUS
<1>6. \A q \in kept : q.newest > r.newest
  BY DEF ForgetUpTo
<1>7. \A q \in set : q \in kept \/ q.newest <= r.newest
  BY <1>1 DEF ForgetUpTo
<1> HIDE DEF kept, ranges
<1>8. /\ RangesInv(after, received) /\ kept \subseteq after
      /\ \A q \in ranges : q.oldest <= q.newest =>
           q \in after \/ \E p \in kept : p.newest = q.newest
  <2>1. RangesInv(kept, received)
    BY <1>3
  <2>2. /\ RangesInv(Insert(kept, ranges), received) /\ kept \subseteq Insert(kept, ranges)
        /\ \A q \in ranges : q.oldest <= q.newest =>
             q \in Insert(kept, ranges) \/ \E p \in kept : p.newest = q.newest
    BY <1>4, <2>1, InsertInv
  <2>3. QED
    BY <1>5, <2>2
<1>9. left.oldest <= left.newest => left \in after
  BY <1>1, <1>2, <1>3, <1>6, <1>8 DEF ranges
<1>10. ListOK(newest, after, received, first)
  BY <1>1, <1>8 DEF ListOK, NewestInv
<1>11. latest \in Nat /\ latest >= r.oldest /\ latest >= nak
  BY <1>1 DEF None
<1>12. ASSUME KeptInv(set, received, first, nak),
              NEW late \in received, NEW x \in Nat \ received,
              first < x, latest < x, x < late
       PROVE  \E q \in after : InRange(x, q)
  <2>1. nak < x /\ x > r.oldest
    BY <1>1, <1>11, <1>12 DEF None
  <2>2. PICK q \in set : InRange(x, q)
    BY <2>1, <1>12 DEF KeptInv
  <2>3. CASE q \in kept
    BY <2>2, <2>3, <1>8
  <2>4. CASE q.newest <= r.newest
    <3>1. InRange(x, left) /\ left.oldest <= left.newest
      BY <2>1, <2>2, <2>4, <1>1, <1>2 DEF InRange
    <3>2. QED
      BY <3>1, <1>9
  <2>5. QED
    BY <2>3, <2>4, <1>7
<1>13. QED
  BY <1>10, <1>11, <1>12 DEF KeptInv

Older(r) == [r EXCEPT !.age = IF @ < MaxAge THEN @ + 1 ELSE @]
AllOlder(set) == {Older(r) : r \in set}

\* Time changes no range but its age.
LEMMA TimeKeeps ==
  ASSUME NEW newest, NEW set, NEW received, NEW first, ListOK(newest, set, received, first),
         NEW after, after = AllOlder(set)
  PROVE  /\ ListOK(newest, after, received, first)
         /\ \A nak \in Nat \cup {None} :
              KeptInv(set, received, first, nak) => KeptInv(after, received, first, nak)
         /\ NestedInv(set, received, first) => NestedInv(after, received, first)
<1>1. ASSUME NEW r \in set
      PROVE  Older(r) \in LostRanges /\ Older(r).oldest = r.oldest /\ Older(r).newest = r.newest
  <2>1. r \in LostRanges
    BY DEF ListOK, RangesInv
  <2> DEFINE age == IF r.age < MaxAge THEN r.age + 1 ELSE r.age
  <2>2. age \in 0 .. MaxAge
    BY <2>1, FeedbackAssumption DEF LostRanges
  <2>3. Older(r) = [r EXCEPT !.age = age]
    BY <2>1 DEF Older, LostRanges
  <2> HIDE DEF age
  <2>4. QED
    BY <2>1, <2>2, <2>3 DEF LostRanges
<1>2. RangesInv(after, received)
  <2>1. after \subseteq LostRanges
    BY <1>1 DEF AllOlder
  <2>2. \A r \in after : 1 <= r.oldest /\ r.oldest <= r.newest /\ r.newest + 1 \in received
    BY <1>1 DEF ListOK, RangesInv, AllOlder
  <2>3. \A r, q \in after : r.newest = q.newest => r = q
    BY <1>1 DEF ListOK, RangesInv, AllOlder
  <2>4. QED
    BY <2>1, <2>2, <2>3 DEF RangesInv
<1>3. ListOK(newest, after, received, first)
  BY <1>2 DEF ListOK, NewestInv, AllOlder
<1>4. \A r \in set : \A x : InRange(x, r) => InRange(x, Older(r))
  BY <1>1 DEF InRange
<1>5. ASSUME NEW nak \in Nat \cup {None}, KeptInv(set, received, first, nak)
      PROVE  KeptInv(after, received, first, nak)
  BY <1>4, <1>5 DEF KeptInv, AllOlder
<1>6. ASSUME NestedInv(set, received, first)
      PROVE  NestedInv(after, received, first)
  BY <1>1, <1>4, <1>6 DEF NestedInv, AllOlder
<1>7. QED
  BY <1>3, <1>5, <1>6

-----------------------------------------------------------------------------
(* The steps *)

\* A wrapped number is one, whatever it was wrapped from.
LEMMA WrapIsWrapped ==
  ASSUME NEW sn \in Int
  PROVE  Wrap(sn) \in Wrapped
  BY SeqNumAssumption DEF Wrap, Wrapped

\* The receiver guesses the number of each packet that was sent.
LEMMA GuessIsExact ==
  ASSUME NumbersClose, SenderInv, ListInv, receiver \in Receivers, NEW sn \in history.sent,
         unnumbered \in 0 .. MaxUnnumbered
  PROVE  sn \in Nat /\ GuessFromExpected(receiver.newest + 1, sn) = sn
<1> DEFINE expected == receiver.newest + 1
<1>1. /\ sender.next \in InitialSn .. InitialSn + MaxSends
      /\ history.sent = InitialSn .. sender.next - 1
      /\ InitialSn \in Nat /\ MaxSends \in Nat /\ InitialSn + MaxSends <= Mask
      /\ MaxUnnumbered \in Nat /\ Mask \in Nat /\ Mask \div 2 \in Nat
      /\ MaxSends <= Mask \div 2
      /\ receiver.newest \in Nat \cup {None}
  BY FeedbackAssumption, SeqNumAssumption DEF SenderInv, Senders, NumbersClose, Receivers
<1>2. sn \in Wrapped /\ sn \in 0 .. Mask - 1 /\ sn \in InitialSn .. InitialSn + MaxSends - 1
  BY <1>1 DEF Wrapped
<1>3. \/ expected = 0
      \/ /\ expected \in Wrapped /\ expected - sn <= Mask \div 2
         /\ sn - expected < Mask \div 2
  <2>1. CASE receiver.newest = None
    BY <2>1 DEF None
  <2>2. CASE receiver.newest \in history.received
    <3>1. receiver.newest \in InitialSn .. InitialSn + MaxSends - 1
      BY <1>1, <2>2 DEF ListInv
    <3>2. QED
      BY <1>1, <1>2, <3>1 DEF Wrapped
  <2>3. CASE history.received = {} /\ receiver.newest = 0
    <3>1. InitialSn + MaxSends < Mask \div 2
      BY <1>1, <2>3 DEF ListInv, NumbersClose
    <3>2. QED
      BY <1>1, <1>2, <2>3, <3>1 DEF Wrapped
  <2>4. QED
    BY <2>1, <2>2, <2>3 DEF ListInv, NewestInv
<1> HIDE DEF expected
<1>4. GuessFromExpected(expected, sn) = sn
  BY <1>2, <1>3, GuessFromNothing, GuessFromExpectedIsExact
<1>5. QED
  BY <1>2, <1>4 DEF expected, Wrapped

\* A packet without a number counts as 0.
LEMMA GuessIsZero ==
  ASSUME NumbersClose, SenderInv, ListInv, receiver \in Receivers, MaxUnnumbered > 0
  PROVE  GuessFromExpected(receiver.newest + 1, 0) = 0
<1> DEFINE expected == receiver.newest + 1
<1>1. /\ sender.next \in InitialSn .. InitialSn + MaxSends
      /\ history.sent = InitialSn .. sender.next - 1
      /\ InitialSn \in Nat /\ MaxSends \in Nat /\ InitialSn + MaxSends <= Mask
      /\ Mask \in Nat \ {0} /\ Mask \div 2 \in Nat
      /\ InitialSn + MaxSends < Mask \div 2
      /\ receiver.newest \in Nat \cup {None}
  BY FeedbackAssumption, SeqNumAssumption DEF SenderInv, Senders, NumbersClose, Receivers
<1>2. 0 \in Wrapped /\ 0 \in 0 .. Mask - 1
  BY <1>1 DEF Wrapped
<1>3. \/ expected = 0
      \/ expected \in Wrapped /\ expected - 0 <= Mask \div 2 /\ 0 - expected < Mask \div 2
  <2>1. CASE receiver.newest = None
    BY <2>1 DEF None
  <2>2. CASE receiver.newest \in history.received
    <3>1. receiver.newest \in InitialSn .. InitialSn + MaxSends - 1
      BY <1>1, <2>2 DEF ListInv
    <3>2. QED
      BY <1>1, <3>1 DEF Wrapped
  <2>3. CASE receiver.newest = 0
    BY <1>1, <2>3 DEF Wrapped
  <2>4. QED
    BY <2>1, <2>2, <2>3 DEF ListInv, NewestInv
<1> HIDE DEF expected
<1>4. GuessFromExpected(expected, 0) = 0
  BY <1>2, <1>3, GuessFromNothing, GuessFromExpectedIsExact
<1>5. QED
  BY <1>4 DEF expected

\* Nothing was sent and the loss list is empty.
LEMMA InitInv == Init => FeedbackInv
<1> SUFFICES ASSUME Init PROVE FeedbackInv
  OBVIOUS
<1> USE FeedbackAssumption, SeqNumAssumption DEF Init
<1>1. SenderInv
  BY DEF SenderInv, Senders, Histories, Numbers, None, Wrapped
<1>2. PacketInv
  BY DEF PacketInv
<1>3. AckInv
  BY DEF AckInv, Receivers, Numbers, None
<1>4. ListInv
  BY DEF ListInv, RangesInv, NewestInv, KeptInv, NestedInv, None
<1>5. QED
  BY <1>1, <1>2, <1>3, <1>4 DEF FeedbackInv

\* How many packets were sent.
LEMMA HowMany ==
  ASSUME NEW a \in Nat, NEW b \in Nat, a <= b
  PROVE  Cardinality(a .. b - 1) = b - a
<1> DEFINE c == b - 1
<1>1. c \in Int /\ a \in Int
  OBVIOUS
<1>2. Cardinality(a .. c) = IF a > c THEN 0 ELSE c - a + 1
  <2> HIDE DEF c
  <2>1. QED
    BY <1>1, FS_Interval
<1>3. QED
  BY <1>2

\* The sender sends n packets, whose numbers are the next ones.
LEMMA SendKeeps ==
  ASSUME FeedbackInv, NEW n \in {1, 2}, Cardinality(history.sent) + n <= MaxSends,
         NEW m \in {sender.next, sender.next + n}, NEW packets,
         sender' = [OnDataSent(m) EXCEPT !.next = sender.next + n],
         history' = [history EXCEPT !.sent = @ \cup (sender.next .. sender.next + n - 1)],
         net' = net \cup packets,
         \A p \in packets : p.to = "receiver" /\ p.sn \in sender.next .. sender.next + n - 1,
         \A p, q \in packets : p.sn = q.sn => p = q,
         UNCHANGED <<receiver, unnumbered, duplicates>>
  PROVE  FeedbackInv'
<1>1. /\ sender.next \in Nat /\ sender.next \in InitialSn .. InitialSn + MaxSends
      /\ InitialSn \in Nat /\ MaxSends \in Nat /\ InitialSn + MaxSends <= Mask /\ Mask \in Nat
      /\ history.sent = InitialSn .. sender.next - 1
      /\ history.received \subseteq history.sent
  BY FeedbackAssumption, SeqNumAssumption DEF FeedbackInv, SenderInv, Senders, ListInv
<1>2. sender.next + n <= InitialSn + MaxSends
  <2>1. Cardinality(history.sent) = sender.next - InitialSn
    BY <1>1, HowMany
  <2>2. QED
    BY <2>1, <1>1
<1>3. history'.sent = InitialSn .. sender.next + n - 1
  BY <1>1 DEF FeedbackInv, SenderInv, Histories
<1>4. /\ history'.received = history.received /\ history'.first = history.first
      /\ history'.nak = history.nak /\ history.sent \subseteq history'.sent
      /\ history' \in Histories
  <2>1. history'.sent \in SUBSET Wrapped
    BY <1>1, <1>2, <1>3 DEF Wrapped
  <2>2. history \in Histories /\ history' = [history EXCEPT !.sent = history'.sent]
    BY <1>3 DEF FeedbackInv, SenderInv, Histories
  <2>3. QED
    BY <2>1, <2>2 DEF Histories
<1>5. SenderInv'
  <2> DEFINE next == sender.next + n
             sent == Wrap(m)
             ack  == IF sender.newestSent = None THEN Wrap(m - 1) ELSE sender.newestSeenAck
  <2>1. sender' = [next |-> next, newestSent |-> sent, newestSeenAck |-> ack]
    BY DEF OnDataSent
  <2>2. sent \in Wrapped /\ Wrap(m - 1) \in Wrapped
    BY <1>1, WrapIsWrapped
  <2>3. InitialSn > 0 => Wrap(m - 1) \in InitialSn - 1 .. next - 1
    <3>1. InitialSn > 0 => m - 1 \in Wrapped
      BY <1>1, <1>2 DEF Wrapped
    <3>2. QED
      BY <3>1, <1>1, WrapIsIdentity
  <2>4. /\ sender \in Senders
        /\ sender.newestSent # None => sender.newestSeenAck # None
        /\ InitialSn > 0 /\ sender.newestSeenAck # None
             => sender.newestSeenAck \in InitialSn - 1 .. sender.next - 1
    BY DEF FeedbackInv, SenderInv
  <2>5. ack \in Wrapped
    BY <2>2, <2>4 DEF Senders, Numbers
  <2>6. InitialSn > 0 => ack \in InitialSn - 1 .. next - 1
    BY <2>3, <2>4, <1>1
  <2>7. next \in InitialSn .. InitialSn + MaxSends /\ history'.sent = InitialSn .. next - 1
    BY <1>1, <1>2, <1>3
  <2> HIDE DEF next, sent, ack
  <2>8. sender' \in Senders
    <3>1. [next |-> next, newestSent |-> sent, newestSeenAck |-> ack] \in Senders
      BY <2>2, <2>5, <2>7 DEF Senders, Numbers
    <3>2. QED
      BY <2>1, <3>1, Zenon
  <2>9. sender'.next = next /\ sender'.newestSeenAck = ack
    BY <2>1
  <2>10. None \notin Wrapped
    BY DEF Wrapped, None
  <2>11. QED
    BY <2>5, <2>6, <2>7, <2>8, <2>9, <2>10, <1>4 DEF SenderInv
<1>6. PacketInv'
  <2>1. PacketInv
    BY DEF FeedbackInv
  <2>2. ASSUME NEW p \in net'
        PROVE  \/ p.to = "sender" /\ p.ack \in history'.received
               \/ /\ p.to = "receiver" /\ p.sn \in history'.sent \cup {None}
                  /\ p.sn = None => unnumbered' > 0
    <3>1. CASE p \in net
      BY <2>1, <3>1, <1>4 DEF PacketInv
    <3>2. CASE p \in packets
      BY <3>2, <1>1, <1>3 DEF None
    <3>3. QED
      BY <3>1, <3>2
  <2>3. ASSUME NEW p \in net', NEW q \in net',
               p.to = "receiver", q.to = "receiver", p.sn = q.sn, p.sn # None
        PROVE  p = q
    <3>1. \A x \in net : x.to = "receiver" /\ x.sn # None => x.sn \in history.sent
      BY <2>1 DEF PacketInv
    <3>2. \A x \in packets : x.sn \notin history.sent
      BY <1>1
    <3>3. CASE p \in net /\ q \in net
      BY <3>3, <2>3, <2>1 DEF PacketInv
    <3>4. CASE p \in packets /\ q \in packets
      BY <3>4, <2>3
    <3>5. QED
      BY <3>1, <3>2, <3>3, <3>4, <2>3
  <2>4. ASSUME duplicates' = 0, NEW p \in net', p.to = "receiver"
        PROVE  p.sn \notin history'.received
    <3>1. CASE p \in net
      BY <2>1, <2>4, <3>1, <1>4 DEF PacketInv
    <3>2. CASE p \in packets
      BY <3>2, <1>1, <1>4
    <3>3. QED
      BY <3>1, <3>2
  <2>5. unnumbered' \in 0 .. MaxUnnumbered /\ duplicates' \in Nat
    BY <2>1 DEF PacketInv
  <2>6. QED
    BY <2>2, <2>3, <2>4, <2>5 DEF PacketInv
<1>7. AckInv' /\ ListInv'
  BY <1>4 DEF FeedbackInv, AckInv, ListInv
<1>8. QED
  BY <1>5, <1>6, <1>7 DEF FeedbackInv

\* One packet.
LEMMA SendPacketKeeps == FeedbackInv /\ SendPacket => FeedbackInv'
<1> SUFFICES ASSUME FeedbackInv, SendPacket PROVE FeedbackInv'
  OBVIOUS
<1> DEFINE packets == {Packet(sender.next, 0)}
<1>1. sender.next \in Nat /\ Cardinality(history.sent) \in Nat
  <2>1. /\ sender.next \in Nat /\ history.sent = InitialSn .. sender.next - 1
        /\ InitialSn \in Nat /\ InitialSn <= sender.next
    BY FeedbackAssumption DEF FeedbackInv, SenderInv, Senders
  <2>2. Cardinality(history.sent) = sender.next - InitialSn
    BY <2>1, HowMany
  <2>3. QED
    BY <2>1, <2>2
<1>2. sender' = [OnDataSent(sender.next) EXCEPT !.next = sender.next + 1]
  BY DEF SendPacket, OnDataSent
<1>3. Cardinality(history.sent) + 1 <= MaxSends
  BY <1>1, FeedbackAssumption DEF SendPacket
<1>4. history' = [history EXCEPT !.sent = @ \cup (sender.next .. sender.next + 1 - 1)]
  <2>1. sender.next .. sender.next + 1 - 1 = {sender.next}
    BY <1>1
  <2>2. QED
    BY <2>1 DEF SendPacket
<1>5. /\ net' = net \cup packets
      /\ \A p \in packets : p.to = "receiver" /\ p.sn \in sender.next .. sender.next + 1 - 1
      /\ \A p, q \in packets : p.sn = q.sn => p = q
      /\ UNCHANGED <<receiver, unnumbered, duplicates>>
  BY <1>1 DEF SendPacket, Packet
<1> HIDE DEF packets
<1>6. QED
  BY <1>2, <1>3, <1>4, <1>5, SendKeeps

\* Two packets, or one if there is nothing for the second.
LEMMA SendPairKeeps ==
  ASSUME FeedbackInv, NEW fillers, SendPair(fillers), NEW n \in {1, 2}, Len(fillers) = n
  PROVE  FeedbackInv'
<1> DEFINE packets == {Packet(sender.next + i - 1, fillers[i]) : i \in 1 .. n}
<1>1. sender.next \in Nat
  BY FeedbackAssumption DEF FeedbackInv, SenderInv, Senders
<1>2. sender' = OnDataSent(sender.next + n) /\ sender'.next = sender.next + n
  BY DEF SendPair, OnDataSent
<1>3. sender' = [OnDataSent(sender.next + n) EXCEPT !.next = sender.next + n]
  BY <1>2 DEF OnDataSent
<1>4. history' = [history EXCEPT !.sent = @ \cup (sender.next .. sender.next + n - 1)]
  <2>1. history' = [history EXCEPT !.sent = @ \cup (sender.next .. sender'.next - 1)]
    BY DEF SendPair
  <2> DEFINE next == sender.next + n
  <2>2. sender'.next = next
    BY <1>2
  <2> DEFINE last == sender.next + n - 1
  <2>3. next - 1 = last
    BY <1>1
  <2> HIDE DEF next, last
  <2>4. history' = [history EXCEPT !.sent = @ \cup (sender.next .. last)]
    BY <2>1, <2>2, <2>3
  <2>5. QED
    BY <2>4, Zenon DEF last
<1>5. /\ net' = net \cup packets /\ Cardinality(history.sent) + n <= MaxSends
      /\ UNCHANGED <<receiver, unnumbered, duplicates>>
  BY DEF SendPair
<1>6. /\ \A p \in packets : p.to = "receiver" /\ p.sn \in sender.next .. sender.next + n - 1
      /\ \A p, q \in packets : p.sn = q.sn => p = q
  BY <1>1 DEF Packet
<1> HIDE DEF packets
<1>7. QED
  BY <1>3, <1>4, <1>5, <1>6, SendKeeps

\* The sender sends a control message.
LEMMA SendUnnumberedKeeps == FeedbackInv /\ SendUnnumbered => FeedbackInv'
<1> SUFFICES ASSUME FeedbackInv, SendUnnumbered PROVE FeedbackInv'
  OBVIOUS
<1> DEFINE next == sender.next
           sent == Wrap(next)
           ack  == IF sender.newestSent = None THEN Wrap(next - 1) ELSE sender.newestSeenAck
<1>1. /\ next \in Nat /\ next \in InitialSn .. InitialSn + MaxSends
      /\ InitialSn \in Nat /\ MaxSends \in Nat /\ InitialSn + MaxSends <= Mask /\ Mask \in Nat
      /\ MaxUnnumbered \in Nat
      /\ history.sent = InitialSn .. next - 1
  BY FeedbackAssumption, SeqNumAssumption DEF FeedbackInv, SenderInv, Senders
<1>2. UNCHANGED <<receiver, history, duplicates>> /\ net' = net \cup {Packet(None, 0)}
  BY DEF SendUnnumbered
<1>3. unnumbered \in 0 .. MaxUnnumbered /\ unnumbered' \in 1 .. MaxUnnumbered
  BY <1>1 DEF SendUnnumbered, FeedbackInv, PacketInv
<1>4. SenderInv'
  <2>1. sender' = [next |-> next, newestSent |-> sent, newestSeenAck |-> ack]
    BY DEF SendUnnumbered, OnDataSent
  <2>2. sent \in Wrapped /\ Wrap(next - 1) \in Wrapped
    BY <1>1, WrapIsWrapped
  <2>3. InitialSn > 0 => Wrap(next - 1) \in InitialSn - 1 .. next - 1
    <3>1. InitialSn > 0 => next - 1 \in Wrapped
      BY <1>1 DEF Wrapped
    <3>2. QED
      BY <3>1, <1>1, WrapIsIdentity
  <2>4. /\ sender \in Senders /\ history \in Histories
        /\ sender.newestSent # None => sender.newestSeenAck # None
        /\ InitialSn > 0 /\ sender.newestSeenAck # None
             => sender.newestSeenAck \in InitialSn - 1 .. next - 1
    BY DEF FeedbackInv, SenderInv
  <2>5. ack \in Wrapped
    BY <2>2, <2>4 DEF Senders, Numbers
  <2>6. InitialSn > 0 => ack \in InitialSn - 1 .. next - 1
    BY <2>3, <2>4, <1>1
  <2> HIDE DEF next, sent, ack
  <2>7. sender' \in Senders
    <3>1. [next |-> next, newestSent |-> sent, newestSeenAck |-> ack] \in Senders
      BY <2>2, <2>5, <1>1 DEF Senders, Numbers
    <3>2. QED
      BY <2>1, <3>1, Zenon
  <2>8. sender'.next = next /\ sender'.newestSeenAck = ack
    BY <2>1
  <2>9. None \notin Wrapped
    BY DEF Wrapped, None
  <2>10. QED
    BY <2>4, <2>5, <2>6, <2>7, <2>8, <2>9, <1>1, <1>2 DEF SenderInv
<1>5. PacketInv'
  <2>1. PacketInv
    BY DEF FeedbackInv
  <2>2. ASSUME NEW p \in net'
        PROVE  \/ p.to = "sender" /\ p.ack \in history'.received
               \/ /\ p.to = "receiver" /\ p.sn \in history'.sent \cup {None}
                  /\ p.sn = None => unnumbered' > 0
    <3>1. CASE p \in net
      BY <2>1, <3>1, <1>2, <1>3 DEF PacketInv
    <3>2. CASE p = Packet(None, 0)
      BY <3>2, <1>3 DEF Packet
    <3>3. QED
      BY <3>1, <3>2, <1>2
  <2>3. \A p \in net' : p.sn # None => p \in net
    BY <1>2 DEF Packet
  <2>4. \A p, q \in net' :
          p.to = "receiver" /\ q.to = "receiver" /\ p.sn = q.sn /\ p.sn # None => p = q
    BY <2>1, <2>3 DEF PacketInv
  <2>5. None \notin history.received
    BY DEF FeedbackInv, SenderInv, Histories, Wrapped, None
  <2>6. duplicates' = 0 => \A p \in net' : p.to = "receiver" => p.sn \notin history'.received
    BY <2>1, <2>3, <2>5, <1>2 DEF PacketInv
  <2>7. unnumbered' \in 0 .. MaxUnnumbered /\ duplicates' \in Nat
    BY <1>1, <1>2, <1>3, <2>1 DEF PacketInv
  <2>8. QED
    BY <2>2, <2>4, <2>6, <2>7 DEF PacketInv
<1>6. AckInv'
  BY <1>2 DEF FeedbackInv, AckInv
<1>7. ListInv'
  BY <1>2, <1>3 DEF FeedbackInv, ListInv
<1>8. QED
  BY <1>4, <1>5, <1>6, <1>7 DEF FeedbackInv

\* The part of the invariant that the lemmas on the loss list are about.
LEMMA ListIsOK ==
  ASSUME FeedbackInv
  PROVE  /\ ListOK(receiver.newest, receiver.lossSet, history.received, history.first)
         /\ receiver \in Receivers /\ sender \in Senders /\ history \in Histories
         /\ history.received \subseteq Wrapped /\ history.nak \in Nat \cup {None}
BY DEF FeedbackInv, ListInv, ListOK, AckInv, SenderInv, Receivers, Histories, Wrapped

\* The NAK timer: nothing is forgotten that there was no NAK for.
LEMMA NakTimeoutKeeps == FeedbackInv /\ NakTimeout => FeedbackInv'
<1> SUFFICES ASSUME FeedbackInv, NakTimeout PROVE FeedbackInv'
  OBVIOUS
<1> DEFINE r      == Chosen(receiver.lossSet)
           left   == [r EXCEPT !.oldest = @ + 1, !.age = 0, !.feedbacks = @ + 1]
           after  == Insert(ForgetUpTo(receiver.lossSet, r), {left})
           latest == IF r.oldest > history.nak THEN r.oldest ELSE history.nak
<1>1. /\ ListOK(receiver.newest, receiver.lossSet, history.received, history.first)
      /\ receiver \in Receivers /\ history \in Histories /\ history.received \subseteq Wrapped
      /\ history.nak \in Nat \cup {None}
  BY ListIsOK
<1>2. /\ receiver' = [receiver EXCEPT !.enqueuedNak = Wrap(r.oldest), !.lossSet = after]
      /\ history' = [history EXCEPT !.nak = latest]
      /\ UNCHANGED <<sender, net, unnumbered, duplicates>>
      /\ Eligible(receiver.lossSet) # {}
  BY <1>1 DEF NakTimeout, Receivers, Histories
<1>3. r \in receiver.lossSet /\ r.oldest \in Nat
  <2>1. Mask \in Nat /\ \A q \in receiver.lossSet : q.newest <= Mask
    BY <1>1, SeqNumAssumption DEF ListOK, RangesInv, LostRanges, Wrapped
  <2>2. receiver.lossSet \subseteq LostRanges
    BY <1>1 DEF ListOK, RangesInv
  <2>3. r \in receiver.lossSet
    BY <1>2, <2>1, <2>2, LastEligible
  <2>4. QED
    BY <2>2, <2>3 DEF LostRanges
<1> HIDE DEF r
<1>4. /\ ListOK(receiver.newest, after, history.received, history.first)
      /\ latest \in Nat
      /\ KeptInv(receiver.lossSet, history.received, history.first, history.nak)
           => KeptInv(after, history.received, history.first, latest)
  <2>1. /\ left = [r EXCEPT !.oldest = @ + 1, !.age = 0, !.feedbacks = @ + 1]
        /\ latest = IF r.oldest > history.nak THEN r.oldest ELSE history.nak
        /\ after = Insert(ForgetUpTo(receiver.lossSet, r), {left})
    OBVIOUS
  <2> HIDE DEF left, latest, after
  <2>2. QED
    BY <1>1, <1>3, <2>1, NakKeeps
<1> HIDE DEF after, latest
<1>5. /\ receiver' \in Receivers
      /\ receiver'.newest = receiver.newest /\ receiver'.lossSet = after
      /\ receiver'.newestSeen = receiver.newestSeen
      /\ receiver'.newestSentAck = receiver.newestSentAck
  <2>1. after \in SUBSET LostRanges
    BY <1>4 DEF ListOK, RangesInv
  <2>2. Wrap(r.oldest) \in Numbers
    BY <1>3, WrapIsWrapped DEF Numbers
  <2> DEFINE nak == Wrap(r.oldest)
             one == [receiver EXCEPT !.enqueuedNak = nak]
  <2>3. /\ one \in Receivers /\ one.newest = receiver.newest
        /\ one.newestSeen = receiver.newestSeen /\ one.newestSentAck = receiver.newestSentAck
    BY <1>1, <2>2 DEF Receivers
  <2>4. receiver' = [one EXCEPT !.lossSet = after]
    BY <1>2
  <2> HIDE DEF one
  <2>5. QED
    BY <2>1, <2>3, <2>4 DEF Receivers
<1>6. /\ history' \in Histories /\ history'.sent = history.sent
      /\ history'.received = history.received /\ history'.first = history.first
      /\ history'.nak = latest
  BY <1>1, <1>2, <1>4 DEF Histories
<1>7. SenderInv' /\ PacketInv' /\ AckInv'
  BY <1>2, <1>5, <1>6 DEF FeedbackInv, SenderInv, PacketInv, AckInv
<1>8. latest # None
  BY <1>4 DEF None
<1>9. ListInv'
  BY <1>2, <1>4, <1>5, <1>6, <1>8 DEF FeedbackInv, ListInv, ListOK
<1>10. QED
  BY <1>7, <1>9 DEF FeedbackInv

\* An RTO goes by.
LEMMA TimeStepKeeps == FeedbackInv /\ Time => FeedbackInv'
<1> SUFFICES ASSUME FeedbackInv, Time PROVE FeedbackInv'
  OBVIOUS
<1> DEFINE after == AllOlder(receiver.lossSet)
<1>1. /\ ListOK(receiver.newest, receiver.lossSet, history.received, history.first)
      /\ receiver \in Receivers /\ history.nak \in Nat \cup {None}
  BY ListIsOK
<1>2. receiver' = [receiver EXCEPT !.lossSet = after]
  BY DEF Time, Older, AllOlder
<1>3. UNCHANGED <<sender, net, history, unnumbered, duplicates>>
  BY DEF Time
<1>4. /\ ListOK(receiver.newest, after, history.received, history.first)
      /\ KeptInv(receiver.lossSet, history.received, history.first, history.nak)
           => KeptInv(after, history.received, history.first, history.nak)
      /\ NestedInv(receiver.lossSet, history.received, history.first)
           => NestedInv(after, history.received, history.first)
  <2>1. after = AllOlder(receiver.lossSet)
    OBVIOUS
  <2> HIDE DEF after
  <2>2. /\ ListOK(receiver.newest, after, history.received, history.first)
        /\ \A nak \in Nat \cup {None} :
             KeptInv(receiver.lossSet, history.received, history.first, nak)
               => KeptInv(after, history.received, history.first, nak)
        /\ NestedInv(receiver.lossSet, history.received, history.first)
             => NestedInv(after, history.received, history.first)
    BY <1>1, <2>1, TimeKeeps
  <2>3. QED
    BY <1>1, <2>2, Zenon
<1> HIDE DEF after
<1>5. /\ receiver' \in Receivers
      /\ receiver'.newest = receiver.newest /\ receiver'.lossSet = after
      /\ receiver'.newestSeen = receiver.newestSeen
      /\ receiver'.newestSentAck = receiver.newestSentAck
  <2>1. after \in SUBSET LostRanges
    BY <1>4 DEF ListOK, RangesInv
  <2>2. QED
    BY <1>1, <1>2, <2>1 DEF Receivers
<1>6. SenderInv' /\ PacketInv' /\ AckInv'
  BY <1>3, <1>5 DEF FeedbackInv, SenderInv, PacketInv, AckInv
<1>7. ListInv'
  BY <1>3, <1>4, <1>5 DEF FeedbackInv, ListInv, ListOK
<1>8. QED
  BY <1>6, <1>7 DEF FeedbackInv

\* The other host may acknowledge.
LEMMA TickKeeps == FeedbackInv /\ Tick => FeedbackInv'
<1> SUFFICES ASSUME FeedbackInv, Tick PROVE FeedbackInv'
  OBVIOUS
<1>1. UNCHANGED <<sender, net, history, unnumbered, duplicates>>
  BY DEF Tick
<1>2. receiver \in Receivers /\ receiver' = [receiver EXCEPT !.enqueuePacketAck = TRUE]
  BY DEF Tick, FeedbackInv, AckInv
<1>3. /\ receiver' \in Receivers
      /\ receiver'.newest = receiver.newest /\ receiver'.lossSet = receiver.lossSet
      /\ receiver'.newestSeen = receiver.newestSeen
      /\ receiver'.newestSentAck = receiver.newestSentAck
  BY <1>2 DEF Receivers
<1>4. SenderInv' /\ PacketInv' /\ AckInv' /\ ListInv'
  BY <1>1, <1>3 DEF FeedbackInv, SenderInv, PacketInv, AckInv, ListInv
<1>5. QED
  BY <1>4 DEF FeedbackInv

\* Only a number that arrived is acknowledged.
LEMMA SendFeedbackKeeps == FeedbackInv /\ SendFeedback => FeedbackInv'
<1> SUFFICES ASSUME FeedbackInv, SendFeedback PROVE FeedbackInv'
  OBVIOUS
<1>1. UNCHANGED <<sender, history, unnumbered, duplicates>>
  BY DEF SendFeedback
<1>2. /\ receiver \in Receivers
      /\ receiver.newestSeen \in history.received \cup {None}
      /\ receiver.newestSentAck \in history.received \cup {None}
      /\ receiver.newestSeen = None => receiver.newestSentAck = None
      /\ receiver.newestSeen \in Numbers /\ receiver.newestSentAck \in Numbers
  BY DEF FeedbackInv, AckInv, Receivers
<1>3. PICK acked \in {receiver.newestSeen, receiver.newestSentAck} :
        receiver' = [receiver EXCEPT !.enqueuePacketAck = FALSE, !.newestSentAck = acked]
  BY DEF SendFeedback
<1>4. /\ receiver' \in Receivers
      /\ receiver'.newest = receiver.newest /\ receiver'.lossSet = receiver.lossSet
      /\ receiver'.newestSeen = receiver.newestSeen
      /\ receiver'.newestSentAck = acked
  <2> DEFINE one == [receiver EXCEPT !.enqueuePacketAck = FALSE]
  <2>1. /\ one \in Receivers
        /\ one.newest = receiver.newest /\ one.lossSet = receiver.lossSet
        /\ one.newestSeen = receiver.newestSeen
    BY <1>2 DEF Receivers
  <2>2. receiver' = [one EXCEPT !.newestSentAck = acked]
    BY <1>3
  <2>3. acked \in Numbers
    BY <1>2
  <2> HIDE DEF one
  <2>4. QED
    BY <2>1, <2>2, <2>3 DEF Receivers
<1>5. AckInv'
  <2>1. acked \in history.received \cup {None} /\ (receiver.newestSeen = None => acked = None)
    BY <1>2
  <2>2. QED
    BY <2>1, <1>1, <1>2, <1>4 DEF AckInv
<1>6. PacketInv'
  <2>1. PacketInv
    BY DEF FeedbackInv
  <2>2. CASE net' = net
    BY <2>1, <2>2, <1>1 DEF PacketInv
  <2>3. CASE /\ net' = net \cup {[to |-> "sender", ack |-> receiver.newestSeen]}
             /\ receiver.newestSeen # receiver.newestSentAck
    <3> DEFINE packet == [to |-> "sender", ack |-> receiver.newestSeen]
    <3>1. receiver.newestSeen \in history.received
      BY <1>2, <2>3
    <3>2. packet.to = "sender" /\ packet.ack \in history.received /\ packet.to # "receiver"
      BY <3>1
    <3> HIDE DEF packet
    <3>3. net' = net \cup {packet}
      BY <2>3 DEF packet
    <3>4. QED
      BY <2>1, <3>2, <3>3, <1>1 DEF PacketInv
  <2>4. QED
    BY <2>2, <2>3 DEF SendFeedback
<1>7. SenderInv' /\ ListInv'
  BY <1>1, <1>4 DEF FeedbackInv, SenderInv, ListInv
<1>8. QED
  BY <1>5, <1>6, <1>7 DEF FeedbackInv

\* The network delivers a packet once, or counts a duplicate.
LEMMA Delivered ==
  ASSUME NEW p \in net, NEW d \in BOOLEAN, Delivers(p, d), duplicates \in Nat
  PROVE  /\ net' \subseteq net /\ duplicates' \in Nat
         /\ duplicates' = 0 => duplicates = 0 /\ net' = net \ {p}
<1>1. CASE d = TRUE
  <2>1. net' = net /\ duplicates' = duplicates + 1
    BY <1>1, Zenon DEF Delivers
  <2>2. QED
    BY <2>1
<1>2. CASE d = FALSE
  <2>1. net' = net \ {p} /\ duplicates' = duplicates
    BY <1>2, Zenon DEF Delivers
  <2>2. QED
    BY <2>1
<1>3. QED
  BY <1>1, <1>2, Zenon

\* What is on its way after a delivery was so before.
LEMMA DeliveryKeeps ==
  ASSUME PacketInv, NEW p \in net, NEW d \in BOOLEAN, Delivers(p, d),
         UNCHANGED unnumbered, UNCHANGED history
  PROVE  PacketInv'
<1>1. duplicates \in Nat
  BY DEF PacketInv
<1>2. /\ net' \subseteq net /\ duplicates' \in Nat
      /\ duplicates' = 0 => duplicates = 0
  BY <1>1, Delivered
<1>3. QED
  BY <1>2 DEF PacketInv

\* An acknowledgement arrives, however late.
LEMMA GotFeedbackKeeps ==
  ASSUME FeedbackInv, NEW p \in net, NEW d \in BOOLEAN, GotFeedback(p, d)
  PROVE  FeedbackInv'
<1>1. /\ UNCHANGED <<receiver, history, unnumbered>> /\ Delivers(p, d)
      /\ p.to = "sender" /\ sender' = [sender EXCEPT !.newestSeenAck = NewestAck(@, p.ack)]
  BY DEF GotFeedback
<1>2. PacketInv /\ PacketInv'
  BY <1>1, DeliveryKeeps DEF FeedbackInv
<1>3. p.ack \in history.received
  BY <1>1, <1>2 DEF PacketInv
<1> DEFINE ack == NewestAck(sender.newestSeenAck, p.ack)
<1>4. ack \in {sender.newestSeenAck, p.ack} /\ (sender.newestSeenAck = None => ack = p.ack)
  BY DEF NewestAck
<1>5. /\ sender \in Senders /\ history.received \subseteq history.sent
      /\ history.sent \subseteq Wrapped /\ history \in Histories
      /\ history.sent = InitialSn .. sender.next - 1 /\ InitialSn \in Nat
      /\ sender.next \in Nat /\ sender.newestSeenAck \in Numbers
      /\ InitialSn > 0 /\ sender.newestSeenAck # None
           => sender.newestSeenAck \in InitialSn - 1 .. sender.next - 1
  BY FeedbackAssumption DEF FeedbackInv, SenderInv, Senders, ListInv, Histories
<1>6. p.ack \in Wrapped /\ p.ack \in InitialSn .. sender.next - 1 /\ p.ack # None
  BY <1>3, <1>5 DEF Wrapped, None
<1>7. ack \in Numbers /\ ack # None
  BY <1>4, <1>5, <1>6 DEF Numbers
<1>8. InitialSn > 0 => ack \in InitialSn - 1 .. sender.next - 1
  BY <1>4, <1>5, <1>6
<1>9. sender' = [sender EXCEPT !.newestSeenAck = ack]
  BY <1>1
<1> HIDE DEF ack
<1>10. /\ sender' \in Senders /\ sender'.next = sender.next
       /\ sender'.newestSeenAck = ack
  BY <1>5, <1>7, <1>9 DEF Senders
<1>11. SenderInv'
  BY <1>1, <1>5, <1>7, <1>8, <1>10 DEF SenderInv
<1>12. AckInv' /\ ListInv'
  <2>1. duplicates \in Nat /\ (duplicates' = 0 => duplicates = 0)
    BY <1>1, <1>2, Delivered DEF PacketInv
  <2>2. QED
    BY <1>1, <2>1 DEF FeedbackInv, AckInv, ListInv
<1>13. QED
  BY <1>2, <1>11, <1>12 DEF FeedbackInv

\* Feedback is lost.
LEMMA LoseKeeps ==
  ASSUME FeedbackInv, NEW p \in net, Lose(p)
  PROVE  FeedbackInv'
<1>1. net' \subseteq net /\ UNCHANGED <<sender, receiver, history, unnumbered, duplicates>>
  BY DEF Lose
<1>2. PacketInv'
  BY <1>1 DEF FeedbackInv, PacketInv
<1>3. SenderInv' /\ AckInv' /\ ListInv'
  BY <1>1 DEF FeedbackInv, SenderInv, AckInv, ListInv
<1>4. QED
  BY <1>2, <1>3 DEF FeedbackInv

\* A packet without a number arrives.
LEMMA GotUnnumberedKeeps ==
  ASSUME NumbersClose, FeedbackInv, NEW p \in net, NEW d \in BOOLEAN, GotUnnumbered(p, d)
  PROVE  FeedbackInv'
<1>1. /\ UNCHANGED <<sender, history, unnumbered>> /\ Delivers(p, d)
      /\ p.to = "receiver" /\ p.sn = None
  BY DEF GotUnnumbered
<1>2. PacketInv /\ PacketInv'
  BY <1>1, DeliveryKeeps DEF FeedbackInv
<1>3. /\ ListOK(receiver.newest, receiver.lossSet, history.received, history.first)
      /\ receiver \in Receivers
  BY ListIsOK
<1>4. unnumbered > 0 /\ MaxUnnumbered > 0
  <2>1. unnumbered > 0 /\ unnumbered \in 0 .. MaxUnnumbered
    BY <1>1, <1>2 DEF PacketInv
  <2>2. QED
    BY <2>1, FeedbackAssumption
<1>5. GuessFromExpected(receiver.newest + 1, 0) = 0
  BY <1>3, <1>4, GuessIsZero DEF FeedbackInv
<1>6. receiver' = LossListGotPacket(receiver, 0)
  BY DEF GotUnnumbered
<1>7. /\ receiver' \in Receivers
      /\ receiver'.newestSeen = receiver.newestSeen
      /\ receiver'.newestSentAck = receiver.newestSentAck
      /\ ListOK(receiver'.newest, receiver'.lossSet, history.received, history.first)
      /\ receiver'.lossSet = receiver.lossSet
  BY <1>3, <1>5, <1>6, UnnumberedArrives
<1>8. AckInv' /\ SenderInv'
  BY <1>1, <1>7 DEF FeedbackInv, AckInv, SenderInv
<1>9. ListInv'
  <2>1. duplicates' = 0 => duplicates = 0
    BY <1>1, <1>2, Delivered DEF PacketInv
  <2>2. QED
    BY <1>1, <1>4, <1>7, <2>1 DEF FeedbackInv, ListInv, ListOK
<1>10. QED
  BY <1>2, <1>8, <1>9 DEF FeedbackInv

\* A packet arrives whose number is read as it was written.
LEMMA GotPacketKeeps ==
  ASSUME NumbersClose, FeedbackInv, HeadersSurvive,
         NEW p \in net, NEW d \in BOOLEAN, GotPacket(p, d)
  PROVE  FeedbackInv'
<1> DEFINE sn == p.sn
           g  == LossListGotPacket(receiver, sn)
<1>1. /\ UNCHANGED <<sender, unnumbered>> /\ Delivers(p, d)
      /\ p.to = "receiver" /\ sn # None
  BY DEF GotPacket
<1>2. PacketInv
  BY DEF FeedbackInv
<1>3. /\ ListOK(receiver.newest, receiver.lossSet, history.received, history.first)
      /\ receiver \in Receivers /\ history \in Histories /\ history.received \subseteq Wrapped
      /\ history.nak \in Nat \cup {None}
  BY ListIsOK
<1>4. sn \in history.sent /\ sn \in Wrapped /\ sn \in Nat
  BY <1>1, <1>2, <1>3 DEF PacketInv, Histories, Wrapped
<1>5. NumbersRead(p) = {sn}
  BY <1>1, <1>4, WrapIsIdentity DEF NumbersRead, HeadersSurvive
<1>6. receiver' = [g EXCEPT !.newestSeen = NewestSeen(@, sn)]
  BY <1>5 DEF GotPacket
<1>7. history' = [history EXCEPT !.received = @ \cup {sn}, !.first = FirstOf(history.first, sn)]
  BY DEF GotPacket, FirstOf
<1>8. GuessFromExpected(receiver.newest + 1, sn) = sn
  BY <1>2, <1>3, <1>4, GuessIsExact DEF FeedbackInv, PacketInv
<1>9. sn # None
  BY <1>1
<1> HIDE DEF sn
<1>10. /\ g \in Receivers
       /\ g.newestSeen = receiver.newestSeen /\ g.newestSentAck = receiver.newestSentAck
       /\ ListOK(g.newest, g.lossSet, history.received \cup {sn}, FirstOf(history.first, sn))
       /\ Keeps(receiver.lossSet, g.lossSet, history.received, history.first, sn)
  <2>1. g = LossListGotPacket(receiver, sn)
    OBVIOUS
  <2> HIDE DEF g
  <2>2. QED
    BY <1>3, <1>4, <1>8, <2>1, NumberedArrives
<1> HIDE DEF g
<1> DEFINE seen == NewestSeen(g.newestSeen, sn)
<1>11. seen \in {receiver.newestSeen, sn} /\ (seen = None => receiver.newestSeen = None)
  BY <1>9, <1>10 DEF NewestSeen
<1> HIDE DEF seen
<1>12. /\ receiver' \in Receivers
       /\ receiver'.newest = g.newest /\ receiver'.lossSet = g.lossSet
       /\ receiver'.newestSeen = seen /\ receiver'.newestSentAck = receiver.newestSentAck
  <2>1. seen \in Numbers
    BY <1>3, <1>4, <1>11 DEF Receivers, Numbers
  <2>2. receiver' = [g EXCEPT !.newestSeen = seen]
    BY <1>6 DEF seen
  <2>3. QED
    BY <1>10, <2>1, <2>2 DEF Receivers
<1>13. /\ history' \in Histories /\ history'.sent = history.sent
       /\ history'.received = history.received \cup {sn}
       /\ history'.first = FirstOf(history.first, sn) /\ history'.nak = history.nak
  <2> DEFINE received == history.received \cup {sn}
             first == FirstOf(history.first, sn)
             one == [history EXCEPT !.received = received]
  <2>1. received \in SUBSET Wrapped /\ first \in Numbers
    BY <1>3, <1>4 DEF FirstOf, Histories, Numbers
  <2>2. history' = [one EXCEPT !.first = first]
    BY <1>7
  <2> HIDE DEF received, first
  <2>3. /\ one \in Histories /\ one.sent = history.sent /\ one.received = received
        /\ one.nak = history.nak
    BY <1>3, <2>1 DEF Histories
  <2> HIDE DEF one
  <2>4. /\ history' \in Histories /\ history'.sent = history.sent
        /\ history'.received = received /\ history'.first = first /\ history'.nak = history.nak
    BY <2>1, <2>2, <2>3 DEF Histories
  <2>5. QED
    BY <2>4 DEF received, first
<1>14. duplicates \in Nat /\ net' \subseteq net /\ duplicates' \in Nat
       /\ (duplicates' = 0 => duplicates = 0 /\ net' = net \ {p})
  BY <1>1, <1>2, Delivered DEF PacketInv
<1>15. SenderInv'
  BY <1>1, <1>13 DEF FeedbackInv, SenderInv
<1>16. PacketInv'
  <2>1. \A q \in net' :
          \/ q.to = "sender" /\ q.ack \in history'.received
          \/ /\ q.to = "receiver" /\ q.sn \in history'.sent \cup {None}
             /\ q.sn = None => unnumbered' > 0
    BY <1>1, <1>2, <1>13, <1>14 DEF PacketInv
  <2>2. \A q, s \in net' :
          q.to = "receiver" /\ s.to = "receiver" /\ q.sn = s.sn /\ q.sn # None => q = s
    BY <1>2, <1>14 DEF PacketInv
  <2>3. ASSUME duplicates' = 0, NEW q \in net', q.to = "receiver"
        PROVE  q.sn \notin history'.received
    <3>1. q \in net /\ q # p /\ q.sn \notin history.received
      BY <2>3, <1>2, <1>14 DEF PacketInv
    <3>2. q.sn # sn
      BY <2>3, <3>1, <1>1, <1>2, <1>9 DEF PacketInv, sn
    <3>3. QED
      BY <3>1, <3>2, <1>13
  <2>4. unnumbered' \in 0 .. MaxUnnumbered
    BY <1>1, <1>2 DEF PacketInv
  <2>5. QED
    BY <2>1, <2>2, <2>3, <2>4, <1>14 DEF PacketInv
<1>17. AckInv'
  BY <1>11, <1>12, <1>13 DEF FeedbackInv, AckInv
<1>18. duplicates = 0 => sn \notin history.received
  BY <1>1, <1>2 DEF PacketInv, sn
<1>19. ListInv'
  <2>1. history'.received \subseteq history'.sent
    BY <1>4, <1>13 DEF FeedbackInv, ListInv
  <2>2. history'.received # {}
    BY <1>13
  <2>3. ASSUME duplicates' = 0
        PROVE  KeptInv(receiver'.lossSet, history'.received, history'.first, history'.nak)
    <3>1. KeptInv(receiver.lossSet, history.received, history.first, history.nak)
      BY <2>3, <1>14 DEF FeedbackInv, ListInv
    <3>2. sn \notin history.received
      BY <2>3, <1>14, <1>18
    <3>3. KeptInv(g.lossSet, history.received \cup {sn}, FirstOf(history.first, sn), history.nak)
      BY <3>1, <3>2, <1>3, <1>10 DEF Keeps
    <3>4. QED
      BY <3>3, <1>12, <1>13
  <2>4. ASSUME history'.nak = None
        PROVE  NestedInv(receiver'.lossSet, history'.received, history'.first)
    <3>1. NestedInv(receiver.lossSet, history.received, history.first)
      BY <2>4, <1>13 DEF FeedbackInv, ListInv
    <3>2. QED
      BY <3>1, <1>10, <1>12, <1>13 DEF Keeps
  <2>5. ListOK(receiver'.newest, receiver'.lossSet, history'.received, history'.first)
    BY <1>10, <1>12, <1>13
  <2>6. QED
    BY <2>1, <2>2, <2>3, <2>4, <2>5 DEF ListInv, ListOK
<1>20. QED
  BY <1>15, <1>16, <1>17, <1>19 DEF FeedbackInv

\* The invariant is inductive as long as the headers are read as they were written.
LEMMA StepInv ==
  ASSUME NumbersClose, FeedbackInv, HeadersSurvive, [Next]_vars
  PROVE  FeedbackInv'
<1>1. CASE SendPacket
  BY <1>1, SendPacketKeeps
<1>2. CASE SendPair(<<0>>)
  <2>1. Len(<<0>>) = 1
    OBVIOUS
  <2>2. QED
    BY <1>2, <2>1, SendPairKeeps
<1>3. ASSUME NEW f \in Fillers, SendPair(<<f, 0>>) \/ SendPair(<<0, f>>)
      PROVE  FeedbackInv'
  <2>1. Len(<<f, 0>>) = 2 /\ Len(<<0, f>>) = 2
    OBVIOUS
  <2>2. QED
    BY <1>3, <2>1, SendPairKeeps
<1>4. CASE SendUnnumbered
  BY <1>4, SendUnnumberedKeeps
<1>5. CASE NakTimeout \/ Time \/ Tick \/ SendFeedback
  BY <1>5, NakTimeoutKeeps, TimeStepKeeps, TickKeeps, SendFeedbackKeeps
<1>6. ASSUME NEW p \in net, NEW d \in BOOLEAN,
             GotPacket(p, d) \/ GotUnnumbered(p, d) \/ GotFeedback(p, d)
      PROVE  FeedbackInv'
  BY <1>6, GotPacketKeeps, GotUnnumberedKeeps, GotFeedbackKeeps, Zenon
<1>7. ASSUME NEW p \in net, Lose(p)
      PROVE  FeedbackInv'
  BY <1>7, LoseKeeps
<1>8. CASE UNCHANGED vars
  BY <1>8 DEF vars, FeedbackInv, SenderInv, PacketInv, AckInv, ListInv
<1>9. QED
  BY <1>1, <1>2, <1>3, <1>4, <1>5, <1>6, <1>7, <1>8, Zenon DEF Next

-----------------------------------------------------------------------------
(* The properties *)

\* The invariant says what MissingIsListed says.
LEMMA InvSaysListed == FeedbackInv => MissingIsListed
<1> SUFFICES ASSUME FeedbackInv PROVE MissingIsListed
  OBVIOUS
<1>1. /\ sender \in Senders /\ receiver \in Receivers /\ history \in Histories
      /\ history.received \subseteq history.sent
  BY DEF FeedbackInv, SenderInv, AckInv, ListInv
<1>2. TypeOK
  BY <1>1 DEF TypeOK, Senders, Receivers, Histories
<1>3. ASSUME duplicates = 0 \/ history.nak = None,
             NEW late \in history.received, NEW sn \in history.sent, Missing(sn, late)
      PROVE  Listed(sn)
  <2>1. sn \in Nat \ history.received /\ history.first < sn /\ history.nak < sn /\ sn < late
    BY <1>1, <1>3 DEF Missing, Histories, Wrapped
  <2>2. CASE duplicates = 0
    BY <2>1, <2>2 DEF FeedbackInv, ListInv, KeptInv, InRange, Listed
  <2>3. CASE history.nak = None
    BY <2>1, <2>3 DEF FeedbackInv, ListInv, NestedInv, InRange, Listed
  <2>4. QED
    BY <1>3, <2>2, <2>3
<1>4. QED
  BY <1>2, <1>3 DEF MissingIsListed

\* Within half of the number space, an acknowledgement that counts as newer is newer.
LEMMA NewerIsGreater ==
  ASSUME NEW new \in Wrapped, NEW old \in Wrapped, old - new < Mask \div 2,
         CyclicDifferenceSigned(new, old) > 0
  PROVE  new > old
<1>1. Mask \in Nat /\ Mask \div 2 \in Nat /\ 2 * (Mask \div 2) <= Mask
  BY SeqNumAssumption
<1>2. CASE new >= old
  <2>1. new # old
    BY <1>1 DEF CyclicDifferenceSigned, CyclicDifference, Wrapped
  <2>2. QED
    BY <1>2, <2>1 DEF Wrapped
<1>3. CASE new < old
  <2>1. CyclicDifference(new, old) = Mask - old + new
    BY <1>3 DEF CyclicDifference, Wrapped
  <2>2. QED
    BY <1>1, <1>3, <2>1 DEF CyclicDifferenceSigned, Wrapped
<1>4. QED
  BY <1>2, <1>3 DEF Wrapped

\* AcksAreTrue, of one step.
LEMMA StepAcks ==
  ASSUME NumbersClose, InitialSn > 0, FeedbackInv, [Next]_vars,
         sender.newestSent # None, sender'.newestSeenAck # sender.newestSeenAck
  PROVE  /\ sender'.newestSeenAck > sender.newestSeenAck
         /\ sender'.newestSeenAck \in history.received
<1>1. ASSUME NEW m, OnDataSent(m).newestSeenAck # sender.newestSeenAck PROVE FALSE
  BY <1>1 DEF OnDataSent
<1>2. ASSUME SendPacket PROVE FALSE
  <2>1. sender'.newestSeenAck = OnDataSent(sender.next).newestSeenAck
    BY <1>2 DEF SendPacket, OnDataSent
  <2>2. QED
    BY <1>1, <2>1
<1>3. ASSUME NEW fillers, SendPair(fillers) PROVE FALSE
  BY <1>1, <1>3 DEF SendPair
<1>4. ASSUME SendUnnumbered PROVE FALSE
  BY <1>1, <1>4 DEF SendUnnumbered
<1>5. ASSUME UNCHANGED sender PROVE FALSE
  BY <1>5
<1>6. PICK p \in net, d \in BOOLEAN : GotFeedback(p, d)
  BY <1>2, <1>3, <1>4, <1>5, Zenon
  DEF Next, vars, NakTimeout, Time, Tick, SendFeedback, GotPacket, GotUnnumbered, Lose
<1> DEFINE old == sender.newestSeenAck
<1>7. /\ p.ack \in history.received /\ sender'.newestSeenAck = NewestAck(old, p.ack)
  BY <1>6 DEF GotFeedback, FeedbackInv, PacketInv, SenderInv, Senders
<1>8. /\ p.ack \in InitialSn .. sender.next - 1
      /\ old # None /\ old \in InitialSn - 1 .. sender.next - 1
      /\ sender.next \in InitialSn .. InitialSn + MaxSends
      /\ InitialSn \in Nat /\ MaxSends \in Nat /\ InitialSn + MaxSends <= Mask
      /\ MaxSends <= Mask \div 2 /\ Mask \div 2 \in Nat /\ Mask \in Nat
  BY <1>7, FeedbackAssumption, SeqNumAssumption
  DEF FeedbackInv, SenderInv, Senders, ListInv, NumbersClose
<1>9. sender'.newestSeenAck = p.ack /\ CyclicDifferenceSigned(p.ack, old) > 0
  BY <1>7, <1>8 DEF NewestAck
<1>10. /\ p.ack \in Wrapped /\ old \in Wrapped /\ old - p.ack < Mask \div 2
  BY <1>8 DEF Wrapped
<1>11. p.ack > old
  <2> DEFINE new == p.ack
  <2>1. /\ new \in Wrapped /\ old \in Wrapped /\ old - new < Mask \div 2
        /\ CyclicDifferenceSigned(new, old) > 0
    BY <1>9, <1>10
  <2> HIDE DEF old, new
  <2>2. new > old
    BY <2>1, NewerIsGreater
  <2>3. QED
    BY <2>2 DEF new
<1>12. QED
  BY <1>7, <1>9, <1>11

\* With the numbers of the packets close to each other, and as long as no header is
\* misread, the loss list knows what is missing (EmiLossList::gotPacket, calculateNak).
THEOREM MissingStaysListed ==
  NumbersClose => (Spec /\ []HeadersSurvive => []MissingIsListed)
<1> SUFFICES ASSUME NumbersClose PROVE Spec /\ []HeadersSurvive => []MissingIsListed
  OBVIOUS
<1>1. Init => FeedbackInv
  BY InitInv
<1>2. FeedbackInv /\ HeadersSurvive /\ [Next]_vars => FeedbackInv'
  BY StepInv
<1>3. FeedbackInv => MissingIsListed
  BY InvSaysListed
<1>4. QED
  BY <1>1, <1>2, <1>3, PTL DEF Spec

\* Under the same conditions, and unless the first packet has number 0, what counts as
\* acknowledged moves forward, and only to packets that arrived
\* (EmiCongestionControl::gotPacket).
THEOREM OnlyReceivedAcked ==
  NumbersClose /\ InitialSn > 0 => (Spec /\ []HeadersSurvive => AcksAreTrue)
<1> SUFFICES ASSUME NumbersClose, InitialSn > 0 PROVE Spec /\ []HeadersSurvive => AcksAreTrue
  OBVIOUS
<1> DEFINE Acks == sender.newestSent # None /\ sender'.newestSeenAck # sender.newestSeenAck
                     => /\ sender'.newestSeenAck > sender.newestSeenAck
                        /\ sender'.newestSeenAck \in history.received
<1>1. Init => FeedbackInv
  BY InitInv
<1>2. FeedbackInv /\ HeadersSurvive /\ [Next]_vars => FeedbackInv'
  BY StepInv
<1>3. FeedbackInv /\ [Next]_vars => [Acks]_vars
  BY StepAcks
<1>4. QED
  BY <1>1, <1>2, <1>3, PTL DEF Spec, AcksAreTrue

\* No header is misread if no packet is padded (EmiPacketHeader::addFillerBytes).
THEOREM UnpaddedSurvives ==
  Fillers = {0} => (Spec => []HeadersSurvive)
<1> SUFFICES ASSUME Fillers = {0} PROVE Spec => []HeadersSurvive
  OBVIOUS
<1> DEFINE Unpadded == \A p \in net : p.to = "receiver" => p.filler = 0
<1>1. Init => Unpadded
  BY DEF Init
<1>2. ASSUME Unpadded, [Next]_vars PROVE Unpadded'
  <2>1. CASE SendPacket
    BY <1>2, <2>1 DEF SendPacket, Packet
  <2>2. ASSUME NEW fillers, SendPair(fillers), \A i \in 1 .. Len(fillers) : fillers[i] = 0
        PROVE  Unpadded'
    BY <1>2, <2>2 DEF SendPair, Packet
  <2>3. CASE SendPair(<<0>>)
    BY <2>2, <2>3
  <2>4. CASE SendPair(<<0, 0>>)
    BY <2>2, <2>4
  <2>5. CASE SendUnnumbered
    BY <1>2, <2>5 DEF SendUnnumbered, Packet
  <2>6. CASE SendFeedback
    BY <1>2, <2>6 DEF SendFeedback
  <2>7. ASSUME net' \subseteq net PROVE Unpadded'
    BY <1>2, <2>7
  <2>8. ASSUME NEW p \in net, NEW d \in BOOLEAN, Delivers(p, d) PROVE net' \subseteq net
    BY <2>8 DEF Delivers
  <2>9. CASE \/ NakTimeout \/ Time \/ Tick \/ UNCHANGED vars \/ \E p \in net : Lose(p)
    BY <2>7, <2>9 DEF NakTimeout, Time, Tick, vars, Lose
  <2>10. CASE \E p \in net, d \in BOOLEAN :
                GotPacket(p, d) \/ GotUnnumbered(p, d) \/ GotFeedback(p, d)
    BY <2>7, <2>8, <2>10, Zenon DEF GotPacket, GotUnnumbered, GotFeedback
  <2>11. QED
    BY <1>2, <2>1, <2>3, <2>4, <2>5, <2>6, <2>9, <2>10 DEF Next
<1>3. Unpadded => HeadersSurvive
  BY DEF HeadersSurvive, Parsed, AddFillerBytes
<1>4. QED
  BY <1>1, <1>2, <1>3, PTL DEF Spec
=============================================================================
