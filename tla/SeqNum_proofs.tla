---------------------------- MODULE SeqNum_proofs ----------------------------
(***************************************************************************)
(* Where the sequence number arithmetic is right: below the wrap, and      *)
(* within half of the number space around the number the guess starts at.  *)
(***************************************************************************)
EXTENDS SeqNum, TLAPS

\* Below the wrap a number travels unchanged.
LEMMA WrapIsIdentity ==
  ASSUME NEW sn \in Wrapped
  PROVE  Wrap(sn) = sn
  BY SeqNumAssumption DEF Wrapped, Wrap

\* The receiver recovers the number of a message that is less than half of the
\* number space away from the one it expects (EmiReceiverBuffer::gotMessage).
THEOREM GuessFromExpectedIsExact ==
  ASSUME NEW expected \in Wrapped, NEW sn \in Wrapped,
         expected - sn <= Mask \div 2, sn - expected < Mask \div 2
  PROVE  GuessFromExpected(expected, sn) = sn
<1>1. Wrap(expected) = expected
  BY WrapIsIdentity
<1>2. Mask \div 2 \in Nat /\ 2 * (Mask \div 2) <= Mask
  BY SeqNumAssumption
<1>3. CASE expected >= sn
  <2>1. CyclicDifferenceSigned(expected, sn) = expected - sn
    BY <1>2, <1>3, SeqNumAssumption
    DEF CyclicDifferenceSigned, CyclicDifference, Wrapped
  <2>2. QED
    BY <1>1, <2>1, <1>3, SeqNumAssumption DEF GuessFromExpected, Wrapped
<1>4. CASE expected < sn
  <2>1. CyclicDifferenceSigned(expected, sn) = expected - sn
    BY <1>2, <1>4, SeqNumAssumption
    DEF CyclicDifferenceSigned, CyclicDifference, Wrapped
  <2>2. QED
    BY <1>1, <2>1, <1>4, SeqNumAssumption DEF GuessFromExpected, Wrapped
<1>5. QED
  BY <1>3, <1>4 DEF Wrapped

\* The sender recovers the number of an acknowledged message from the number of
\* the last one it sent (EmiLogicalConnection::guessSequenceNumberWrapping).
THEOREM GuessFromReferenceIsExact ==
  ASSUME NEW reference \in Wrapped, NEW sn \in 0 .. reference
  PROVE  GuessFromReference(reference, sn) = sn
  BY WrapIsIdentity, SeqNumAssumption DEF GuessFromReference, Unsigned, Wrapped

\* The newer of two numbers is one of them.
LEMMA CyclicMaxIsOne ==
  ASSUME NEW a, NEW b
  PROVE  CyclicMax(a, b) \in {a, b}
  BY DEF CyclicMax
=============================================================================
