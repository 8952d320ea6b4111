------------------------------- MODULE SeqNum -------------------------------
(***************************************************************************)
(* Sequence numbers of EmiNet.  Inside one host a message is numbered with *)
(* a 64-bit "non-wrapping" number; on the wire only its low 24 bits        *)
(* travel.  The receiver of a wrapped number reconstructs the rest from a  *)
(* number it already knows.  The arithmetic is the code's own, including   *)
(* the place where it is off by one: cyclic differences are taken modulo   *)
(* Mask, not modulo Mask + 1.                                              *)
(***************************************************************************)
EXTENDS Integers

CONSTANTS
  Mask,       \* largest wrapped number, EMI_HEADER_SEQUENCE_NUMBER_MASK
  Modulus64   \* 2^64 of EmiNonWrappingSequenceNumber; larger than any number used

ASSUME SeqNumAssumption == /\ Mask \in Nat \ {0}
                           /\ Modulus64 \in Nat
                           /\ Mask < Modulus64

Wrapped == 0 .. Mask

\* sn & EMI_HEADER_SEQUENCE_NUMBER_MASK
Wrap(sn) == sn % (Mask + 1)

\* A uint64_t that was computed below zero.
Unsigned(n) == IF n < 0 THEN n + Modulus64 ELSE n

\* EmiNetUtil::cyclicDifference: how far a is ahead of b.
CyclicDifference(a, b) == IF a >= b THEN a - b ELSE Mask - b + a

\* EmiNetUtil::cyclicDifferenceSigned: positive when a is newer than b.
CyclicDifferenceSigned(a, b) ==
  LET d == CyclicDifference(a, b) IN IF d > Mask \div 2 THEN d - Mask ELSE d

\* EmiNetUtil::cyclicMax
CyclicMax(a, b) == IF CyclicDifferenceSigned(a, b) > 0 THEN a ELSE b

(***************************************************************************)
(* The receiver's guess of the non-wrapping number behind the wrapped sn,  *)
(* when it expects number expected (EmiReceiverBuffer::gotMessage).        *)
(***************************************************************************)
GuessFromExpected(expected, sn) ==
  LET diff == CyclicDifferenceSigned(Wrap(expected), sn)
  IN  IF diff > 0 /\ diff > expected THEN sn ELSE expected - diff

(***************************************************************************)
(* The sender's guess of the non-wrapping number behind an acknowledgement *)
(* sn, with the most recent number it used as the reference                *)
(* (EmiLogicalConnection::guessSequenceNumberWrappingFromReference).       *)
(***************************************************************************)
GuessFromReference(reference, sn) ==
  Unsigned((reference - Wrap(reference)) + sn
             - (IF sn > Wrap(reference) THEN Mask ELSE 0))
=============================================================================
