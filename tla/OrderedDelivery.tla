--------------------------- MODULE OrderedDelivery ---------------------------
(***************************************************************************)
(* What a RELIABLE_ORDERED channel promises (README.md, channel type 4):   *)
(* no message is discarded and they arrive in order.  The sending          *)
(* application appends whole messages to `stream`; the receiving one sees  *)
(* `delivered`, which is extended by whole messages, in the order sent.    *)
(* A message is the run of its parts; its final part is flagged `last`.    *)
(***************************************************************************)
EXTENDS Naturals, Sequences

VARIABLES stream,     \* the parts of all messages sent so far
          delivered   \* the parts of all messages given to the receiver

Init == stream = <<>> /\ delivered = <<>>

\* One message of any number of parts: only its final part is flagged last.
Send ==
  /\ Len(stream') > Len(stream)
  /\ \A i \in 1 .. Len(stream) : stream'[i] = stream[i]
  /\ \A i \in Len(stream) + 1 .. Len(stream') :
        stream'[i].last <=> i = Len(stream')
  /\ UNCHANGED delivered

\* The next messages are handed over, each of them whole.
Deliver ==
  /\ Len(delivered') > Len(delivered)
  /\ Len(delivered') <= Len(stream)
  /\ \A i \in 1 .. Len(delivered') : delivered'[i] = stream[i]
  /\ stream[Len(delivered')].last
  /\ UNCHANGED stream

Next == Send \/ Deliver

Spec == Init /\ [][Next]_<<stream, delivered>>

\* Whatever was sent is handed over in the end.
Progress == []<>(delivered = stream)
=============================================================================
