----------------------------- MODULE PacketHeader -----------------------------
(***************************************************************************)
(* EmiPacketHeader: how the header of a packet is written, padded and read *)
(* again.  A byte says what it belongs to: <<field, value of the field,    *)
(* place>>.  What matters is where the bytes are, not how a value is split *)
(* into them.                                                              *)
(***************************************************************************)
EXTENDS Integers, Sequences, SequencesExt

\* The fields in the order in which they are sent, with their sizes.  A request
\* for an RTT response is a flag only.
Fields ==
  << <<"sequenceNumber", 3>>, <<"ack", 3>>, <<"nak", 3>>, <<"linkCapacity", 4>>,
     <<"arrivalRate", 4>>, <<"rttRequest", 0>>, <<"rttResponse", 4>> >>

FieldBytes(field, size, value) == [i \in 1 .. size |-> <<field, value, i>>]

\* Those of the fields that a packet with these flags has.
Present(flags) == SelectSeq(Fields, LAMBDA f : f[1] \in flags)

SizeOf(fields) == FoldSeq(LAMBDA f, n : f[2] + n, 0, fields)

\* The flags byte, and the fields of header (a function from flags to values) and
\* the data after it.
Write(header, data) ==
  LET fields == Present(DOMAIN header)
      bytes  == [i \in 1 .. Len(fields) |->
                   FieldBytes(fields[i][1], fields[i][2], header[fields[i][1]])]
  IN [flags |-> DOMAIN header, rest |-> FlattenSeq(bytes) \o data]

\* n bytes: the extra flags, and what these tell the rest of the n bytes is, one
\* byte or a number of two bytes and as many more as it says.
Filler(n) ==
  CASE n = 1 -> FieldBytes("extraFlags", 1, "none")
    [] n = 2 -> FieldBytes("extraFlags", 1, "1 byte") \o FieldBytes("filler", 1, 0)
    [] n > 2 -> FieldBytes("extraFlags", 1, "2 bytes") \o FieldBytes("size", 2, n - 3)
                  \o FieldBytes("filler", n - 3, 0)

AddFillerBytes(packet, n) ==
  IF n = 0 THEN packet
  ELSE [flags |-> packet.flags \cup {"extra"}, rest |-> Filler(n) \o packet.rest]

\* How many bytes there are before the fields.  That is told from the flags and
\* not from the extra flags: 1 byte has the bit that a sequence number has in the
\* flags, and 2 bytes that of an acknowledgement.
FillerSize(packet) ==
  CASE "extra" \notin packet.flags        -> 0
    [] "sequenceNumber" \in packet.flags  -> 2
    [] "ack" \in packet.flags             -> 3 + packet.rest[3][2]
    [] OTHER                              -> 1

\* The bytes that are taken for each of the fields.
Parse(packet) ==
  LET fields   == Present(packet.flags)
      start(i) == FillerSize(packet) + SizeOf(SubSeq(fields, 1, i - 1))
  IN [i \in 1 .. Len(fields) |->
        SubSeq(packet.rest, start(i) + 1, start(i) + fields[i][2])]
=============================================================================
