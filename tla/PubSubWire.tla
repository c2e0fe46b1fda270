----------------------------- MODULE PubSubWire -----------------------------
(***************************************************************************)
(* The UADP encoding of Pub/Sub NetworkMessages, byte by byte:             *)
(* src/PubSub/src/PubSubWire.cpp.                                          *)
(*                                                                         *)
(* A byte is a number below 256.  Integers of 64 bits (values, publisher   *)
(* ids) and floating point numbers are kept as the tuple of their bytes,   *)
(* low byte first, the integers with all eight of them: the encoder's      *)
(* casts cut the tuple, the decoder's extend it.                           *)
(***************************************************************************)
EXTENDS Integers, Sequences, SequencesExt

Bit(mask, bit) == (mask \div bit) % 2 = 1
Flag(condition, bit) == IF condition THEN bit ELSE 0

\* Bytes a scalar takes on the wire; a string brings its own length.
BuiltinTypes == 0 .. 13
TypeNull == 0
TypeBoolean == 1
TypeByte == 3
TypeFloat == 10
TypeDouble == 11
TypeString == 12
SignedTypes == {2, 4, 6, 8, 13}
Width == [t \in BuiltinTypes \ {TypeString} |->
            <<0, 1, 1, 1, 2, 2, 4, 4, 8, 8, 4, 8, 0, 8>>[t + 1]]

PublisherIdWidth == <<1, 2, 4, 8>>      \* of the types Byte, UInt16, UInt32, UInt64

\* WireValue: a scalar, or an array of them.
WireScalar(type, bytes) == [type |-> type, isArray |-> FALSE, bytes |-> bytes]
WireArray(type, elements) == [type |-> type, isArray |-> TRUE, elements |-> elements]

-----------------------------------------------------------------------------
(* Encoder. *)

PutU16(n) == <<n % 256, n \div 256>>
PutU32(n) == PutU16(n % 65536) \o PutU16(n \div 65536)

EncodeScalarBody(v) ==
  CASE v.type = TypeString -> PutU32(Len(v.bytes)) \o v.bytes
    [] v.type \in DOMAIN Width -> SubSeq(v.bytes, 1, Width[v.type])

EncodeVariant(v) ==
  IF v.isArray
  THEN <<v.type + 128>> \o PutU32(Len(v.elements))
       \o FlattenSeq([i \in DOMAIN v.elements |-> EncodeScalarBody(v.elements[i])])
  ELSE <<v.type>> \o EncodeScalarBody(v)

EncodeDataSetMessage(m) ==
  <<1 + Flag(m.sequenceNumberEnabled, 8)>>
  \o (IF m.sequenceNumberEnabled THEN PutU16(m.sequenceNumber) ELSE <<>>)
  \o PutU16(Len(m.fields) % 65536)
  \o FlattenSeq([i \in DOMAIN m.fields |-> EncodeVariant(m.fields[i])])

\* The group header is there if one of its two members is.
EncodeGroupHeader(m) ==
  IF ~(m.writerGroupIdEnabled \/ m.groupSequenceNumberEnabled) THEN <<>>
  ELSE <<Flag(m.writerGroupIdEnabled, 1) + Flag(m.groupSequenceNumberEnabled, 8)>>
       \o (IF m.writerGroupIdEnabled THEN PutU16(m.writerGroupId) ELSE <<>>)
       \o (IF m.groupSequenceNumberEnabled THEN PutU16(m.groupSequenceNumber) ELSE <<>>)

\* Version 1, publisher id and payload header; the type of the publisher id
\* is written where it is not a Byte.
EncodeNetworkHeader(m) ==
  LET extended == m.publisherIdType # 0
      group == m.writerGroupIdEnabled \/ m.groupSequenceNumberEnabled
  IN  <<1 + 16 + 64 + Flag(group, 32) + Flag(extended, 128)>>
      \o (IF extended THEN <<m.publisherIdType>> ELSE <<>>)
      \o SubSeq(m.publisherId, 1, PublisherIdWidth[m.publisherIdType + 1])

\* Faulty variant of EncodeSizes: the table is written for one message too.
EncodeSizesAlways(bodies) == FlattenSeq([i \in DOMAIN bodies |-> PutU16(Len(bodies[i]))])

EncodeSizes(bodies) ==
  IF Len(bodies) > 1 THEN FlattenSeq([i \in DOMAIN bodies |-> PutU16(Len(bodies[i]))]) ELSE <<>>

MaxArrayElements == 16777215

\* The encoder throws for a type it does not know, and for an array that is
\* too large or has elements of another type, or arrays, in it.
VariantEncodable(v) ==
  /\ v.type \in BuiltinTypes
  /\ v.isArray => /\ Len(v.elements) <= MaxArrayElements
                  /\ \A i \in DOMAIN v.elements : v.elements[i].type = v.type /\ ~v.elements[i].isArray

\* It throws too without a message, with more than 255, and for a message
\* of a table that is longer than its size field.
Encodable(m) ==
  LET bodies == [i \in DOMAIN m.messages |-> EncodeDataSetMessage(m.messages[i])]
  IN  /\ Len(m.messages) \in 1 .. 255
      /\ \A i \in DOMAIN m.messages : \A f \in DOMAIN m.messages[i].fields :
           VariantEncodable(m.messages[i].fields[f])
      /\ Len(m.messages) > 1 => \A i \in DOMAIN bodies : Len(bodies[i]) < 65536

EncodeNetworkMessage(m) ==
  LET bodies == [i \in DOMAIN m.messages |-> EncodeDataSetMessage(m.messages[i])]
  IN  EncodeNetworkHeader(m) \o EncodeGroupHeader(m)
      \o <<Len(m.messages)>>
      \o FlattenSeq([i \in DOMAIN m.messages |-> PutU16(m.messages[i].dataSetWriterId)])
      \o EncodeSizes(bodies) \o FlattenSeq(bodies)

-----------------------------------------------------------------------------
(* Decoder.  A reader is what is left of the datagram, what the last read  *)
(* got, and whether every read so far was within the datagram; a read that *)
(* is not gets zeros, and the decoder's early return is the flag.          *)

Reading(bytes) == [in |-> bytes, got |-> <<>>, ok |-> TRUE]

Take(r, n) ==
  IF r.ok /\ Len(r.in) >= n
  THEN [in |-> SubSeq(r.in, n + 1, Len(r.in)), got |-> SubSeq(r.in, 1, n), ok |-> TRUE]
  ELSE [r EXCEPT !.got = [i \in 1 .. n |-> 0], !.ok = FALSE]

TakeIf(condition, r, n) == IF condition THEN Take(r, n) ELSE r

Refuse(condition, r) == IF condition THEN [r EXCEPT !.ok = FALSE] ELSE r

U8(r) == r.got[1]
U16(r) == r.got[1] + 256 * r.got[2]

\* An Int32 as a length: a negative one counts as zero.
Length(r) ==
  IF r.got[4] >= 128 THEN 0
  ELSE r.got[1] + 256 * (r.got[2] + 256 * (r.got[3] + 256 * r.got[4]))

\* One(r) n times.
TakeMany(r, n, One(_)) ==
  LET next(a, i) == LET x == One(a.r) IN [r |-> x.r, values |-> Append(a.values, x.value)]
  IN  FoldLeft(next, [r |-> r, values |-> <<>>],
               [i \in 1 .. (IF r.ok THEN n ELSE 0) |-> i])

\* Back to 64 bits.
Extend(type, bytes) ==
  LET fill == IF type \in SignedTypes /\ bytes # <<>> /\ Last(bytes) >= 128 THEN 255 ELSE 0
  IN  IF type \in {TypeNull, TypeFloat, TypeDouble} THEN bytes
      ELSE bytes \o [i \in 1 .. 8 - Len(bytes) |-> fill]

DecodeString(r) ==
  LET size == Take(r, 4)
      text == IF size.ok /\ Length(size) > 0 THEN Take(size, Length(size)) ELSE [size EXCEPT !.got = <<>>]
  IN  [r |-> text, value |-> WireScalar(TypeString, text.got)]

DecodeScalarBody(r, type) ==
  IF type = TypeString THEN DecodeString(r)
  ELSE IF type \in DOMAIN Width
  THEN LET body == Take(r, Width[type])
           bytes == IF type = TypeBoolean /\ body.ok THEN <<Flag(U8(body) # 0, 1)>> ELSE body.got
       IN  [r |-> body, value |-> WireScalar(type, Extend(type, bytes))]
  ELSE [r |-> Refuse(TRUE, r), value |-> WireScalar(TypeNull, <<>>)]

MaxArrayLength == 1000000

DecodeElements(size, type) ==
  LET element(x) == DecodeScalarBody(x, type)
  IN  TakeMany(Refuse(Length(size) > MaxArrayLength, size), Length(size), element)

DecodeArray(r, type) ==
  LET all == DecodeElements(Take(r, 4), type)
  IN  [r |-> all.r, value |-> WireArray(type, all.values)]

\* After the encoding mask; dimensions are refused.
DecodeMasked(r, mask) ==
  IF Bit(mask, 128) THEN DecodeArray(Refuse(Bit(mask, 64), r), mask % 64)
                    ELSE DecodeScalarBody(Refuse(Bit(mask, 64), r), mask % 64)

DecodeVariant(r) ==
  LET head == Take(r, 1) IN DecodeMasked(head, U8(head))

\* Status, source and server timestamp, picoseconds of both.
SkipStatus(r, mask) ==
  TakeIf(Bit(mask, 32), TakeIf(Bit(mask, 16), TakeIf(Bit(mask, 8),
    TakeIf(Bit(mask, 4), TakeIf(Bit(mask, 2), r, 4), 8), 8), 2), 2)

\* A DataValue: an optional variant, then what SkipStatus skips.
DecodeDataValueField(r) ==
  LET head == Take(r, 1)
      v == IF Bit(U8(head), 1) THEN DecodeVariant(head)
           ELSE [r |-> head, value |-> WireScalar(TypeNull, <<>>)]
  IN  [r |-> SkipStatus(v.r, U8(head)), value |-> v.value]

-----------------------------------------------------------------------------
(* A DataSetMessage and a NetworkMessage are decoded part by part; d holds *)
(* the reader, the flags and what was decoded so far.                      *)

DataSetFlags(r) ==
  LET head == Take(r, 1)
      more == TakeIf(Bit(U8(head), 128), head, 1)
  IN  [r |-> more, flags1 |-> U8(head), flags2 |-> IF Bit(U8(head), 128) THEN U8(more) ELSE 0]

\* The sequence number; timestamp, picoseconds, status and versions are skipped.
DataSetHeader(d) ==
  LET seq == TakeIf(Bit(d.flags1, 8), d.r, 2)
      rest == TakeIf(Bit(d.flags1, 64), TakeIf(Bit(d.flags1, 32), TakeIf(Bit(d.flags1, 16),
              TakeIf(Bit(d.flags2, 32), TakeIf(Bit(d.flags2, 16), seq, 8), 2), 2), 4), 4)
  IN  [r |-> rest, type |-> d.flags2 % 16, encoding |-> (d.flags1 \div 2) % 4,
       sequenceNumberEnabled |-> Bit(d.flags1, 8),
       sequenceNumber |-> IF Bit(d.flags1, 8) THEN U16(seq) ELSE 0]

\* A keep-alive has no fields; only key frames of variants or DataValues are read.
DataSetFields(d) ==
  LET count == Take(Refuse(d.type # 0 \/ d.encoding = 1, d.r), 2)
      field(x) == IF d.encoding = 0 THEN DecodeVariant(x) ELSE DecodeDataValueField(x)
  IN  IF d.type = 3 THEN [r |-> d.r, values |-> <<>>] ELSE TakeMany(count, U16(count), field)

DataSetMessage(d, fields, writerId) ==
  [r |-> fields.r,
   value |-> [dataSetWriterId |-> writerId, sequenceNumberEnabled |-> d.sequenceNumberEnabled,
              sequenceNumber |-> d.sequenceNumber, keepAlive |-> d.type = 3, fields |-> fields.values]]

DecodeDataSetMessage(r, writerId) ==
  LET d == DataSetHeader(DataSetFlags(r)) IN DataSetMessage(d, DataSetFields(d), writerId)

\* The version.
DecodeFlags(r) ==
  [r |-> Refuse(U8(r) % 16 # 1, r), flags |-> U8(r), ext1 |-> 0, promoted |-> FALSE,
   writerIds |-> <<0>>, values |-> <<>>, publisherIdType |-> 1, publisherId |-> [i \in 1 .. 8 |-> 0],
   writerGroupIdEnabled |-> FALSE, writerGroupId |-> 0,
   groupSequenceNumberEnabled |-> FALSE, groupSequenceNumber |-> 0]

DecodeExtendedFlags1(d) ==
  LET r == Take(d.r, 1) IN IF Bit(d.flags, 128) THEN [d EXCEPT !.r = r, !.ext1 = U8(r)] ELSE d

\* ExtendedFlags2: no chunks, no discovery messages.
DecodeExtendedFlags2(d) ==
  LET r == Take(d.r, 1)
  IN  IF Bit(d.ext1, 128)
      THEN [d EXCEPT !.r = Refuse(Bit(U8(r), 1) \/ (U8(r) \div 4) % 8 # 0, r), !.promoted = Bit(U8(r), 2)]
      ELSE d

DecodePublisherId(d) ==
  LET type == d.ext1 % 8
      r == Take(d.r, PublisherIdWidth[type + 1])
  IN  IF ~Bit(d.flags, 16) THEN d
      ELSE IF type > 3 THEN [d EXCEPT !.r = Refuse(TRUE, @)]
      ELSE [d EXCEPT !.r = r, !.publisherIdType = type, !.publisherId = Extend(TypeByte, r.got)]

\* The class id of the dataset is skipped.
SkipClassId(d) == [d EXCEPT !.r = TakeIf(Bit(d.ext1, 8), @, 16)]

GroupMembers(d, flags) ==
  LET group == TakeIf(Bit(flags, 1), d.r, 2)
      rest == TakeIf(Bit(flags, 4), TakeIf(Bit(flags, 2), group, 4), 2)
      seq == TakeIf(Bit(flags, 8), rest, 2)
  IN  [d EXCEPT !.r = seq, !.writerGroupIdEnabled = Bit(flags, 1),
                !.writerGroupId = IF Bit(flags, 1) THEN U16(group) ELSE 0,
                !.groupSequenceNumberEnabled = Bit(flags, 8),
                !.groupSequenceNumber = IF Bit(flags, 8) THEN U16(seq) ELSE 0]

DecodeGroupHeader(d) ==
  LET head == Take(d.r, 1)
  IN  IF Bit(d.flags, 32) THEN GroupMembers([d EXCEPT !.r = head], U8(head)) ELSE d

\* The number of messages and the writer of each; one message of writer 0
\* without a payload header.
DecodePayloadHeader(d) ==
  LET head == Take(d.r, 1)
      id(x) == LET y == Take(x, 2) IN [r |-> y, value |-> U16(y)]
      ids == TakeMany(Refuse(U8(head) = 0, head), U8(head), id)
  IN  IF Bit(d.flags, 64) THEN [d EXCEPT !.r = ids.r, !.writerIds = ids.values] ELSE d

\* Timestamp, picoseconds and promoted fields are skipped, security refused.
SkipExtended(d) ==
  LET size == TakeIf(d.promoted, TakeIf(Bit(d.ext1, 64), TakeIf(Bit(d.ext1, 32), d.r, 8), 2), 2)
      plain == IF d.promoted THEN Take(size, U16(size)) ELSE size
  IN  [d EXCEPT !.r = Refuse(Bit(d.ext1, 16), plain)]

\* The sizes of several messages are skipped: each message ends where its
\* decoder stops.
DecodeMessages(d) ==
  LET first == TakeIf(Len(d.writerIds) > 1, d.r, 2 * Len(d.writerIds))
      next(a, id) == LET x == DecodeDataSetMessage(a.r, id)
                     IN  [a EXCEPT !.r = x.r, !.values = Append(@, x.value)]
  IN  FoldLeft(next, [d EXCEPT !.r = first], IF first.ok THEN d.writerIds ELSE <<>>)

\* The message, or "ok" false.
Decoded(d) ==
  [ok |-> d.r.ok,
   message |-> [publisherIdType |-> d.publisherIdType, publisherId |-> d.publisherId,
                writerGroupIdEnabled |-> d.writerGroupIdEnabled, writerGroupId |-> d.writerGroupId,
                groupSequenceNumberEnabled |-> d.groupSequenceNumberEnabled,
                groupSequenceNumber |-> d.groupSequenceNumber, messages |-> d.values]]

DecodeNetworkMessage(bytes) ==
  Decoded(DecodeMessages(SkipExtended(DecodePayloadHeader(DecodeGroupHeader(SkipClassId(
    DecodePublisherId(DecodeExtendedFlags2(DecodeExtendedFlags1(DecodeFlags(
      Take(Reading(bytes), 1)))))))))))
=============================================================================
