---------------------------- MODULE PubSubValues ----------------------------
(***************************************************************************)
(* The values of the address space on their way into a DataSetMessage and  *)
(* out of one: the conversions at the head of src/PubSub/src/              *)
(* PubSubEngine.cpp, over those of src/AddressSpace/src/ArrayTools.cpp.    *)
(*                                                                         *)
(* A UaVariant holds a number in the bytes of its own type, low byte       *)
(* first, where a WireValue has 64 bits; a string is a C string.           *)
(***************************************************************************)
EXTENDS PubSubWire, FiniteSetsExt

TypeSByte == 2
TypeDateTime == 13

UaScalar(type, bytes) == [type |-> type, isArray |-> FALSE, bytes |-> bytes]
UaArray(type, elements) == [type |-> type, isArray |-> TRUE, elements |-> elements]

Converts(value) == {value}         \* true and the value, or ...
DoesNotConvert == {}               \* ... false
OrElse(conversion, other) == IF conversion = DoesNotConvert THEN other ELSE CHOOSE v \in conversion : TRUE

\* Both directions know the same element types of arrays, and of scalars all
\* these but SByte.
ArrayTypes == BuiltinTypes \ {TypeNull, TypeDateTime}
ScalarTypes == ArrayTypes \ {TypeSByte}

\* toUtf8() and c_str() end at the first zero.
CString(bytes) ==
  LET zeros == {i \in DOMAIN bytes : bytes[i] = 0}
  IN  IF zeros = {} THEN bytes ELSE SubSeq(bytes, 1, Min(zeros) - 1)

\* makeBoolean, makeSigned, makeUnsigned, makeFloat, makeDouble, makeString.
MakeWire(type, bytes) ==
  WireScalar(type, CASE type = TypeString -> CString(bytes)
                     [] type = TypeBoolean -> Extend(type, <<Flag(bytes # <<0>>, 1)>>)
                     [] type \notin {TypeString, TypeBoolean} -> Extend(type, bytes))

\* A getter of ArrayTools copies element by element, toByteArray included.
ToVector(variant) == [i \in DOMAIN variant.elements |-> variant.elements[i].bytes]

UaArrayToWire(variant) ==
  IF variant.type \in ArrayTypes
  THEN LET values == ToVector(variant)
       IN  Converts(WireArray(variant.type, [i \in DOMAIN values |-> MakeWire(variant.type, values[i])]))
  ELSE DoesNotConvert

UaVariantToWire(variant) ==
  IF variant.isArray THEN UaArrayToWire(variant)
  ELSE IF variant.type = TypeNull THEN Converts(WireScalar(TypeNull, <<>>))
  ELSE IF variant.type \in ScalarTypes THEN Converts(MakeWire(variant.type, variant.bytes))
  ELSE DoesNotConvert

\* The cast to the type's own width.
CastTo(type, bytes) ==
  CASE type = TypeString -> CString(bytes)
    [] type \in DOMAIN Width -> SubSeq(bytes, 1, Width[type])

FromVector(type, values) == UaArray(type, [i \in DOMAIN values |-> UaScalar(type, values[i])])

WireArrayToUa(value) ==
  IF value.type \in ArrayTypes
  THEN LET values == [i \in DOMAIN value.elements |-> CastTo(value.type, value.elements[i].bytes)]
       IN  Converts(FromVector(value.type, values))
  ELSE DoesNotConvert

WireToUaVariant(value) ==
  IF value.isArray THEN WireArrayToUa(value)
  ELSE IF value.type \in ScalarTypes
  THEN Converts(UaScalar(value.type, CastTo(value.type, value.bytes)))
  ELSE DoesNotConvert

\* publishGroup: one message per writer; a value that does not convert is
\* published as Null, so that the fields after it keep their places.
PublishedField(variant) == OrElse(UaVariantToWire(variant), WireScalar(TypeNull, <<>>))

PublishGroup(group) ==
  [publisherIdType |-> group.publisherIdType, publisherId |-> group.publisherId,
   writerGroupIdEnabled |-> TRUE, writerGroupId |-> group.id,
   groupSequenceNumberEnabled |-> TRUE, groupSequenceNumber |-> group.sequenceNumber,
   messages |-> [w \in DOMAIN group.writers |->
     [dataSetWriterId |-> group.writers[w].id, sequenceNumberEnabled |-> TRUE,
      sequenceNumber |-> group.writers[w].sequenceNumber, keepAlive |-> FALSE,
      fields |-> [f \in DOMAIN group.writers[w].values |-> PublishedField(group.writers[w].values[f])]]]]

\* handleDatagram: a field that does not convert leaves its target alone, and
\* so does a message with fewer fields than the reader has targets.
WriteTargets(targets, fields) ==
  [t \in DOMAIN targets |->
     OrElse(IF t > Len(fields) THEN DoesNotConvert ELSE WireToUaVariant(fields[t]), targets[t])]

\* The messages of the datagram the reader's key names, one after the other.
ApplyMessages(decoded, reader) ==
  LET message == decoded.message
      group == IF message.writerGroupIdEnabled THEN message.writerGroupId ELSE 0
      concerns(m) == /\ ~m.keepAlive
                     /\ <<message.publisherId, group, m.dataSetWriterId>> = reader.key
  IN  IF ~decoded.ok THEN reader.targets
      ELSE FoldLeft(LAMBDA targets, m : WriteTargets(targets, m.fields), reader.targets,
                    SelectSeq(message.messages, concerns))

HandleDatagram(bytes, reader) == ApplyMessages(DecodeNetworkMessage(bytes), reader)
=============================================================================
