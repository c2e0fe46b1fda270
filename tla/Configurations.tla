--------------------------- MODULE Configurations ---------------------------
(***************************************************************************)
(* The <PubSub> and <Fx> sections of the configuration file, from the tree *)
(* the schema parser builds to the image the engines stage.                *)
(*                                                                         *)
(* src/PubSub: PubSubConfiguration.cpp, PubSubXsdBinding.cpp; src/Fx:      *)
(* FxConfiguration.cpp, FxXsdBinding.cpp.                                  *)
(*                                                                         *)
(* A publisher id is a rank in the order of the magnitudes the code        *)
(* compares it with, an interval the class of doubles it is in, a network  *)
(* address its characters.  An optional attribute is in the domain of its  *)
(* element or is not.  The address of a field is the sequence of its       *)
(* dotted parts.                                                           *)
(***************************************************************************)
EXTENDS Integers, Sequences, SequencesExt, FiniteSets

Refusal == [ok |-> FALSE]
Accepted(configuration) == [ok |-> TRUE, configuration |-> configuration]

-----------------------------------------------------------------------------
(* Publisher ids and addresses. *)

\* The magnitudes that matter: at most 0xFF, at most 0xFFFF, at most
\* 0xFFFFFFFF, at most 2^53, larger.
Magnitudes == 1 .. 5
TwoTo53 == 4

PublisherIdTypes == {"Byte", "UInt16", "UInt32", "UInt64"}

PublisherIdMaximum(type) ==
  CASE type = "Byte" -> 1 [] type = "UInt16" -> 2 [] type = "UInt32" -> 3 [] type = "UInt64" -> 5

\* The intervals that matter, as doubles: AtMostZero and AboveZero are the
\* outcomes of the comparison with 0, and NaN is in neither.  "huge" is
\* more microseconds than a long long holds.
AtMostZero == {"negative", "zero"}
AboveZero == {"toADay", "overADay", "huge", "INF"}
AboveADay == {"overADay", "huge", "INF"}
Intervals == AtMostZero \cup AboveZero \cup {"NaN"}

\* A network address: its scheme, and the codes of the characters after it.
Slash == 47
Digits == 48 .. 57
Colon == 58
MaxPort == 65535

WithoutSlashes(rest) ==
  SubSeq(rest, 1, SelectLastInSeq(rest, LAMBDA c : c # Slash))

\* 0 where there is none.
LastColon(rest) == SelectLastInSeq(rest, LAMBDA c : c = Colon)

\* Faulty variant of PortStep: the range is not checked before the cast to 16 bits.
PortStepWraps(parsed, c) ==
  IF parsed > MaxPort \/ c \notin Digits THEN MaxPort + 1 ELSE (parsed * 10 + c - 48) % (MaxPort + 1)

\* Above MaxPort once a character was refused.
PortStep(parsed, c) ==
  IF parsed > MaxPort \/ c \notin Digits THEN MaxPort + 1 ELSE parsed * 10 + c - 48

PortOf(rest) == FoldLeft(PortStep, 0, SubSeq(rest, LastColon(rest) + 1, Len(rest)))

NetworkAddressAccepted(a) ==
  LET rest == WithoutSlashes(a.rest)
  IN  /\ a.scheme = "opc.udp"
      /\ LastColon(rest) \notin {0, 1, Len(rest)}
      /\ PortOf(rest) \in 1 .. MaxPort

ParseNetworkAddress(a) ==
  LET rest == WithoutSlashes(a.rest)
  IN  [host |-> SubSeq(rest, 1, LastColon(rest) - 1), port |-> PortOf(rest)]

-----------------------------------------------------------------------------
(* <PubSub>. *)

\* A field of a writer names its source, a field of a reader its target.
FieldAccepted(f, wanted, other) ==
  wanted \in DOMAIN f /\ other \notin DOMAIN f /\ f[wanted] # <<>>

FieldsFromXsd(fields, wanted) == [i \in DOMAIN fields |-> [address |-> fields[i][wanted]]]

EveryField(fields, wanted, other) ==
  \A i \in DOMAIN fields : FieldAccepted(fields[i], wanted, other)

\* Refused where the interval is <= 0: NaN and INF are not.
WriterGroupAccepted(g) ==
  /\ g.publishingIntervalMs \notin AtMostZero
  /\ \A i \in DOMAIN g.writers : EveryField(g.writers[i].fields, "source", "target")

ReaderAccepted(r) ==
  r.publisherIdType \in PublisherIdTypes /\ EveryField(r.fields, "target", "source")

ConnectionAccepted(c) ==
  /\ NetworkAddressAccepted(c.address)
  /\ \A i \in DOMAIN c.writerGroups : WriterGroupAccepted(c.writerGroups[i])
  /\ \A i \in DOMAIN c.readers : ReaderAccepted(c.readers[i])
  /\ c.writerGroups # <<>> \/ c.readers # <<>>

WriterGroupFromXsd(g) ==
  [id |-> g.id, publishingIntervalMs |-> g.publishingIntervalMs,
   writers |-> [i \in DOMAIN g.writers |->
                  [id |-> g.writers[i].id, fields |-> FieldsFromXsd(g.writers[i].fields, "source")]]]

ReaderFromXsd(r) ==
  [publisherId |-> r.publisherId, publisherIdType |-> r.publisherIdType,
   writerGroupId |-> r.writerGroupId, dataSetWriterId |-> r.dataSetWriterId,
   targets |-> FieldsFromXsd(r.fields, "target")]

ConnectionFromXsd(c) ==
  [address |-> ParseNetworkAddress(c.address),
   writerGroups |-> [i \in DOMAIN c.writerGroups |-> WriterGroupFromXsd(c.writerGroups[i])],
   readers |-> [i \in DOMAIN c.readers |-> ReaderFromXsd(c.readers[i])]]

\* PubSub::configurationFromXsd.  The publisher ids are not compared with
\* the maximum of their type.
PubSubFromXsd(xsd) ==
  IF /\ xsd.publisherIdType \in PublisherIdTypes
     /\ xsd.connections # <<>>
     /\ \A i \in DOMAIN xsd.connections : ConnectionAccepted(xsd.connections[i])
  THEN Accepted([publisherId |-> xsd.publisherId, publisherIdType |-> xsd.publisherIdType,
                 connections |-> [i \in DOMAIN xsd.connections |->
                                    ConnectionFromXsd(xsd.connections[i])]])
  ELSE Refusal

-----------------------------------------------------------------------------
(* <Fx>. *)

\* bindField: the name stays empty where the attribute is absent.
BindField(f, wanted) ==
  [address |-> f[wanted], name |-> IF "name" \in DOMAIN f THEN f.name ELSE ""]

\* "" after a dot at the end.
LeafOf(address) == Last(address)

FinalizeField(field) ==
  IF field.name = "" THEN [field EXCEPT !.name = LeafOf(field.address)] ELSE field

FinalizeFields(fields) == [i \in DOMAIN fields |-> FinalizeField(fields[i])]

\* Faulty variant of FieldsValid: the names are compared before the defaults are in.
FieldsValidEarly(fields) ==
  /\ fields # <<>>
  /\ \A i \in DOMAIN fields : fields[i].address # <<>> /\ FinalizeFields(fields)[i].name # ""
  /\ \A i, j \in DOMAIN fields :
       i # j => fields[i].name # fields[j].name \/ fields[i].name = ""

FieldsValid(fields) ==
  /\ fields # <<>>
  /\ \A i \in DOMAIN fields : fields[i].address # <<>>
  /\ \A i \in DOMAIN fields : FinalizeFields(fields)[i].name # ""
  /\ IsInjective([i \in DOMAIN fields |-> FinalizeFields(fields)[i].name])

\* requireUnique over a list of named parts.
NamesValid(parts) ==
  /\ \A i \in DOMAIN parts : parts[i].name # ""
  /\ IsInjective([i \in DOMAIN parts |-> parts[i].name])

\* Refused unless the interval is > 0, and where it is > 86400000.
OutputValid(d) ==
  /\ d.publishingIntervalMs \in AboveZero /\ d.publishingIntervalMs \notin AboveADay
  /\ FieldsValid(d.fields)

EntityValid(entity) ==
  /\ NamesValid(entity.outputs) /\ NamesValid(entity.inputs)
  /\ \A i \in DOMAIN entity.outputs : OutputValid(entity.outputs[i])
  /\ \A i \in DOMAIN entity.inputs : FieldsValid(entity.inputs[i].fields)
  /\ entity.outputs # <<>> \/ entity.inputs # <<>>

\* A group belongs to one output dataset of the component.
WriterGroupIdsUnique(entities) ==
  \A i, j \in DOMAIN entities :
    \A d \in DOMAIN entities[i].outputs, e \in DOMAIN entities[j].outputs :
      entities[i].outputs[d].writerGroupId = entities[j].outputs[e].writerGroupId => i = j /\ d = e

PublisherIdValid(configuration) ==
  /\ configuration.publisherId <= PublisherIdMaximum(configuration.publisherIdType)
  /\ configuration.publisherId <= TwoTo53

Valid(configuration) ==
  /\ configuration.automationComponent # ""
  /\ PublisherIdValid(configuration)
  /\ configuration.entities # <<>>
  /\ NamesValid(configuration.entities)
  /\ \A i \in DOMAIN configuration.entities : EntityValid(configuration.entities[i])
  /\ WriterGroupIdsUnique(configuration.entities)

FinalizeDataset(d) == [d EXCEPT !.fields = FinalizeFields(d.fields)]

FinalizeEntity(entity) ==
  [entity EXCEPT !.outputs = [i \in DOMAIN entity.outputs |-> FinalizeDataset(entity.outputs[i])],
                 !.inputs = [i \in DOMAIN entity.inputs |-> FinalizeDataset(entity.inputs[i])]]

FinalizeAndValidate(configuration) ==
  IF Valid(configuration)
  THEN Accepted([configuration EXCEPT
         !.entities = [i \in DOMAIN configuration.entities |-> FinalizeEntity(configuration.entities[i])]])
  ELSE Refusal

BindDataset(d, wanted) ==
  [d EXCEPT !.fields = [i \in DOMAIN d.fields |-> BindField(d.fields[i], wanted)]]

BindEntity(entity) ==
  [entity EXCEPT !.outputs = [i \in DOMAIN entity.outputs |-> BindDataset(entity.outputs[i], "source")],
                 !.inputs = [i \in DOMAIN entity.inputs |-> BindDataset(entity.inputs[i], "target")]]

\* Here an address may be empty: finalizeFields refuses it.
Directed(fields, wanted, other) ==
  \A i \in DOMAIN fields : wanted \in DOMAIN fields[i] /\ other \notin DOMAIN fields[i]

DirectedEntity(entity) ==
  /\ \A i \in DOMAIN entity.outputs : Directed(entity.outputs[i].fields, "source", "target")
  /\ \A i \in DOMAIN entity.inputs : Directed(entity.inputs[i].fields, "target", "source")

\* Fx::configurationFromXsd.
FxFromXsd(xsd) ==
  IF /\ xsd.publisherIdType \in PublisherIdTypes
     /\ \A i \in DOMAIN xsd.entities : DirectedEntity(xsd.entities[i])
  THEN FinalizeAndValidate(
         [xsd EXCEPT !.entities = [i \in DOMAIN xsd.entities |-> BindEntity(xsd.entities[i])]])
  ELSE Refusal

-----------------------------------------------------------------------------
(* What the engines may rely on in a section that was accepted. *)

NamesDiffer(parts) == \A i, j \in DOMAIN parts : i # j => parts[i].name # parts[j].name

\* The fields of a dataset are those of the section, under the name they
\* were given or the leaf of their address, and can be told apart.
FieldsBound(fields, written, direction) ==
  /\ Len(fields) = Len(written) /\ NamesDiffer(fields)
  /\ \A i \in DOMAIN fields :
       /\ fields[i].address = written[i][direction]
       /\ fields[i].name = (IF "name" \in DOMAIN written[i] /\ written[i].name # "" THEN written[i].name
                            ELSE Last(fields[i].address))
       /\ fields[i].name # ""

EntityBound(entity, written) ==
  /\ NamesDiffer(entity.outputs) /\ NamesDiffer(entity.inputs)
  /\ Len(entity.outputs) = Len(written.outputs) /\ Len(entity.inputs) = Len(written.inputs)
  /\ \A d \in DOMAIN entity.outputs :
       FieldsBound(entity.outputs[d].fields, written.outputs[d].fields, "source")
  /\ \A d \in DOMAIN entity.inputs :
       FieldsBound(entity.inputs[d].fields, written.inputs[d].fields, "target")

\* Where an output dataset is: its entity and its place in it.
OutputsOf(configuration) ==
  UNION {{i} \X DOMAIN configuration.entities[i].outputs : i \in DOMAIN configuration.entities}

GroupOf(configuration, o) == configuration.entities[o[1]].outputs[o[2]].writerGroupId

\* The configuration made of a section names no two entities, no two datasets
\* of an entity and no two fields of a dataset alike, publishes no two output
\* datasets in one writer group, and binds every field as it is written.
FxSound(configuration, xsd) ==
  /\ Len(configuration.entities) = Len(xsd.entities) /\ NamesDiffer(configuration.entities)
  /\ \A o, p \in OutputsOf(configuration) :
       o # p => GroupOf(configuration, o) # GroupOf(configuration, p)
  /\ \A i \in DOMAIN configuration.entities :
       EntityBound(configuration.entities[i], xsd.entities[i])
=============================================================================
