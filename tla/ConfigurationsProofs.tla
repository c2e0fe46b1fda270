------------------------ MODULE ConfigurationsProofs ------------------------
(***************************************************************************)
(* What finalizeAndValidate accepts, for every <Fx> section: any number of *)
(* entities, datasets and fields, with any contents.                       *)
(***************************************************************************)
EXTENDS Configurations, TLAPS

\* The sections the schema parser builds, with contents from V.
Fields(V) == UNION {[attributes -> V] : attributes \in SUBSET {"source", "target", "name"}}

OutputDatasets(V) ==
  [name : V, writerGroupId : V, dataSetWriterId : V, publishingIntervalMs : V, fields : Seq(Fields(V))]

InputDatasets(V) == [name : V, fields : Seq(Fields(V))]

FunctionalEntities(V) ==
  [name : V, outputs : Seq(OutputDatasets(V)), inputs : Seq(InputDatasets(V))]

Sections(V) ==
  [automationComponent : V, publisherId : V, publisherIdType : V, entities : Seq(FunctionalEntities(V))]

-----------------------------------------------------------------------------

\* The default of a name.
LEMMA FieldFinalized ==
  ASSUME NEW address, NEW name
  PROVE  FinalizeField([address |-> address, name |-> name])
           = [address |-> address, name |-> IF name = "" THEN Last(address) ELSE name]
<1> DEFINE field == [address |-> address, name |-> name]
<1>1. field.name = name /\ field.address = address
  OBVIOUS
<1>2. \A leaf : [field EXCEPT !.name = leaf] = [address |-> address, name |-> leaf]
  OBVIOUS
<1> QED
  BY <1>1, <1>2, Zenon DEF FinalizeField, LeafOf

\* bindField and finalizeFields on one dataset: names are compared after the
\* defaults are in.
LEMMA FieldsSound ==
  ASSUME NEW V, NEW written \in Seq(Fields(V)), NEW direction \in {"source", "target"},
         \A i \in DOMAIN written : direction \in DOMAIN written[i],
         NEW bound, bound = [i \in DOMAIN written |-> BindField(written[i], direction)],
         FieldsValid(bound)
  PROVE  FieldsBound(FinalizeFields(bound), written, direction)
<1> DEFINE final == FinalizeFields(bound)
<1>1. DOMAIN written = 1 .. Len(written) /\ Len(written) \in Nat
  OBVIOUS
<1>2. DOMAIN bound = 1 .. Len(written) /\ DOMAIN final = 1 .. Len(written)
  BY <1>1 DEF FinalizeFields
<1>3. ASSUME NEW i \in 1 .. Len(written)
      PROVE  /\ final[i].address = written[i][direction]
             /\ final[i].name = (IF "name" \in DOMAIN written[i] /\ written[i].name # "" THEN written[i].name
                                  ELSE Last(final[i].address))
             /\ final[i].name # ""
  <2>1. PICK name, address : /\ name = (IF "name" \in DOMAIN written[i] THEN written[i].name ELSE "")
                             /\ address = written[i][direction]
    OBVIOUS
  <2>2. bound[i] = [address |-> address, name |-> name]
    BY <1>1, <2>1, Zenon DEF BindField
  <2>3. final[i] = [address |-> address, name |-> IF name = "" THEN Last(address) ELSE name]
    BY <1>2, <2>2, FieldFinalized, Zenon DEF FinalizeFields
  <2>4. final[i].address = address /\ final[i].name = IF name = "" THEN Last(address) ELSE name
    <3>1. ASSUME NEW n, NEW r, r = [address |-> address, name |-> n] PROVE r.address = address /\ r.name = n
      BY <3>1
    <3> HIDE DEF final
    <3> QED
      BY <2>3, <3>1, Zenon
  <2>5. final[i].name # ""
    BY <1>2, Zenon DEF FieldsValid
  <2> HIDE DEF final
  <2> QED
    BY <2>1, <2>4, <2>5, Zenon
<1>4. ASSUME NEW i \in 1 .. Len(written), NEW j \in 1 .. Len(written), i # j
      PROVE  final[i].name # final[j].name
  BY <1>2, <1>4 DEF FieldsValid, IsInjective
<1>5. Len(final) = Len(written)
  BY <1>1, <1>2 DEF FinalizeFields
<1> QED
  BY <1>2, <1>3, <1>4, <1>5 DEF FieldsBound, NamesDiffer

\* A dataset with other fields.
LEMMA FieldsReplaced ==
  ASSUME NEW d, NEW fields, "fields" \in DOMAIN d, NEW r, r = [d EXCEPT !.fields = fields]
  PROVE  /\ r.fields = fields
         /\ DOMAIN r = DOMAIN d
         /\ "name" \in DOMAIN d => r.name = d.name
         /\ "writerGroupId" \in DOMAIN d => r.writerGroupId = d.writerGroupId
  OBVIOUS

\* Datasets of one direction as they are written, bound and finalized: nothing
\* but the fields changes.
DatasetsFollow(written, bound, final, direction) ==
  /\ DOMAIN bound = 1 .. Len(written) /\ DOMAIN final = 1 .. Len(written) /\ Len(final) = Len(written)
  /\ \A d \in 1 .. Len(written) :
       /\ final[d].name = bound[d].name
       /\ (/\ \A i \in DOMAIN written[d].fields : direction \in DOMAIN written[d].fields[i]
           /\ FieldsValid(bound[d].fields))
          => FieldsBound(final[d].fields, written[d].fields, direction)

GroupsFollow(bound, final) ==
  /\ DOMAIN final = DOMAIN bound
  /\ \A d \in DOMAIN bound : final[d].writerGroupId = bound[d].writerGroupId

\* Binding and finalizing the datasets of an entity.
LEMMA DatasetsSound ==
  ASSUME NEW V, NEW D, D = OutputDatasets(V) \/ D = InputDatasets(V), NEW written \in Seq(D),
         NEW direction \in {"source", "target"},
         NEW bound, bound = [i \in DOMAIN written |-> BindDataset(written[i], direction)],
         NEW final, final = [i \in DOMAIN bound |-> FinalizeDataset(bound[i])]
  PROVE  /\ DatasetsFollow(written, bound, final, direction)
         /\ D = OutputDatasets(V) => GroupsFollow(bound, final)
<1>1. DOMAIN written = 1 .. Len(written) /\ Len(written) \in Nat
  OBVIOUS
<1>2. DOMAIN bound = 1 .. Len(written) /\ DOMAIN final = 1 .. Len(written)
  BY <1>1
<1>3. Len(final) = Len(written)
  BY <1>1, <1>2
<1>4. ASSUME NEW d \in 1 .. Len(written)
      PROVE  /\ bound[d].name = written[d].name /\ final[d].name = written[d].name
             /\ D = OutputDatasets(V) => final[d].writerGroupId = bound[d].writerGroupId
             /\ bound[d].fields = [i \in DOMAIN written[d].fields |-> BindField(written[d].fields[i], direction)]
             /\ final[d].fields = FinalizeFields(bound[d].fields)
             /\ written[d].fields \in Seq(Fields(V))
  <2>1. written[d] \in D
    BY <1>1
  <2>2. /\ {"name", "fields"} \subseteq DOMAIN written[d] /\ written[d].fields \in Seq(Fields(V))
        /\ D = OutputDatasets(V) => "writerGroupId" \in DOMAIN written[d]
    <3>1. CASE D = OutputDatasets(V)
      BY <2>1, <3>1 DEF OutputDatasets
    <3>2. CASE D # OutputDatasets(V)
      BY <2>1, <3>2 DEF InputDatasets
    <3> QED
      BY <3>1, <3>2
  <2>3. bound[d] = BindDataset(written[d], direction) /\ final[d] = FinalizeDataset(bound[d])
    BY <1>1, <1>2, Zenon
  <2>4. /\ DOMAIN bound[d] = DOMAIN written[d] /\ bound[d].name = written[d].name
        /\ bound[d].fields = [i \in DOMAIN written[d].fields |-> BindField(written[d].fields[i], direction)]
    <3>1. PICK old, new, fields :
             /\ old = written[d] /\ new = bound[d]
             /\ fields = [i \in DOMAIN written[d].fields |-> BindField(written[d].fields[i], direction)]
      OBVIOUS
    <3>2. new = [old EXCEPT !.fields = fields]
      BY <2>3, <3>1, Zenon DEF BindDataset
    <3>3. DOMAIN new = DOMAIN old /\ new.name = old.name /\ new.fields = fields
      BY <2>2, <3>1, <3>2, FieldsReplaced, Zenon
    <3> QED
      BY <3>1, <3>3, Zenon
  <2>5. /\ final[d].fields = FinalizeFields(bound[d].fields) /\ final[d].name = bound[d].name
        /\ D = OutputDatasets(V) => final[d].writerGroupId = bound[d].writerGroupId
    <3>1. PICK old, new, fields : old = bound[d] /\ new = final[d] /\ fields = FinalizeFields(bound[d].fields)
      OBVIOUS
    <3>2. new = [old EXCEPT !.fields = fields]
      BY <2>3, <3>1, Zenon DEF FinalizeDataset
    <3>3. /\ new.name = old.name /\ new.fields = fields
          /\ D = OutputDatasets(V) => new.writerGroupId = old.writerGroupId
      BY <2>2, <2>4, <3>1, <3>2, FieldsReplaced, Zenon
    <3> QED
      BY <3>1, <3>3, Zenon
  <2> QED
    BY <2>2, <2>4, <2>5, Zenon
<1>5. ASSUME NEW d \in 1 .. Len(written),
             \A i \in DOMAIN written[d].fields : direction \in DOMAIN written[d].fields[i],
             FieldsValid(bound[d].fields)
      PROVE  FieldsBound(final[d].fields, written[d].fields, direction)
  <2>1. PICK before, after : before = bound[d].fields /\ after = written[d].fields
    OBVIOUS
  <2>2. after \in Seq(Fields(V)) /\ before = [i \in DOMAIN after |-> BindField(after[i], direction)]
    BY <1>4, <2>1, Zenon
  <2>3. FieldsBound(FinalizeFields(before), after, direction)
    BY <1>5, <2>1, <2>2, FieldsSound, Zenon
  <2> QED
    BY <1>4, <2>1, <2>3, Zenon
<1>6. DatasetsFollow(written, bound, final, direction)
  BY <1>2, <1>3, <1>4, <1>5, ZenonT(40) DEF DatasetsFollow
<1>7. D = OutputDatasets(V) => GroupsFollow(bound, final)
  BY <1>2, <1>4, Zenon DEF GroupsFollow
<1> QED
  BY <1>6, <1>7

\* An entity with other datasets.
LEMMA DatasetsReplaced ==
  ASSUME NEW entity, NEW outputs, NEW inputs, {"name", "outputs", "inputs"} \subseteq DOMAIN entity,
         NEW r, r = [entity EXCEPT !.outputs = outputs, !.inputs = inputs]
  PROVE  DOMAIN r = DOMAIN entity /\ r.name = entity.name /\ r.outputs = outputs /\ r.inputs = inputs
  OBVIOUS

\* One entity, as it is written, bound and finalized.
LEMMA EntitySound ==
  ASSUME NEW V, NEW written \in FunctionalEntities(V), DirectedEntity(written),
         NEW bound, bound = BindEntity(written), EntityValid(bound),
         NEW final, final = FinalizeEntity(bound)
  PROVE  /\ EntityBound(final, written) /\ final.name = bound.name
         /\ GroupsFollow(bound.outputs, final.outputs)
<1>1. /\ {"name", "outputs", "inputs"} \subseteq DOMAIN written
      /\ written.outputs \in Seq(OutputDatasets(V)) /\ written.inputs \in Seq(InputDatasets(V))
  BY DEF FunctionalEntities
<1>2. PICK outputs, inputs : /\ outputs = [i \in DOMAIN written.outputs |-> BindDataset(written.outputs[i], "source")]
                             /\ inputs = [i \in DOMAIN written.inputs |-> BindDataset(written.inputs[i], "target")]
  OBVIOUS
<1>3. DOMAIN bound = DOMAIN written /\ bound.name = written.name /\ bound.outputs = outputs /\ bound.inputs = inputs
  <2>1. bound = [written EXCEPT !.outputs = outputs, !.inputs = inputs]
    BY <1>2, Zenon DEF BindEntity
  <2> QED
    BY <1>1, <2>1, DatasetsReplaced, Zenon
<1>4. PICK outs, ins : /\ outs = [i \in DOMAIN outputs |-> FinalizeDataset(outputs[i])]
                       /\ ins = [i \in DOMAIN inputs |-> FinalizeDataset(inputs[i])]
  OBVIOUS
<1>5. final.name = bound.name /\ final.outputs = outs /\ final.inputs = ins
  <2>1. final = [bound EXCEPT !.outputs = outs, !.inputs = ins]
    BY <1>3, <1>4, Zenon DEF FinalizeEntity
  <2> QED
    BY <1>1, <1>3, <2>1, DatasetsReplaced, Zenon
<1>6. DatasetsFollow(written.outputs, outputs, outs, "source") /\ GroupsFollow(outputs, outs)
  <2>1. "source" \in {"source", "target"}
    OBVIOUS
  <2> QED
    BY <1>1, <1>2, <1>4, <2>1, DatasetsSound, Zenon
<1>7. DatasetsFollow(written.inputs, inputs, ins, "target")
  <2>1. "target" \in {"source", "target"}
    OBVIOUS
  <2> QED
    BY <1>1, <1>2, <1>4, <2>1, DatasetsSound, Zenon
<1>8. ASSUME NEW d \in 1 .. Len(written.outputs)
      PROVE  FieldsBound(outs[d].fields, written.outputs[d].fields, "source")
  <2>1. DOMAIN written.outputs = 1 .. Len(written.outputs)
    BY <1>1
  <2>2. FieldsValid(outputs[d].fields)
    BY <1>3, <1>6, Zenon DEF EntityValid, OutputValid, DatasetsFollow
  <2>3. \A i \in DOMAIN written.outputs[d].fields : "source" \in DOMAIN written.outputs[d].fields[i]
    BY <2>1, Zenon DEF DirectedEntity, Directed
  <2> QED
    BY <1>6, <2>2, <2>3, Zenon DEF DatasetsFollow
<1>9. ASSUME NEW d \in 1 .. Len(written.inputs)
      PROVE  FieldsBound(ins[d].fields, written.inputs[d].fields, "target")
  <2>1. DOMAIN written.inputs = 1 .. Len(written.inputs)
    BY <1>1
  <2>2. FieldsValid(inputs[d].fields)
    BY <1>3, <1>7, Zenon DEF EntityValid, DatasetsFollow
  <2>3. \A i \in DOMAIN written.inputs[d].fields : "target" \in DOMAIN written.inputs[d].fields[i]
    BY <2>1, Zenon DEF DirectedEntity, Directed
  <2> QED
    BY <1>7, <2>2, <2>3, Zenon DEF DatasetsFollow
<1>10. NamesDiffer(outs)
  <2>1. ASSUME NEW i \in DOMAIN outs, NEW j \in DOMAIN outs, i # j PROVE outputs[i].name # outputs[j].name
    BY <1>3, <1>6, <2>1 DEF EntityValid, NamesValid, IsInjective, DatasetsFollow
  <2> QED
    BY <1>6, <2>1, Zenon DEF NamesDiffer, DatasetsFollow
<1>11. NamesDiffer(ins)
  <2>1. ASSUME NEW i \in DOMAIN ins, NEW j \in DOMAIN ins, i # j PROVE inputs[i].name # inputs[j].name
    BY <1>3, <1>7, <2>1 DEF EntityValid, NamesValid, IsInjective, DatasetsFollow
  <2> QED
    BY <1>7, <2>1, Zenon DEF NamesDiffer, DatasetsFollow
<1>12. EntityBound(final, written)
  BY <1>5, <1>6, <1>7, <1>8, <1>9, <1>10, <1>11, Zenon DEF EntityBound, DatasetsFollow
<1> QED
  BY <1>3, <1>5, <1>6, <1>12, Zenon

\* configurationFromXsd and finalizeAndValidate. Whatever the <Fx> section says,
\* if it is accepted then the staged configuration is sound: a connection
\* manager's names mean one entity, dataset and field each, an output dataset
\* has a writer group of its own (which the Fx engine takes for granted when
\* it activates one), and every field is the one that was written.
THEOREM AcceptedSectionsSound ==
  ASSUME NEW V, NEW xsd \in Sections(V), FxFromXsd(xsd).ok
  PROVE  FxSound(FxFromXsd(xsd).configuration, xsd)
<1>1. PICK written : written = xsd.entities
  OBVIOUS
<1>2. "entities" \in DOMAIN xsd /\ written \in Seq(FunctionalEntities(V))
  BY <1>1 DEF Sections
<1>3. PICK bound : bound = [i \in DOMAIN written |-> BindEntity(written[i])]
  OBVIOUS
<1>4. PICK final : final = [i \in DOMAIN bound |-> FinalizeEntity(bound[i])]
  OBVIOUS
<1>5. PICK b : b = [xsd EXCEPT !.entities = bound]
  OBVIOUS
<1>6. DOMAIN b = DOMAIN xsd /\ b.entities = bound
  BY <1>2, <1>5
<1>7. /\ \A i \in DOMAIN written : DirectedEntity(written[i])
      /\ Valid(b) /\ FxFromXsd(xsd).configuration = [b EXCEPT !.entities = final]
  <2>1. \A x : Accepted(x).ok /\ Accepted(x).configuration = x
    BY DEF Accepted
  <2>2. ~Refusal.ok
    BY DEF Refusal
  <2>3. /\ \A i \in DOMAIN written : DirectedEntity(written[i])
        /\ FxFromXsd(xsd) = FinalizeAndValidate(b)
    BY <1>1, <1>3, <1>5, <2>2, Zenon DEF FxFromXsd
  <2>4. Valid(b) /\ FxFromXsd(xsd) = Accepted([b EXCEPT !.entities = final])
    BY <1>4, <1>6, <2>2, <2>3, Zenon DEF FinalizeAndValidate
  <2> QED
    BY <2>1, <2>3, <2>4, Zenon
<1>8. PICK c : c = FxFromXsd(xsd).configuration
  OBVIOUS
<1>9. c.entities = final
  BY <1>2, <1>6, <1>7, <1>8
<1>10. /\ DOMAIN written = 1 .. Len(written) /\ DOMAIN bound = 1 .. Len(written) /\ DOMAIN final = 1 .. Len(written)
       /\ Len(written) \in Nat /\ Len(final) = Len(written)
  BY <1>2, <1>3, <1>4
<1>11. ASSUME NEW i \in 1 .. Len(written)
       PROVE  /\ EntityBound(final[i], written[i]) /\ final[i].name = bound[i].name
              /\ GroupsFollow(bound[i].outputs, final[i].outputs)
  <2>1. written[i] \in FunctionalEntities(V)
    BY <1>2, <1>10
  <2>2. EntityValid(bound[i])
    BY <1>6, <1>7, <1>10, Zenon DEF Valid
  <2>3. bound[i] = BindEntity(written[i]) /\ final[i] = FinalizeEntity(bound[i]) /\ DirectedEntity(written[i])
    BY <1>3, <1>4, <1>7, <1>10, Zenon
  <2> QED
    BY <2>1, <2>2, <2>3, EntitySound, Zenon
<1>12. NamesDiffer(final)
  <2>1. ASSUME NEW i \in 1 .. Len(written), NEW j \in 1 .. Len(written), i # j PROVE bound[i].name # bound[j].name
    BY <1>6, <1>7, <1>10, <2>1 DEF Valid, NamesValid, IsInjective
  <2> QED
    BY <1>10, <1>11, <2>1, Zenon DEF NamesDiffer
<1>13. ASSUME NEW o \in OutputsOf(c), NEW p \in OutputsOf(c), o # p PROVE GroupOf(c, o) # GroupOf(c, p)
  <2>1. PICK i \in 1 .. Len(written) : \E d \in DOMAIN final[i].outputs : o = <<i, d>>
    BY <1>9, <1>10 DEF OutputsOf
  <2>2. PICK j \in 1 .. Len(written) : \E e \in DOMAIN final[j].outputs : p = <<j, e>>
    BY <1>9, <1>10 DEF OutputsOf
  <2>3. PICK d \in DOMAIN final[i].outputs, e \in DOMAIN final[j].outputs : o = <<i, d>> /\ p = <<j, e>>
    BY <2>1, <2>2
  <2>4. ~(i = j /\ d = e)
    BY <1>13, <2>3, Zenon
  <2>5. bound[i].outputs[d].writerGroupId # bound[j].outputs[e].writerGroupId
    <3>1. d \in DOMAIN bound[i].outputs /\ e \in DOMAIN bound[j].outputs
      BY <1>11, Zenon DEF GroupsFollow
    <3>2. WriterGroupIdsUnique(bound)
      BY <1>6, <1>7, Zenon DEF Valid
    <3>3. i \in DOMAIN bound /\ j \in DOMAIN bound
      BY <1>10
    <3> QED
      BY <2>4, <3>1, <3>2, <3>3, SMTT(30) DEF WriterGroupIdsUnique
  <2>6. /\ GroupOf(c, o) = final[i].outputs[d].writerGroupId
        /\ GroupOf(c, p) = final[j].outputs[e].writerGroupId
    BY <1>9, <2>3 DEF GroupOf
  <2> QED
    BY <1>11, <2>5, <2>6, Zenon DEF GroupsFollow
<1>14. FxSound(c, xsd)
  BY <1>1, <1>9, <1>10, <1>11, <1>12, <1>13, Zenon DEF FxSound
<1> QED
  BY <1>8, <1>14
=============================================================================
