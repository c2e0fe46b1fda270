----------------------------- MODULE Documents -----------------------------
(***************************************************************************)
(* What the server reads and what it makes of it: datagrams, the JSON of   *)
(* the connection services, ServerConfig.xml, the <PubSub> and <Fx>        *)
(* sections, and the formulas of calculated variables; and what it         *)
(* publishes.                                                              *)
(*                                                                         *)
(* Each is an action that takes an input of a bounded set, applies the     *)
(* operators the codec's module translates from the code, and keeps input  *)
(* and outcome; the properties compare the outcome with a definition of    *)
(* its own of what the input means.                                        *)
(***************************************************************************)
EXTENDS Integers, Sequences, FiniteSets, FiniteSetsExt, SequencesExt

CONSTANTS
  WireMessages, ForeignHeaders, Publications,   \* datagrams
  JsonValues, JsonEdits, MaxDepth, MaxInputBytes, NumberValue,
  ServerConfigs, Disks, NumberOf, PlaceholderOf, PortTexts,
  FxSections, PubSubSections,
  FormulaTemplates, MaxRounds, FormulaTrees, Valuations, Prime

VARIABLE document

Wire == INSTANCE PubSubWire
Values == INSTANCE PubSubValues
Json == INSTANCE FxJson
Xml == INSTANCE ServerConfigXml
Cfg == INSTANCE Configurations
Elab == INSTANCE FormulaElaboration
Mu == INSTANCE MuParser

Nothing == [kind |-> "nothing"]

-----------------------------------------------------------------------------
(* Datagrams.  Another publisher may add headers that this one never       *)
(* writes: ForeignEncoding is the encoding of such a message, built from   *)
(* the layout of OPC 10000-14 and not from the encoder.                    *)

Zeros(n) == [i \in 1 .. n |-> 0]
Extra(h, headers, n) == IF h \in headers THEN Zeros(n) ELSE <<>>
BitOf(h, headers, bit) == IF h \in headers THEN bit ELSE 0

\* A field as a DataValue with status, timestamps and picoseconds.
ForeignField(v, headers) ==
  IF "dataValues" \in headers THEN <<63>> \o Wire!EncodeVariant(v) \o Zeros(24)
                              ELSE Wire!EncodeVariant(v)

ForeignMessage(m, headers) ==
  LET second == headers \cap {"dataSetTimestamp", "dataSetPicoSeconds"} # {}
  IN  <<1 + BitOf("dataValues", headers, 4) + Wire!Flag(second, 128)
          + Wire!Flag(m.sequenceNumberEnabled, 8)
          + BitOf("dataSetStatus", headers, 16) + BitOf("dataSetVersion", headers, 96)>>
      \o (IF second THEN <<BitOf("dataSetTimestamp", headers, 16)
                           + BitOf("dataSetPicoSeconds", headers, 32)>> ELSE <<>>)
      \o (IF m.sequenceNumberEnabled THEN Wire!PutU16(m.sequenceNumber) ELSE <<>>)
      \o Extra("dataSetTimestamp", headers, 8) \o Extra("dataSetPicoSeconds", headers, 2)
      \o Extra("dataSetStatus", headers, 2) \o Extra("dataSetVersion", headers, 8)
      \o Wire!PutU16(Len(m.fields))
      \o FlattenSeq([i \in DOMAIN m.fields |-> ForeignField(m.fields[i], headers)])

ForeignEncoding(m, headers) ==
  LET bodies == [i \in DOMAIN m.messages |-> ForeignMessage(m.messages[i], headers)]
      group == headers \cap {"groupVersion", "networkMessageNumber"}
  IN  <<1 + 16 + 32 + 64 + 128,
        m.publisherIdType + BitOf("dataSetClassId", headers, 8) + BitOf("timestamp", headers, 32)
          + BitOf("picoSeconds", headers, 64) + BitOf("promotedFields", headers, 128)>>
      \o (IF "promotedFields" \in headers THEN <<2>> ELSE <<>>)
      \o SubSeq(m.publisherId, 1, Wire!PublisherIdWidth[m.publisherIdType + 1])
      \o Extra("dataSetClassId", headers, 16)
      \o <<Wire!Flag(m.writerGroupIdEnabled, 1) + BitOf("groupVersion", headers, 2)
           + BitOf("networkMessageNumber", headers, 4) + Wire!Flag(m.groupSequenceNumberEnabled, 8)>>
      \o (IF m.writerGroupIdEnabled THEN Wire!PutU16(m.writerGroupId) ELSE <<>>)
      \o Extra("groupVersion", headers, 4) \o Extra("networkMessageNumber", headers, 2)
      \o (IF m.groupSequenceNumberEnabled THEN Wire!PutU16(m.groupSequenceNumber) ELSE <<>>)
      \o <<Len(m.messages)>>
      \o FlattenSeq([i \in DOMAIN m.messages |-> Wire!PutU16(m.messages[i].dataSetWriterId)])
      \o Extra("timestamp", headers, 8) \o Extra("picoSeconds", headers, 2)
      \o (IF "promotedFields" \in headers THEN <<3, 0, 9, 9, 9>> ELSE <<>>)
      \o (IF Len(bodies) > 1 THEN FlattenSeq([i \in DOMAIN bodies |-> Wire!PutU16(Len(bodies[i]))])
                             ELSE <<>>)
      \o FlattenSeq(bodies)

\* A datagram of this server, or of another one with more headers.
ReceiveDatagram ==
  /\ document = Nothing
  /\ \E m \in WireMessages, headers \in ForeignHeaders \cup {{}} :
       LET bytes == IF headers = {} THEN Wire!EncodeNetworkMessage(m)
                                    ELSE ForeignEncoding(m, headers)
       IN  /\ Wire!Encodable(m)
           /\ document' = [kind |-> "datagram", message |-> m, bytes |-> bytes,
                           decoded |-> Wire!DecodeNetworkMessage(bytes)]

\* A writer group publishes, and a reader of another server takes what is for it.
PublishVariables ==
  /\ document = Nothing
  /\ \E p \in Publications :
       document' = [kind |-> "publication", group |-> p.group, reader |-> p.reader,
                    targets |-> Values!HandleDatagram(
                      Wire!EncodeNetworkMessage(Values!PublishGroup(p.group)), p.reader)]

\* "Boolean, Byte, Int16, UInt16, Int32, UInt32, Int64, UInt64, Float, Double
\* and String scalars, and one-dimensional arrays of the same types", also
\* of SByte (Documentation/source/PubSub.rst:267-269, :303).
Carried(v) ==
  v.type \in {1, 3, 4, 5, 6, 7, 8, 9, 10, 11, 12} \/ (v.isArray /\ v.type = 2)

\* What a target holds after the values of a dataset were sent to it.
Arrived(values, targets) ==
  [t \in DOMAIN targets |-> IF t <= Len(values) /\ Carried(values[t]) THEN values[t] ELSE targets[t]]

\* Every message comes out of its datagram as it went in, whatever optional
\* headers stand around its parts, and no datagram that lost its end is
\* taken for a message; and every value of an address space that can be
\* carried arrives in the target of its place, with its type, among values
\* that cannot, while a target whose value cannot, or whose reader waits for
\* another dataset, is left alone (PubSubWire.cpp, encodeNetworkMessage
\* against decodeNetworkMessage; PubSubEngine.cpp, uaVariantToWire against
\* wireToUaVariant).
WireFaithful ==
  /\ document.kind = "datagram" =>
       /\ document.decoded = [ok |-> TRUE, message |-> document.message]
       /\ \A n \in 0 .. Len(document.bytes) - 1 :
            ~Wire!DecodeNetworkMessage(SubSeq(document.bytes, 1, n)).ok
  /\ document.kind = "publication" =>
       LET g == document.group
           r == document.reader
           mine == {w \in DOMAIN g.writers : r.key = <<g.publisherId, g.id, g.writers[w].id>>}
       IN  IF mine = {} THEN document.targets = r.targets
           ELSE \A w \in mine : document.targets = Arrived(g.writers[w].values, r.targets)

-----------------------------------------------------------------------------
(* The arguments of the connection services.  Reading is the meaning of a  *)
(* token sequence by the grammar: what stands between two brackets, cut at *)
(* the commas that no inner bracket encloses.  It is a set: no value, or   *)
(* one.                                                                    *)

Nesting(tokens, i) ==
  Cardinality({j \in 1 .. i : tokens[j].token = "{"})
  - Cardinality({j \in 1 .. i : tokens[j].token = "}"})

Separators(tokens) ==
  SetToSortSeq({i \in DOMAIN tokens : tokens[i].token = "," /\ Nesting(tokens, i) = 0}, <)

\* The parts of a list of members, as the pairs of their first and last token.
Parts(tokens) ==
  LET cuts == <<0>> \o Separators(tokens) \o <<Len(tokens) + 1>>
  IN  [k \in 1 .. Len(cuts) - 1 |-> SubSeq(tokens, cuts[k] + 1, cuts[k + 1] - 1)]

\* No control character as it is, no letter JSON does not know, no half of a pair.
WellFormed(t) ==
  \A i \in DOMAIN t.pieces :
    LET p == t.pieces[i]
    IN  CASE p.piece = "raw" -> p.byte \notin 0 .. 31
          [] p.piece = "escape" -> p.letter \in {"quote", "backslash", "slash", "b", "f", "n", "r", "t"}
          [] p.piece = "unicode" -> p.codePoint < 55296 \/ p.codePoint > 57343

\* An integer without a leading zero, then a fraction, then an exponent, all
\* of at most two digits.
DigitTexts == {<<d>> : d \in Json!Digits} \cup {<<d, e>> : d \in Json!Digits, e \in Json!Digits}
NumberTexts ==
  LET signs == {<<>>, <<"-">>}
      integers == {<<"0">>} \cup {t \in DigitTexts : t[1] # "0"}
      fractions == {<<>>} \cup {<<".">> \o t : t \in DigitTexts}
      exponents == {<<>>} \cup {<<"e">> \o s \o t : s \in {<<>>, <<"+">>, <<"-">>}, t \in DigitTexts}
  IN  {s \o i \o f \o e : s \in signs, i \in integers, f \in fractions, e \in exponents}

Scalar(t) ==
  CASE t.token = "string" -> IF WellFormed(t) THEN {Json!String(Json!StringBytes(t))} ELSE {}
    [] t.token = "number" -> IF t.text \in NumberTexts /\ t.text \in DOMAIN NumberValue
                             THEN {Json!Number(NumberValue[t.text])} ELSE {}
    [] t.token = "literal" -> {IF t.text = "null" THEN Json!Null ELSE Json!Boolean(t.text = "true")}
    [] t.token \notin {"string", "number", "literal"} -> {}

RECURSIVE Reading(_, _)

\* A member: its name, a colon and the meaning of the rest.
MemberReading(part, depth) ==
  IF Len(part) >= 3 /\ part[1].token = "string" /\ part[2].token = ":"
     /\ WellFormed(part[1])
  THEN {[name |-> Json!StringBytes(part[1]), value |-> v] : v \in Reading(SubSeq(part, 3, Len(part)), depth)}
  ELSE {}

ObjectReading(inner, depth) ==
  LET parts == IF inner = <<>> THEN <<>> ELSE Parts(inner)
      members == UNION {MemberReading(parts[i], depth + 1) : i \in DOMAIN parts}
      names == {m.name : m \in members}
  IN  IF Cardinality(names) = Len(parts) /\ depth <= MaxDepth
      THEN {Json!Object([n \in names |-> (CHOOSE m \in members : m.name = n).value])}
      ELSE {}

Reading(tokens, depth) ==
  IF Len(tokens) = 1 THEN Scalar(tokens[1])
  ELSE IF Len(tokens) >= 2 /\ Head(tokens).token = "{" /\ Last(tokens).token = "}"
  THEN ObjectReading(SubSeq(tokens, 2, Len(tokens) - 1), depth)
  ELSE {}

\* What the services write, or a text that differs from it in one place.
ParseArgument ==
  /\ document = Nothing
  /\ \E v \in JsonValues :
       LET written == Json!SerializeValue(v)
       IN  \E text \in {written} \cup {ReplaceAt(written, i, t) : i \in DOMAIN written, t \in JsonEdits}
                       \cup {RemoveAt(written, i) : i \in DOMAIN written}
                       \cup {InsertAt(written, i, t) : i \in DOMAIN written, t \in JsonEdits} :
             document' = [kind |-> "argument", value |-> v, written |-> written, text |-> text,
                          parsed |-> Json!ParseJsonObject(text)]

\* "A connection request that this parser accepts has exactly one meaning"
\* (FxJson.h:39-40): it accepts the texts the grammar gives a meaning to,
\* with every name of an object different from the others however it is
\* escaped, and returns that meaning; what serialize wrote it reads back.
JsonOneMeaning ==
  document.kind = "argument" =>
    LET meaning == {v \in Reading(document.text, 1) :
                      v.kind = "object" /\ Json!InputBytes(document.text) <= MaxInputBytes}
    IN  /\ document.parsed.ok <=> meaning # {}
        /\ document.parsed.ok => meaning = {document.parsed.value}
        /\ document.text = document.written /\ document.parsed.ok => document.parsed.value = document.value

-----------------------------------------------------------------------------
(* ServerConfig.xml. *)

LoadServerConfig ==
  /\ document = Nothing
  /\ \E doc \in ServerConfigs, disk \in Disks :
       document' = [kind |-> "serverConfig", doc |-> doc, disk |-> disk,
                    loaded |-> Xml!LoadConfiguration(doc, disk)]

PairOf(e) == {e.Store.ServerCertificate, e.Store.ServerPrivateKey}

\* An endpoint that can be served: with its certificate and key in order, or
\* with one of them missing and leave to create them where they belong, and
\* with lists that can be read.
Servable(e, disk) ==
  /\ "Url" \in DOMAIN e /\ Xml!StoreComplete(e) /\ Xml!SerializerKnown(e)
  /\ \A t \in Xml!StoreTags : e.Store[t] \in DOMAIN disk => disk[e.Store[t]] # "denied"
  /\ IF PairOf(e) \subseteq DOMAIN disk THEN \A f \in PairOf(e) : disk[f] = "good"
                                        ELSE Xml!GenerateCertificate(e.Store)
  /\ "Security" \in DOMAIN e => \A i \in DOMAIN e.Security : Xml!SecuritySettingValid(e.Security[i])

\* A file all of whose endpoints can be served gives one endpoint for each,
\* in order, secured as written, with a certificate and key that are on the
\* disk and can be loaded - also when two endpoints share a store - and a
\* pair that was there is never written over (serverconfigxml.cpp,
\* loadConfiguration and setXmlConfig).
LoadedAsWritten ==
  document.kind = "serverConfig" =>
    LET doc == document.doc
        loaded == document.loaded
        served == /\ doc.readable /\ doc.rooted /\ doc.endpoints # <<>>
                  /\ \A i \in DOMAIN doc.endpoints : Servable(doc.endpoints[i], document.disk)
    IN  /\ served =>
             /\ loaded.status = "Good" /\ Len(loaded.endpoints) = Len(doc.endpoints)
             /\ \A i \in DOMAIN doc.endpoints :
                  LET e == doc.endpoints[i]
                      l == loaded.endpoints[i]
                  IN  /\ l.certificate = e.Store.ServerCertificate /\ l.key = e.Store.ServerPrivateKey
                      /\ l.years <= 20
                      /\ l.security = IF "Security" \in DOMAIN e THEN e.Security
                                      ELSE <<Xml!DefaultSecuritySetting>>
                      /\ \A f \in PairOf(e) : loaded.disk[f] = "good"
        /\ \A f \in DOMAIN document.disk :
             f \in DOMAIN loaded.disk
             /\ \/ loaded.disk[f] = document.disk[f]
                \/ \E i \in DOMAIN doc.endpoints :
                     /\ Xml!StoreComplete(doc.endpoints[i]) /\ f \in PairOf(doc.endpoints[i])
                     /\ \E g \in PairOf(doc.endpoints[i]) :
                          g \in DOMAIN document.disk => document.disk[g] = "denied"

\* The endpoints of the file are "the OPC UA communication endpoints for the
\* server" (ServerConfig.xml:109-111): when the file is loaded, every
\* endpoint that can be served is in the SDK's array, and nothing else is.
EndpointsServed ==
  document.kind = "serverConfig" /\ document.loaded.status = "Good" =>
    /\ \A i \in DOMAIN document.loaded.endpoints : document.loaded.endpoints[i] # Xml!NoEndpoint
    /\ Len(document.loaded.endpoints)
         = Cardinality({i \in DOMAIN document.doc.endpoints :
                          Servable(document.doc.endpoints[i], document.disk)})

-----------------------------------------------------------------------------
(* The <Fx> and <PubSub> sections. *)

ConfigureFx ==
  /\ document = Nothing
  /\ \E section \in FxSections :
       document' = [kind |-> "fx", section |-> section, result |-> Cfg!FxFromXsd(section)]

ConfigurePubSub ==
  /\ document = Nothing
  /\ \E section \in PubSubSections :
       document' = [kind |-> "pubsub", section |-> section, result |-> Cfg!PubSubFromXsd(section)]

\* The largest id of a magnitude, as the eight bytes the encoder cuts.
LargestId(magnitude) ==
  LET ones == <<1, 2, 4, 6, 8>>[magnitude] IN [i \in 1 .. 8 |-> IF i <= ones THEN 255 ELSE 0]

TypeIndex == [Byte |-> 0, UInt16 |-> 1, UInt32 |-> 2, UInt64 |-> 3]

\* The id as a receiver of this component's datagrams sees it.
IdOnTheWire(c) ==
  Wire!DecodeNetworkMessage(Wire!EncodeNetworkMessage(
    [publisherIdType |-> TypeIndex[c.publisherIdType], publisherId |-> LargestId(c.publisherId),
     writerGroupIdEnabled |-> FALSE, writerGroupId |-> 0, groupSequenceNumberEnabled |-> FALSE,
     groupSequenceNumber |-> 0,
     messages |-> <<[dataSetWriterId |-> 1, sequenceNumberEnabled |-> FALSE, sequenceNumber |-> 0,
                     keepAlive |-> FALSE, fields |-> <<>>]>>])).message.publisherId

\* The intervals that Engine::scheduleGroup can wait for: positive, and as
\* microseconds a long long.
Schedulable == {"toADay", "overADay"}

\* An <Fx> section that is accepted can be staged: no two entities, no two
\* datasets of an entity and no two fields of a dataset have one name after
\* the defaults are in, no two output datasets of the component publish in
\* one writer group, the publisher id is the one receivers see and the one
\* JSON carries, and every interval is one the scheduler's cast is defined
\* for (FxConfiguration.cpp, finalizeAndValidate).
AcceptedFxSound ==
  document.kind = "fx" /\ document.result.ok =>
    LET c == document.result.configuration
    IN  /\ Cfg!FxSound(c, document.section)
        /\ IdOnTheWire(c) = LargestId(c.publisherId) /\ c.publisherId <= Cfg!TwoTo53
        /\ \A i \in DOMAIN c.entities : \A d \in DOMAIN c.entities[i].outputs :
             c.entities[i].outputs[d].publishingIntervalMs \in Schedulable

\* What an address says: a host, a colon, digits that stand for a port, and
\* nothing but slashes after them.  No pair, or one.
PortsOf(digits) ==
  LET first == SelectInSeq(digits, LAMBDA c : c # 48)
      worth(i) == (digits[i] - 48) * 10 ^ (Len(digits) - i)
  IN  IF ToSet(digits) \subseteq 48 .. 57 /\ first # 0 /\ Len(digits) - first < 5
      THEN {MapThenSumSet(worth, first .. Len(digits))} \cap 1 .. 65535
      ELSE {}

\* The first h characters are the host and the last before the slashes d digits.
HostThenPort(rest, h, d) ==
  /\ h + 1 + d <= Len(rest) /\ rest[h + 1] = 58
  /\ \A i \in h + 2 + d .. Len(rest) : rest[i] = 47

AddressReading(a) ==
  UNION {IF a.scheme = "opc.udp" /\ HostThenPort(a.rest, h, d)
         THEN {[host |-> SubSeq(a.rest, 1, h), port |-> p] : p \in PortsOf(SubSeq(a.rest, h + 2, h + 1 + d))}
         ELSE {} : h \in DOMAIN a.rest, d \in DOMAIN a.rest}

\* "h:1"
PlainAddress == [scheme |-> "opc.udp", rest |-> <<104, 58, 49>>]

\* A <PubSub> section whose addresses all name a host and a port from 1 to
\* 65535 is staged with exactly those hosts and ports, whatever stands
\* before the last colon and however many zeros and slashes are written, and
\* is refused only if it is with any other addresses too; one with an
\* address that does not is refused (PubSubConfiguration.cpp,
\* parseNetworkAddress).
NetworkAddressesRead ==
  document.kind = "pubsub" =>
    LET s == document.section
        readable == \A i \in DOMAIN s.connections : AddressReading(s.connections[i].address) # {}
        plain == [s EXCEPT !.connections =
                    [i \in DOMAIN s.connections |-> [s.connections[i] EXCEPT !.address = PlainAddress]]]
    IN  /\ document.result.ok <=> readable /\ Cfg!PubSubFromXsd(plain).ok
        /\ document.result.ok =>
             \A i \in DOMAIN s.connections :
               AddressReading(s.connections[i].address) = {document.result.configuration.connections[i].address}

-----------------------------------------------------------------------------
(* Formulas as they are configured.  The meaning of one is the text with   *)
(* the addresses in place of the meta functions, where a dash or slash of  *)
(* an address, or an escaped one, is part of a name.                       *)

ElaborateFormula ==
  /\ document = Nothing
  /\ \E t \in FormulaTemplates :
       /\ Elab!GenericsAccepted(t.declared)
       /\ document' = [kind |-> "template", template |-> t,
                       result |-> Elab!ElaborateFormula(t.formula, t.address,
                                                        Elab!LoadGenericFormulas(t.declared))]

Named(text) == [i \in DOMAIN text |-> [c |-> text[i], inName |-> TRUE]]

\* The address without its last n components.
Ancestors(address, n) ==
  {SubSeq(address, 1, k) : k \in {k \in 0 .. Len(address) :
     /\ Cardinality({i \in k + 1 .. Len(address) : address[i] = "."}) = n
     /\ k < Len(address) => address[k + 1] = "."}}

RECURSIVE MeaningOf(_, _, _, _)

PieceMeaning(p, t, depth) ==
  CASE p.piece = "char" -> {<<[c |-> p.c, inName |-> p.c \notin Elab!Special]>>}
    [] p.piece = "escaped" -> {Named(<<p.c>>)}
    [] p.piece = "dollar" /\ p.operation \in {"_", "thisObjectAddress"} ->
         IF p.argument = Elab!NoArgument THEN {Named(t.address)} ELSE {}
    [] p.piece = "dollar" /\ p.operation = "parentObjectAddress" ->
         IF p.argument.argument = "numLevelsUp" THEN {Named(a) : a \in Ancestors(t.address, p.argument.n)} ELSE {}
    [] p.piece = "dollar" /\ p.operation = "applyGenericFormula" ->
         IF p.argument.argument # "formula" \/ depth = 0 THEN {}
         ELSE UNION {MeaningOf(d.formula, t, depth - 1, 1) :
                       d \in {x \in ToSet(t.declared) : x.name = p.argument.id}}
    [] p.piece = "dollar" /\ p.operation \notin {"_", "thisObjectAddress", "parentObjectAddress",
                                                "applyGenericFormula"} -> {}

\* From piece i on; a chain of generic formulas no longer than there are formulas.
MeaningOf(formula, t, depth, i) ==
  IF i > Len(formula) THEN {<<>>}
  ELSE {m \o rest : m \in PieceMeaning(formula[i], t, depth), rest \in MeaningOf(formula, t, depth, i + 1)}

-----------------------------------------------------------------------------
(* Formulas.  A tree is written with the brackets it needs by the usual    *)
(* precedences, and means what its tree means.                             *)

Level(tree) ==
  CASE tree.op = "ASSIGN" -> -1
    [] tree.op = "IF" -> 0
    [] tree.op = "LOR" -> 1
    [] tree.op = "LAND" -> 2
    [] tree.op \in Mu!Comparisons -> 3
    [] tree.op \in {"ADD", "SUB"} -> 4
    [] tree.op \in {"MUL", "DIV"} -> 5
    [] tree.op = "NEG" -> 6
    [] tree.op = "POW" -> 7
    [] tree.op \in {"VAR", "VAL", "CALL"} -> 8

Lexeme(code) == [code |-> code]

RECURSIVE Written(_, _)

WrittenPlainly(tree) ==
  CASE tree.op = "VAR" -> <<[code |-> "VAR", var |-> tree.var]>>
    [] tree.op = "VAL" -> <<[code |-> "VAL", value |-> tree.value]>>
    [] tree.op = "NEG" -> <<Lexeme("SUB")>> \o Written(tree.a, 7)
    [] tree.op = "IF" -> Written(tree.c, 1) \o <<Lexeme("IF")>> \o Written(tree.a, 0)
                         \o <<Lexeme("ELSE")>> \o Written(tree.b, 0)
    [] tree.op = "ASSIGN" -> Written(tree.a, 8) \o <<Lexeme("ASSIGN")>> \o Written(tree.b, 0)
    [] tree.op = "CALL" ->
         <<[code |-> "FUNC", fun |-> tree.fun], Lexeme("BO")>>
         \o FlattenSeq([i \in DOMAIN tree.arguments |->
              (IF i > 1 THEN <<Lexeme("ARG_SEP")>> ELSE <<>>) \o Written(tree.arguments[i], 0)])
         \o <<Lexeme("BC")>>
    [] tree.op \in Mu!Operators ->
         LET right == tree.op = "POW"
         IN  Written(tree.a, IF right THEN Level(tree) + 1 ELSE Level(tree)) \o <<Lexeme(tree.op)>>
             \o Written(tree.b, IF right \/ tree.b.op = "NEG" THEN 6 ELSE Level(tree) + 1)

Written(tree, level) ==
  IF Level(tree) >= level THEN WrittenPlainly(tree)
  ELSE <<Lexeme("BO")>> \o WrittenPlainly(tree) \o <<Lexeme("BC")>>

RECURSIVE Means(_, _)

Means(tree, vars) ==
  CASE tree.op = "VAR" -> vars[tree.var]
    [] tree.op = "VAL" -> tree.value
    [] tree.op = "NEG" -> (0 - Means(tree.a, vars)) % Prime
    [] tree.op = "IF" -> IF Means(tree.c, vars) # 0 THEN Means(tree.a, vars) ELSE Means(tree.b, vars)
    [] tree.op = "ASSIGN" -> Means(tree.b, vars)
    [] tree.op = "CALL" -> Mu!CallFunction(tree.fun, [i \in DOMAIN tree.arguments |->
                                                        Means(tree.arguments[i], vars)])
    [] tree.op \in Mu!Operators -> Mu!Calculate(tree.op, Means(tree.a, vars), Means(tree.b, vars))

\* CalculatedVariable::initializeParser compiles the formula; from then on
\* every update evaluates the code.
CompileFormula ==
  /\ document = Nothing
  /\ \E tree \in FormulaTrees :
       document' = [kind |-> "formula", tree |-> tree, program |-> Mu!CreateRPN(Written(tree, -1))]

\* A configured formula becomes the text it means, in which every variable
\* has the name it is registered under; only one without a meaning, or with
\* a generic formula that applies itself, is refused or expanded for ever
\* (CalculatedVariablesEngine.cpp, elaborateFormula).  Every
\* formula compiles, and the code the optimizer leaves evaluates, for every
\* value of its variables, to what the formula means by the usual
\* precedences, within the stack that was reserved for it (muParser.cpp,
\* CreateRPN, AddOp and ParseCmdCode).
FormulaMeansWhatItSays ==
  /\ document.kind = "template" =>
       LET t == document.template
           meaning == MeaningOf(t.formula, t, Len(t.declared), 1)
       IN  IF document.result.outcome = "formula"
           THEN \E m \in meaning :
                  document.result.formula =
                    [i \in DOMAIN m |-> IF m[i].inName THEN Elab!EscapeName(<<m[i].c>>)[1] ELSE m[i].c]
           ELSE meaning = {}
  /\ document.kind = "formula" =>
       /\ document.program.ok
       /\ \A vars \in Valuations :
            LET run == Mu!ParseCmdCode(document.program, vars)
            IN  run.fits /\ run.value = Means(document.tree, vars)

-----------------------------------------------------------------------------
Handle ==
  \/ ReceiveDatagram
  \/ PublishVariables
  \/ ParseArgument
  \/ LoadServerConfig
  \/ ConfigureFx
  \/ ConfigurePubSub
  \/ ElaborateFormula
  \/ CompileFormula
=============================================================================
