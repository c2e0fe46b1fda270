------------------------------ MODULE MCServer ------------------------------
(***************************************************************************)
(* Instances for TLC of ServerLifecycle and of Documents.  A behaviour is  *)
(* either the life of a server, or one document that is read before it;    *)
(* the two parts share no state.                                           *)
(***************************************************************************)
EXTENDS ServerLifecycle, Documents

CONSTANTS r1, r2, s1

MCInit == Init /\ document = Nothing

MCNext ==
  \/ Next /\ document = Nothing /\ UNCHANGED document
  \/ pc = "parse" /\ backend = "UATOOLKIT" /\ Handle /\ UNCHANGED vars

\* Fairness is that of the life cycle.
MCSpec == MCInit /\ [][MCNext]_<<vars, document>> /\ Fairness

-----------------------------------------------------------------------------
(* Datagrams. *)

Eight(low, fill) == low \o [i \in 1 .. 8 - Len(low) |-> fill]

\* Every scalar type at an edge of its range, strings, and arrays.
MCFields ==
  {Wire!WireScalar(0, <<>>), Wire!WireScalar(1, Eight(<<1>>, 0)), Wire!WireScalar(2, Eight(<<128>>, 255)),
   Wire!WireScalar(3, Eight(<<255>>, 0)), Wire!WireScalar(4, Eight(<<0, 128>>, 255)),
   Wire!WireScalar(5, Eight(<<255, 255>>, 0)), Wire!WireScalar(6, Eight(<<0, 0, 0, 128>>, 255)),
   Wire!WireScalar(7, Eight(<<255, 255, 255, 255>>, 0)), Wire!WireScalar(8, Eight(<<1>>, 255)),
   Wire!WireScalar(9, Eight(<<255>>, 255)), Wire!WireScalar(10, <<0, 0, 192, 127>>),
   Wire!WireScalar(11, Eight(<<1>>, 0)), Wire!WireScalar(12, <<>>), Wire!WireScalar(12, <<104, 0>>),
   Wire!WireScalar(13, Eight(<<7>>, 0)),
   Wire!WireArray(6, <<>>), Wire!WireArray(2, <<Wire!WireScalar(2, Eight(<<255>>, 255))>>),
   Wire!WireArray(12, <<Wire!WireScalar(12, <<>>), Wire!WireScalar(12, <<65>>)>>),
   Wire!WireArray(3, <<Wire!WireScalar(3, Eight(<<1>>, 0)), Wire!WireScalar(5, Eight(<<1>>, 0))>>),
   Wire!WireArray(3, <<Wire!WireArray(3, <<>>)>>), Wire!WireScalar(15, <<>>)}

MCDataSets ==
  {[dataSetWriterId |-> 258, sequenceNumberEnabled |-> n >= 0, sequenceNumber |-> IF n >= 0 THEN n ELSE 0,
    keepAlive |-> FALSE, fields |-> fs] :
     n \in {-1, 65535}, fs \in {<<>>} \cup {<<f>> : f \in MCFields}}

MCTwoDataSets ==
  {<<[dataSetWriterId |-> 1, sequenceNumberEnabled |-> TRUE, sequenceNumber |-> 513,
      keepAlive |-> FALSE, fields |-> <<f, g>>],
     [dataSetWriterId |-> 2, sequenceNumberEnabled |-> FALSE, sequenceNumber |-> 0,
      keepAlive |-> FALSE, fields |-> <<g>>]>> :
     f \in {Wire!WireScalar(1, Eight(<<0>>, 0)), Wire!WireScalar(12, <<1, 2>>)},
     g \in {Wire!WireScalar(4, Eight(<<254, 255>>, 255)), Wire!WireArray(5, <<>>)}}

MCMessage(type, group, seq, sets) ==
  [publisherIdType |-> type, publisherId |-> Eight([i \in 1 .. 2 ^ type |-> 200 + i], 0),
   writerGroupIdEnabled |-> group, writerGroupId |-> IF group THEN 515 ELSE 0,
   groupSequenceNumberEnabled |-> seq, groupSequenceNumber |-> IF seq THEN 65535 ELSE 0,
   messages |-> sets]

MCWireMessages ==
  {MCMessage(type, group, seq, sets) :
     type \in 0 .. 3, group \in BOOLEAN, seq \in BOOLEAN, sets \in MCTwoDataSets}
  \cup {MCMessage(1, TRUE, TRUE, <<d>>) : d \in MCDataSets}

MCHeaders ==
  {"dataSetClassId", "groupVersion", "networkMessageNumber", "timestamp", "picoSeconds",
   "promotedFields", "dataSetTimestamp", "dataSetPicoSeconds", "dataSetStatus", "dataSetVersion",
   "dataValues"}
MCForeignHeaders == {{h} : h \in MCHeaders} \cup {MCHeaders \ {h} : h \in MCHeaders} \cup {MCHeaders}

\* Values of an address space: every type at an edge, what is not carried, arrays.
MCVariants ==
  {Values!UaScalar(0, <<>>), Values!UaScalar(1, <<1>>), Values!UaScalar(1, <<0>>), Values!UaScalar(2, <<128>>),
   Values!UaScalar(3, <<255>>), Values!UaScalar(4, <<0, 128>>), Values!UaScalar(5, <<255, 255>>),
   Values!UaScalar(6, <<0, 0, 0, 128>>), Values!UaScalar(7, <<255, 255, 255, 255>>),
   Values!UaScalar(8, Eight(<<0>>, 128)), Values!UaScalar(9, Eight(<<1>>, 255)),
   Values!UaScalar(10, <<0, 0, 192, 127>>), Values!UaScalar(11, Eight(<<1>>, 0)),
   Values!UaScalar(12, <<>>), Values!UaScalar(12, <<104, 105>>), Values!UaScalar(13, Eight(<<7>>, 0)),
   Values!UaScalar(15, <<1>>), Values!UaArray(15, <<>>),
   Values!UaArray(3, <<>>), Values!UaArray(2, <<Values!UaScalar(2, <<255>>), Values!UaScalar(2, <<1>>)>>),
   Values!UaArray(1, <<Values!UaScalar(1, <<1>>), Values!UaScalar(1, <<0>>)>>),
   Values!UaArray(4, <<Values!UaScalar(4, <<254, 255>>)>>),
   Values!UaArray(12, <<Values!UaScalar(12, <<>>), Values!UaScalar(12, <<65>>)>>)}

MCGroup(values, others) ==
  [publisherIdType |-> 1, publisherId |-> Eight(<<1, 2>>, 0), id |-> 515, sequenceNumber |-> 65535,
   writers |-> <<[id |-> 1, sequenceNumber |-> 0, values |-> others],
                 [id |-> 2, sequenceNumber |-> 7, values |-> values]>>]

MCReaderOf(writer, n) ==
  [key |-> <<Eight(<<1, 2>>, 0), 515, writer>>, targets |-> [i \in 1 .. n |-> Values!UaScalar(6, <<i, 0, 0, 0>>)]]

MCPublications ==
  {[group |-> MCGroup(<<v, w>>, <<w>>), reader |-> MCReaderOf(2, 2)] : v \in MCVariants, w \in MCVariants}
  \cup {[group |-> MCGroup(<<v>>, <<>>), reader |-> MCReaderOf(writer, n)] :
          v \in MCVariants, writer \in 1 .. 3, n \in 0 .. 2}

-----------------------------------------------------------------------------
(* Arguments of the connection services. *)

MCNumberValue ==
  [t \in {<<"0">>, <<"1", "0">>, <<"-", "1">>, <<"0", ".", "1">>, <<"1", "e", "-", "1">>,
          <<"0", "1">>, <<"1", ".">>} |-> t]

MCName(byte) == <<byte>>

MCScalars ==
  {Json!Null, Json!Boolean(TRUE), Json!Boolean(FALSE), Json!Number(<<"1", "0">>),
   Json!Number(<<"1", "e", "-", "1">>), Json!String(<<>>), Json!String(<<10, 34, 1, 47, 195, 169>>)}

MCObject1 == {Json!Object(<<>>)} \cup {Json!Object([n \in {MCName(97)} |-> v]) : v \in MCScalars}
MCObject2 == {Json!Object([n \in {MCName(97), MCName(92)} |-> IF n = MCName(97) THEN v ELSE w]) :
                v \in {Json!Null, Json!Boolean(TRUE)},
                w \in MCObject1}

MCJsonValues == MCObject1 \cup MCObject2

MCJsonEdits ==
  {Json!Punctuation(c) : c \in {"{", "}", ":", ",", "["}}
  \cup {Json!StringToken(<<p>>) :
          p \in {Json!Raw(97), Json!Unicode(97), Json!Unicode(56000), Json!Unicode(233), Json!Raw(9),
                 Json!Escape("n"), Json!Escape("x"), Json!Escape("backslash")}}
  \cup {Json!NumberToken(t) : t \in DOMAIN MCNumberValue \cup {<<"-">>, <<".", "1">>, <<"1", "e">>}}
  \cup {Json!LiteralToken("null")}

-----------------------------------------------------------------------------
(* ServerConfig.xml. *)

MCNumberOf == [t \in {"5", "25", "0"} |-> CASE t = "5" -> 5 [] t = "25" -> 25 [] t = "0" -> 0]
MCPlaceholderOf == [t \in {"[NodeName]"} |-> "host"]
MCPortTexts == {"4840"}

MCStore(i, generate) ==
  [CertificateTrustListLocation |-> "trusted", CertificateRevocationListLocation |-> "crl",
   ServerCertificate |-> <<"cert1", "cert2">>[i], ServerPrivateKey |-> <<"key1", "key2">>[i],
   GenerateCertificate |-> generate, CommonName |-> "[NodeName]", YearsValidFor |-> "25"]

MCSecurity(policy, modes) == <<[SecurityPolicy |-> policy, Modes |-> modes]>>

MCEndpoints ==
  {[Url |-> "4840", Store |-> MCStore(i, g)] : i \in 1 .. 2, g \in {"true", "false"}}
  \cup {[Url |-> "[NodeName]", Store |-> MCStore(1, "true"), SerializerType |-> t] : t \in {"Binary", "Other"}}
  \cup {[Url |-> "4840", Store |-> MCStore(2, "true"), Security |-> MCSecurity("Basic256", m)] :
          m \in {<<"Sign", "None">>, <<"Other">>}}
  \cup {[Store |-> MCStore(1, "true")], [Url |-> "4840"]}

MCBlocks ==
  {<<>>,
   [General |-> [MaxSessionCount |-> "5", IsAuditActivated |-> "true", ServerName |-> "[NodeName]"],
    StackThreadPoolSettings |-> [Timeout |-> "0", MaxThreads |-> ""]]}

MCLists ==
  {<<>>, [LocaleIds |-> <<"en", "", "fr">>, ServerUris |-> <<"a", "b">>, SamplingRates |-> <<"5", "x", "25">>,
          DiscoveryUrls |-> <<"d1", "d2">>,
          ServerDescriptions |-> <<[ApplicationUri |-> "[NodeName]", DiscoveryUrls |-> <<"", "u">>]>>]}

MCServerConfigs ==
  {[readable |-> TRUE, rooted |-> TRUE, endpoints |-> es, blocks |-> b, lists |-> l] :
     es \in {<<>>} \cup {<<e>> : e \in MCEndpoints} \cup {<<e, f>> : e \in MCEndpoints, f \in MCEndpoints},
     b \in MCBlocks, l \in MCLists}
  \cup {[readable |-> FALSE, rooted |-> TRUE, endpoints |-> <<>>, blocks |-> <<>>, lists |-> <<>>]}

MCDisks ==
  {[f \in files |-> IF f = broken THEN "bad" ELSE "good"] :
     files \in SUBSET {"cert1", "key1", "cert2"}, broken \in {"none", "key1"}}
  \cup {[f \in {"cert1", "cert2", "key2", denied} |-> IF f = denied THEN "denied" ELSE "good"] :
          denied \in {"key1", "trusted", "crl"}}

-----------------------------------------------------------------------------
(* <Fx> and <PubSub>. *)

MCAddresses == {<<>>, <<"A", "x">>, <<"B", "x">>, <<"y">>}

MCFxFields ==
  {<<>>} \cup {<<[source |-> a]>> : a \in MCAddresses} \cup {<<[target |-> <<"A", "x">>]>>}
  \cup {<<[source |-> a], [source |-> b]>> : a \in MCAddresses, b \in MCAddresses}
  \cup {<<[source |-> <<"A", "x">>, name |-> n], [source |-> b]>> : n \in {"", "y"}, b \in MCAddresses}

MCOutput(name, group, interval, fields) ==
  [name |-> name, writerGroupId |-> group, dataSetWriterId |-> 1,
   publishingIntervalMs |-> interval, fields |-> fields]
MCInput(name) == [name |-> name, fields |-> <<[target |-> <<"A", "z">>]>>]

MCEntity(name, outputs, inputs) == [name |-> name, outputs |-> outputs, inputs |-> inputs]

MCFx(type, id, entities) ==
  [automationComponent |-> "component", publisherIdType |-> type, publisherId |-> id, entities |-> entities]

MCPlain == <<[source |-> <<"A", "x">>]>>

MCFxSections ==
  {MCFx(t, id, <<MCEntity("e", <<>>, <<MCInput("i")>>)>>) :
     t \in Cfg!PublisherIdTypes \cup {"String"}, id \in Cfg!Magnitudes}
  \cup {MCFx("UInt16", 1, <<MCEntity("e", <<MCOutput("o", 1, i, fs)>>, <<MCInput(n)>>)>>) :
          i \in Cfg!Intervals, fs \in MCFxFields, n \in {"", "i"}}
  \cup {MCFx("UInt16", 1, <<MCEntity(n1, <<MCOutput(d1, 1, "toADay", MCPlain), MCOutput(d2, g, "toADay", MCPlain)>>, <<>>),
                            MCEntity(n2, <<MCOutput("o", h, "toADay", MCPlain)>>, ins)>>) :
          n1 \in {"e", "f"}, n2 \in {"e", ""}, d1 \in {"o", "p"}, d2 \in {"o", ""}, g \in 1 .. 2, h \in 1 .. 3,
          ins \in {<<>>, <<MCInput("i"), MCInput("i")>>}}
  \cup {MCFx("UInt16", 1, es) : es \in {<<>>, <<MCEntity("e", <<>>, <<>>)>>}}

MCAddress(rest) == [scheme |-> "opc.udp", rest |-> rest]

\* Ports at the edges of their range; "h" is 104.
MCPorts ==
  {<<54, 53, 53, 51, 53>>, <<54, 53, 53, 51, 54>>, <<54, 53, 53, 51, 54, 49>>, <<48, 48, 48, 48, 48, 56, 48>>,
   <<49, 51, 49, 48, 55, 50>>, <<52, 50, 57, 52, 57, 54, 55, 50, 57, 55>>, <<52, 47, 56>>}

\* Every text of up to four characters of "h", ":", "/", "0" and "1", and the ports.
MCNetworkAddresses ==
  {MCAddress(rest) : rest \in BoundedSeq({104, 58, 47, 48, 49}, 4)}
  \cup {MCAddress(<<104, 58>> \o p \o end) : p \in MCPorts, end \in {<<>>, <<47>>}}
  \cup {[scheme |-> "opc.tcp", rest |-> <<104, 58, 49>>]}

MCWriterGroup(interval, fields) ==
  [id |-> 1, publishingIntervalMs |-> interval, writers |-> <<[id |-> 1, fields |-> fields]>>]

MCReader(fields) ==
  [publisherId |-> 1, publisherIdType |-> "UInt16", writerGroupId |-> 1, dataSetWriterId |-> 1, fields |-> fields]

MCPubSubFields ==
  {<<>>, <<[source |-> <<"A">>], [source |-> <<"B">>]>>, <<[target |-> <<"A">>], [target |-> <<"B">>]>>,
   <<[source |-> <<>>]>>, <<[source |-> <<"A">>, target |-> <<"A">>]>>}

MCConnection(address, gs, rs) == [address |-> address, writerGroups |-> gs, readers |-> rs]

MCPubSub(type, connections) == [publisherId |-> 1, publisherIdType |-> type, connections |-> connections]

MCPubSubSections ==
  {MCPubSub(t, <<MCConnection(MCAddress(<<104, 58, 49>>), gs, rs)>>) :
     t \in {"UInt16", "String"},
     gs \in {<<>>} \cup {<<MCWriterGroup(i, f)>> : i \in Cfg!Intervals, f \in MCPubSubFields},
     rs \in {<<>>} \cup {<<MCReader(f)>> : f \in MCPubSubFields}}
  \cup {MCPubSub("UInt16", <<MCConnection(a, <<>>, <<MCReader(<<[target |-> <<"A">>]>>)>>)>> \o more) :
          a \in MCNetworkAddresses,
          more \in {<<>>, <<MCConnection(MCAddress(<<104, 58>>), <<MCWriterGroup("toADay", <<>>)>>, <<>>)>>}}
  \cup {MCPubSub("UInt16", <<>>)}

-----------------------------------------------------------------------------
(* Formulas as they are configured. *)

MCDollars ==
  {Elab!Dollar("_", Elab!NoArgument), Elab!Dollar("_", Elab!NumLevelsUp(1)), Elab!Dollar("other", Elab!NoArgument),
   Elab!Dollar("parentObjectAddress", Elab!NoArgument), Elab!Dollar("applyGenericFormula", Elab!NoArgument)}
  \cup {Elab!Dollar("parentObjectAddress", Elab!NumLevelsUp(n)) : n \in 0 .. 3}
  \cup {Elab!Dollar("applyGenericFormula", Elab!FormulaId(id)) : id \in {"f", "g", "h"}}

MCParts == MCDollars \cup {Elab!Plain("-"), Elab!Escaped("-"), Elab!Escaped("/")}

MCGeneric(name, formula) == [name |-> name, formula |-> formula]

MCGenerics ==
  {<<>>} \cup {<<MCGeneric("f", <<p, Elab!Plain("/")>>), MCGeneric(n, <<Elab!Dollar("_", Elab!NoArgument), p>>)>> :
                p \in MCDollars, n \in {"f", "g"}}

MCFormulaTemplates ==
  {[address |-> a, declared |-> d, formula |-> <<p, Elab!Plain("."), Elab!Plain("x"), q>>] :
     a \in {<<"a">>, <<"a", ".", "-", ".", "b">>, <<".", "/", "a">>}, d \in MCGenerics, p \in MCParts, q \in MCParts}

-----------------------------------------------------------------------------
(* Formulas: every tree of one operation, those of two, and sums and       *)
(* products on both sides, which is where the optimizer works.             *)

MCVariable(v) == [op |-> "VAR", var |-> v]
MCConstant(x) == [op |-> "VAL", value |-> x]

MCLeaves == {MCVariable("x"), MCVariable("y"), MCConstant(2), MCConstant(3)}
MCFew == {MCVariable("x"), MCConstant(2)}

MCBinary(ops, left, right) == {[op |-> o, a |-> l, b |-> r] : o \in ops, l \in left, r \in right}
MCArithmetic == {"ADD", "SUB", "MUL", "DIV", "POW"}
MCAllOps == MCArithmetic \cup {"LT", "LAND", "LOR"}

MCCalls(trees) ==
  {[op |-> "CALL", fun |-> "atan2", arguments |-> <<t, MCConstant(3)>>] : t \in trees}
  \cup {[op |-> "CALL", fun |-> "sum", arguments |-> <<t, t, MCVariable("y")>>] : t \in trees}

MCUnary(trees) == {[op |-> "NEG", a |-> t] : t \in trees} \cup MCCalls(trees)

MCTernary(trees, few) ==
  {[op |-> "IF", c |-> c, a |-> a, b |-> b] : c \in trees, a \in few, b \in few}
  \cup {[op |-> "IF", c |-> c, a |-> a, b |-> b] : c \in few, a \in trees, b \in few}
  \cup {[op |-> "IF", c |-> c, a |-> a, b |-> b] : c \in few, a \in few, b \in trees}

MCOne == MCBinary(MCAllOps \cup Mu!Comparisons, MCLeaves, MCLeaves) \cup MCUnary(MCLeaves) \cup MCTernary(MCFew, MCFew)
MCInner == MCBinary(MCAllOps, MCLeaves, MCFew) \cup MCUnary(MCFew)
           \cup {[op |-> "IF", c |-> MCVariable("y"), a |-> MCVariable("x"), b |-> MCConstant(2)]}
MCLinear == MCBinary({"ADD", "SUB", "MUL", "DIV"}, MCLeaves, MCFew)

MCFormulaTrees ==
  MCOne \cup MCBinary(MCAllOps, MCInner, MCFew) \cup MCBinary(MCAllOps, MCFew, MCInner)
  \cup MCUnary(MCInner) \cup MCTernary(MCInner, MCFew)
  \cup MCBinary({"ADD", "SUB", "MUL", "DIV"}, MCLinear, MCLinear)
  \cup {[op |-> "ASSIGN", a |-> MCVariable("x"), b |-> t] : t \in MCInner}

MCValuations == {[x |-> 0, y |-> 1], [x |-> 3, y |-> 5], [x |-> 6, y |-> 0]}
=============================================================================
