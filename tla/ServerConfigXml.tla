-------------------------- MODULE ServerConfigXml --------------------------
(***************************************************************************)
(* How ServerConfig.xml becomes the SDK's configuration:                   *)
(* src/Server/src/serverconfigxml.cpp, which is built with releases of the *)
(* UA toolkit before 1.4; later ones bring a loader of their own.          *)
(*                                                                         *)
(* An element's content is a string, "" when it is empty (pValue() is      *)
(* NULL); a block is a function from the tags it contains to what they     *)
(* hold, so a tag outside its domain is an absent element.  A document is  *)
(* a function from the blocks it has: "General" stands for the elements    *)
(* directly under UaServerConfig.  getChild and getParentNode are always   *)
(* paired, so the cursor is not part of the model.                         *)
(*                                                                         *)
(* A disk maps the paths it has to "good", "bad" (what stands there is no  *)
(* certificate or key) or "denied" (can be neither read nor written).      *)
(***************************************************************************)
EXTENDS Integers, Sequences, SequencesExt, FiniteSets

CONSTANTS
  NumberOf,      \* UaVariant::toInt32/toUInt32/toDouble: the texts that are numbers
  PlaceholderOf, \* replaceNodeName, replaceApplicationPath, replaceServerName
  PortTexts      \* texts shorter than six characters and without "/"

Expanded(text) == IF text \in DOMAIN PlaceholderOf THEN PlaceholderOf[text] ELSE text

Default == "default"          \* what the constructor of a setting leaves
Infinite == "OPCUA_INFINITE"
Blank == "blank"              \* an array element create() made and nobody filled

-----------------------------------------------------------------------------
(* The settings of each block, and how the content of each is read. *)

Number    == [type |-> "number"]
Timeout   == [type |-> "timeout"]    \* a number whose 0 means for ever
Flag      == [type |-> "flag"]       \* "true", and false whatever else is written
Text      == [type |-> "text"]
Name      == [type |-> "name"]       \* a text whose default holds a placeholder
Choice(values, other) == [type |-> "choice", values |-> values, other |-> other]

SessionSettings ==
  [t \in {"MaxRequestAge", "MaxSessionCount", "MinSessionTimeout", "MaxSessionTimeout",
          "MaxBrowseContinuationPoints", "MaxHistoryContinuationPoints",
          "MinPublishingInterval", "MaxPublishingInterval", "MinKeepAliveInterval"} |-> Number]

SubscriptionSettings ==
  [t \in {"MinSubscriptionLifetime", "MaxSubscriptionLifetime", "MaxRetransmitionQueueSize",
          "MaxNotificationsPerPublish", "MaxDataQueueSize", "MaxEventQueueSize",
          "MaxSubscriptionCount", "MaxMonitoredItemCount",
          "MaxMonitoredItemPerSubscriptionCount", "MinSupportedSampleRate"} |-> Number]

AuditSettings == [IsAuditActivated |-> Flag]

\* Read after all blocks, just before the endpoints.
RejectedSettings == [RejectedCertificatesDirectory |-> Text]

RedundancySettings ==
  [RedundancySupport |-> Choice({"Cold", "Warm", "Hot", "Transparent"}, "None")]

IdentitySettings == [t \in {"EnableAnonymous", "EnableUserPw"} |-> Flag]

BuildSettings ==
  [t \in {"ApplicationUri", "ManufacturerName", "ApplicationName", "SoftwareVersion",
          "BuildNumber"} |-> Text]

InstanceSettings == [t \in {"ServerUri", "ServerName"} |-> Name]

SerializerSettings ==
  [t \in {"MaxAlloc", "MaxStringLength", "MaxByteStringLength", "MaxArrayLength",
          "MaxMessageSize"} |-> Number]

StackThreadPoolSettings ==
  [Enabled |-> Flag, MinThreads |-> Number, MaxThreads |-> Number, MaxJobs |-> Number,
   BlockOnAdd |-> Flag, Timeout |-> Timeout]

StackTraceSettings ==
  [UaStackTraceEnabled |-> Flag,
   UaStackTraceLevel |-> Choice({"ERROR", "WARNING", "SYSTEM", "INFO", "DEBUG", "CONTENT",
                                 "ALL"}, "NONE")]

AppTraceSettings ==
  [UaAppTraceEnabled |-> Flag,
   UaAppTraceLevel |-> Choice({"Errors", "Warning", "Info", "InterfaceCall", "CtorDtor",
                               "ProgramFlow", "Data"}, "NoTrace"),
   UaAppTraceMaxEntries |-> Number, UaAppTraceMaxBackup |-> Number, UaAppTraceFile |-> Name]

ThreadPoolSettings ==
  [t \in {"MinSizeTransactionManager", "MaxSizeTransactionManager",
          "MinSizeSubscriptionManager", "MaxSizeSubscriptionManager"} |-> Number]

DiscoverySettings ==
  [AutomaticCertificateExchange |-> Flag, DiscoveryServerCertificateFile |-> Text,
   DiscoveryServerStoreName |-> Text, DiscoveryServerCertificateName |-> Text,
   RegistrationInterval |-> Number]

Merge(f, g) == [t \in DOMAIN f \cup DOMAIN g |-> IF t \in DOMAIN f THEN f[t] ELSE g[t]]

Settings ==
  [General |-> Merge(Merge(SessionSettings, SubscriptionSettings),
                     Merge(Merge(AuditSettings, RejectedSettings),
                           Merge(BuildSettings, InstanceSettings))),
   RedundancySettings |-> RedundancySettings,
   UserIdentityTokens |-> IdentitySettings,
   Serializer |-> SerializerSettings,
   StackThreadPoolSettings |-> StackThreadPoolSettings,
   Trace |-> Merge(StackTraceSettings, AppTraceSettings),
   ThreadPoolSettings |-> ThreadPoolSettings,
   DiscoveryRegistration |-> DiscoverySettings]

\* What a content makes of a setting that was old.
Read(kind, text, old) ==
  CASE text = "" -> old
    [] text # "" /\ kind.type \in {"number", "timeout"} ->
         IF text \notin DOMAIN NumberOf THEN old
         ELSE IF kind.type = "timeout" /\ NumberOf[text] = 0 THEN Infinite
         ELSE NumberOf[text]
    [] text # "" /\ kind.type = "flag" -> text = "true"
    [] text # "" /\ kind.type = "choice" -> IF text \in kind.values THEN text ELSE kind.other
    [] text # "" /\ kind.type \in {"text", "name"} -> Expanded(text)

\* What the constructor leaves; only names hold a placeholder.
Initially(kind) == IF kind.type = "name" THEN "[NodeName]" ELSE Default

\* One block of settings.  The default of a name is expanded where the
\* element is absent, and stays as it is where the element is empty.
ReadBlock(block, kinds) ==
  [t \in DOMAIN kinds |->
     LET old == Initially(kinds[t])
     IN  IF t \in DOMAIN block THEN Read(kinds[t], block[t], old)
         ELSE IF kinds[t].type = "name" THEN Expanded(old) ELSE old]

-----------------------------------------------------------------------------
(* Lists: an array as long as the list, filled from the front with the    *)
(* contents that can be used.                                             *)

Fill(contents, length) ==
  [i \in 1 .. length |-> IF i <= Len(contents) THEN contents[i] ELSE Blank]

\* The index is never incremented: the last content overwrites the others.
ReadLastOnly(list, Usable(_), Value(_)) ==
  LET used == SelectSeq(list, Usable)
  IN  Fill(IF used = <<>> THEN <<>> ELSE <<Value(Last(used))>>, Len(list))

ReadList(list, Usable(_), Value(_)) ==
  LET used == SelectSeq(list, Usable)
  IN  Fill([i \in 1 .. Len(used) |-> Value(used[i])], Len(list))

NotEmpty(text) == text # ""
AsWritten(text) == text
IsNumber(text) == text \in DOMAIN NumberOf
Numeric(text) == NumberOf[text]

\* AvailableLocaleIds, AvailableServerProfiles.
ReadLocaleIds(list) == ReadList(list, NotEmpty, AsWritten)
ReadServerProfiles(list) == ReadList(list, NotEmpty, AsWritten)
\* RedundancySettings: the servers of a non-transparent redundant set.
ReadServerUris(list) == ReadList(list, NotEmpty, AsWritten)
\* The discovery URLs of an additional server.
ReadDiscoveryUrlsOfEntry(list) == ReadList(list, NotEmpty, Expanded)

DescriptionTexts == {"ProductUri", "ApplicationName", "GatewayServerUri", "DiscoveryProfileUri"}

\* AdditionalServerEntries: one description per element.
ReadServerDescription(entry) ==
  [texts |-> [t \in DescriptionTexts |-> IF t \in DOMAIN entry THEN entry[t] ELSE ""],
   ApplicationUri |-> IF "ApplicationUri" \in DOMAIN entry THEN Expanded(entry.ApplicationUri) ELSE "",
   ApplicationType |-> IF "ApplicationType" \in DOMAIN entry /\ entry.ApplicationType = "ClientAndServer"
                       THEN "ClientAndServer" ELSE "Server",
   DiscoveryUrls |-> IF "DiscoveryUrls" \in DOMAIN entry
                     THEN ReadDiscoveryUrlsOfEntry(entry.DiscoveryUrls) ELSE <<>>]

ReadServerDescriptions(entries) == [i \in DOMAIN entries |-> ReadServerDescription(entries[i])]

DefaultSamplingRates == <<50, 100, 250, 500, 1000, 2000, 5000, 10000>>

\* The default list only where the block is absent.
ReadSamplingRates(lists) ==
  IF "SamplingRates" \in DOMAIN lists THEN ReadList(lists.SamplingRates, IsNumber, Numeric)
                                      ELSE DefaultSamplingRates

\* The servers to register with.
ReadDiscoveryUrls(list) == ReadLastOnly(list, NotEmpty, AsWritten)

ReadLists(lists) ==
  [LocaleIds |-> IF "LocaleIds" \in DOMAIN lists THEN ReadLocaleIds(lists.LocaleIds) ELSE <<>>,
   ServerProfiles |-> IF "ServerProfiles" \in DOMAIN lists
                      THEN ReadServerProfiles(lists.ServerProfiles) ELSE <<>>,
   ServerUris |-> IF "ServerUris" \in DOMAIN lists THEN ReadServerUris(lists.ServerUris) ELSE <<>>,
   ServerDescriptions |-> IF "ServerDescriptions" \in DOMAIN lists
                          THEN ReadServerDescriptions(lists.ServerDescriptions) ELSE <<>>,
   SamplingRates |-> ReadSamplingRates(lists),
   DiscoveryUrls |-> IF "DiscoveryUrls" \in DOMAIN lists
                     THEN ReadDiscoveryUrls(lists.DiscoveryUrls) ELSE <<>>]

-----------------------------------------------------------------------------
(* One UaEndpoint element, UaEndpointXml::setXmlConfig, in the order of    *)
(* its checks.  The disk is a function from the files that exist to their  *)
(* state.  Windows certificate stores are not built on this platform.      *)

Refused == "refused"

\* A port alone is a URL of this host.
EndpointUrl(text) == IF text \in PortTexts THEN "opc.tcp://localhost:port" ELSE Expanded(text)

StoreTags == {"CertificateTrustListLocation", "CertificateRevocationListLocation",
              "ServerCertificate", "ServerPrivateKey"}

\* "OpenSSLStore" with all its locations.
StoreComplete(e) == "Store" \in DOMAIN e /\ StoreTags \subseteq DOMAIN e.Store

Present(f, disk) == f \in DOMAIN disk /\ disk[f] # "denied"
Denied(f, disk) == f \in DOMAIN disk /\ disk[f] = "denied"

\* Faulty variant of CertificateAvailable: the key is not looked for.
CertificateFileAvailable(store, disk) == Present(store.ServerCertificate, disk)

CertificateAvailable(store, disk) ==
  Present(store.ServerCertificate, disk) /\ Present(store.ServerPrivateKey, disk)

GenerateCertificate(store) ==
  "GenerateCertificate" \in DOMAIN store /\ store.GenerateCertificate = "true"

IdentityTexts == {"CommonName", "Organization", "OrganizationUnit", "Locality", "State", "Country"}

\* The subject of a certificate that is created; only its name may hold placeholders.
CertificateIdentity(store) ==
  [t \in IdentityTexts |->
     IF t \notin DOMAIN store THEN "" ELSE IF t = "CommonName" THEN Expanded(store[t]) ELSE store[t]]

\* Five years unless the element is a number; never more than twenty.
YearsValidFor(store) ==
  IF "YearsValidFor" \in DOMAIN store /\ store.YearsValidFor \in DOMAIN NumberOf
  THEN IF NumberOf[store.YearsValidFor] > 20 THEN 20 ELSE NumberOf[store.YearsValidFor]
  ELSE 5

\* The certificate and key are written anew, a revocation list only if there
\* is none.  Whether a file could be written is not looked at.
WriteCertificate(store, disk) ==
  LET list == store.CertificateRevocationListLocation
      files == {store.ServerCertificate, store.ServerPrivateKey}
  IN  [f \in DOMAIN disk \cup files \cup {list} |->
         IF ~Denied(f, disk) /\ (f \in files \/ f \notin DOMAIN disk) THEN "good" ELSE disk[f]]

\* The PKI provider opens the store with its two lists (external) ...
OpenCertificateStore(store, disk) ==
  /\ ~Denied(store.CertificateRevocationListLocation, disk)
  /\ ~Denied(store.CertificateTrustListLocation, disk)

\* ... and reads both files back (external).
Loadable(store, disk) ==
  \A f \in {store.ServerCertificate, store.ServerPrivateKey} : f \in DOMAIN disk /\ disk[f] = "good"

SerializerKnown(e) ==
  "SerializerType" \in DOMAIN e => e.SerializerType \in {"Binary", "Xml"}

MessageSecurityModes == {"None", "Sign", "SignAndEncrypt"}

\* A setting needs a policy and a list of modes that are all known.
SecuritySettingValid(setting) ==
  /\ "SecurityPolicy" \in DOMAIN setting
  /\ "Modes" \in DOMAIN setting
  /\ \A i \in DOMAIN setting.Modes : setting.Modes[i] \in MessageSecurityModes

\* CONFIG_DEFAULT_SECURE is 1 in this repository (serverconfigxml_quasar.h:32):
\* its other branch is never taken.
DefaultSecuritySetting == [SecurityPolicy |-> "Basic128Rsa15", Modes |-> <<"SignAndEncrypt">>]

SecuritySettings(e) == IF "Security" \in DOMAIN e THEN e.Security ELSE <<DefaultSecuritySetting>>

\* The endpoint, or a refusal, and the disk as the attempt leaves it: a
\* certificate stays although a later check refuses the endpoint.
SetXmlConfig(e, disk) ==
  LET store == e.Store
      create == ~CertificateAvailable(store, disk) /\ GenerateCertificate(store)
      after == IF create THEN WriteCertificate(store, disk) ELSE disk
      refusal(d) == [status |-> Refused, disk |-> d]
  IN  IF "Url" \notin DOMAIN e \/ ~StoreComplete(e) THEN refusal(disk)
      ELSE IF ~CertificateAvailable(store, disk) /\ ~create THEN refusal(disk)
      ELSE IF ~OpenCertificateStore(store, after) \/ ~Loadable(store, after) THEN refusal(after)
      ELSE IF ~SerializerKnown(e) THEN refusal(after)
      ELSE IF \E i \in DOMAIN SecuritySettings(e) : ~SecuritySettingValid(SecuritySettings(e)[i])
      THEN refusal(after)
      ELSE [status |-> "Good", disk |-> after,
            endpoint |->
              [url |-> EndpointUrl(e.Url),
               stackUrl |-> IF "StackUrl" \in DOMAIN e THEN e.StackUrl ELSE Default,
               visible |-> ~("IsVisible" \in DOMAIN e /\ e.IsVisible = "false"),
               discovery |-> ~("IsDiscoveryUrl" \in DOMAIN e /\ e.IsDiscoveryUrl = "false"),
               redundant |-> "Redundancy" \in DOMAIN e /\ e.Redundancy = "true",
               certificate |-> store.ServerCertificate, key |-> store.ServerPrivateKey,
               years |-> IF create THEN YearsValidFor(store) ELSE 0,
               identity |-> IF create THEN CertificateIdentity(store) ELSE <<>>,
               security |-> SecuritySettings(e)]]

-----------------------------------------------------------------------------
(* The whole file, loadConfiguration. *)

NoEndpoint == [url |-> Blank]      \* a null pointer in the array

\* One round of the loop over the endpoints: the array is filled at the
\* position of the element, whose status is all that is kept of it.
LoadEndpoint(s, e) ==
  LET r == SetXmlConfig(e, s.disk)
      entry == IF r.status = "Good" THEN r.endpoint ELSE NoEndpoint
  IN  [array |-> Append(s.array, entry), disk |-> r.disk, status |-> r.status,
       successes |-> s.successes + (IF r.status = "Good" THEN 1 ELSE 0)]

\* create(n) ... resize(successCount): the first entries are kept.
LoadEndpoints(endpoints, disk) ==
  LET all == FoldLeft(LoadEndpoint,
                      [array |-> <<>>, disk |-> disk, status |-> "Good", successes |-> 0],
                      endpoints)
  IN  [array |-> SubSeq(all.array, 1, all.successes), disk |-> all.disk,
       status |-> IF all.successes = 0 THEN "BadConfigurationError" ELSE all.status]

NotLoaded(status, disk) == [status |-> status, disk |-> disk, endpoints |-> <<>>]

\* A file that is not there or not XML, another root, no UaServerConfig or
\* no endpoint at all: BadInternalError.  Otherwise the status of the last
\* endpoint, unless every endpoint was refused.
LoadConfiguration(doc, disk) ==
  IF ~doc.readable \/ ~doc.rooted \/ Len(doc.endpoints) = 0
  THEN NotLoaded("BadInternalError", disk)
  ELSE LET loaded == LoadEndpoints(doc.endpoints, disk)
       IN  [status |-> loaded.status, disk |-> loaded.disk, endpoints |-> loaded.array,
            settings |-> [b \in DOMAIN Settings |->
                            IF b = "General" \/ b \in DOMAIN doc.blocks
                            THEN ReadBlock(IF b \in DOMAIN doc.blocks THEN doc.blocks[b] ELSE <<>>,
                                           Settings[b])
                            ELSE [t \in DOMAIN Settings[b] |-> Initially(Settings[b][t])]],
            lists |-> ReadLists(doc.lists)]
=============================================================================
