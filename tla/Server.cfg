SPECIFICATION MCSpec
CONSTANTS
    r1 = r1
    r2 = r2
    s1 = s1
    Requests = {r1, r2, s1}
    Synchronous = {s1}
    WireMessages <- MCWireMessages
    ForeignHeaders <- MCForeignHeaders
    Publications <- MCPublications
    JsonValues <- MCJsonValues
    JsonEdits <- MCJsonEdits
    MaxDepth = 2
    MaxInputBytes = 30
    NumberValue <- MCNumberValue
    ServerConfigs <- MCServerConfigs
    Disks <- MCDisks
    NumberOf <- MCNumberOf
    PlaceholderOf <- MCPlaceholderOf
    PortTexts <- MCPortTexts
    FxSections <- MCFxSections
    PubSubSections <- MCPubSubSections
    FormulaTemplates <- MCFormulaTemplates
    MaxRounds = 10
    FormulaTrees <- MCFormulaTrees
    Valuations <- MCValuations
    Prime = 7
CHECK_DEADLOCK FALSE
INVARIANTS
    NothingOutlivesMain
    StartupFailureReported
    WireFaithful
    JsonOneMeaning
    LoadedAsWritten
    AcceptedFxSound
    NetworkAddressesRead
    FormulaMeansWhatItSays
PROPERTIES
    LateIoRefused
    EndsOnceAsked
