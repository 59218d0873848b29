SPECIFICATION Spec
CHECK_DEADLOCK FALSE
CONSTANTS
    Payloads <- MCPayloads
    Greetings <- MCGreetings
    Login7s <- MCLogin7s
    Logins <- MCLogins
    Streams <- MCStreams
    Ntlms <- MCNtlms
    Trees <- MCTrees
    Fedauths <- MCFedauths
    Muxes <- MCMuxes
    SqlBatches <- MCBatches
    Transactions <- MCTransactions
    Calls <- MCCalls
    Loads <- MCLoads
    Answers <- MCAnswers
    BentBytes = {0, 1, 16, 94, 255}
    Limit = 6
    RowSample = 2
    DecodeOid <- SspiOid
    ParseSspi <- SspiToken
    CapabilitiesAt <- StreamCapabilities
    AuthenticationAt <- StreamTokens
    AuthenticationTelemetry <- StreamTelemetry
    MaxTokens = 8
    MaxColumns = 3
    MaxSections = 1
    MaxDepth = 2
    MaxNodes = 4
    MaxLogin7 = 200
    MaxFeatures = 2
    MaxFrames = 2
    MaxTableColumns = 3
    MaxTableRows = 3
    TableSample = 2
    MaxParameters = 2
    MaxBatches = 2
    MaxBulkColumns = 2
    MaxBulkRows = 3
    MaxStrings = 1
    MaxShort = 5
    MaxLong = 120
INVARIANTS
    LoginsHaveOneReading
    BytesHaveOneMeaning
    BudgetHolds
    ExchangeRecovered
    DerExact
    LoginsReadBack
    RequestsReadBack
    CutsInventNothing
    AnswersReadBack
