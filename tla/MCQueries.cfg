SPECIFICATION QSpec
CONSTANTS
    Listeners = {1, 2}
    Addresses = {"a", "c"}
    Txids = {"t1", "t2"}
    Writes <- MCWrites
    Indices <- MCIndices
    NAMESERVICE = "name"
    MAINNET_GNOMON_SCID = "gnomon"
    Exclusions = {"name", "gnomon"}
    search_filter = FALSE
    Scids <- MCScids
    Height <- MCHeight
    Code <- MCCode
    Containing <- MCContaining
    Jobs <- MCJobs
    Requests <- MCRequests
    MaxRequests = 2
    MaxStops = 1
INVARIANTS
    QTypeOK
    ListedOnce
    ClassAnswerExact
    AddrAnswerBounded
PROPERTIES
    ClassTagsAgree
    KnownAnswered
    StatsCatchUp
