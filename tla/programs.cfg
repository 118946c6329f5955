SPECIFICATION ProgramsSpec
CONSTANTS
    Word <- MCWord
    Blank <- MCBlank
    Runes <- MCRunes
    Mailbox <- MCMailbox
    URLOf <- MCURLOf
    IntOf <- MCIntOf
    Number <- MCNumber
    List <- MCList
    NaN = NaN
    Unparsed = Unparsed
    MaxCalls = 3
    Bounds = {1, 2}
    Probe <- MCProbe
    WordSets <- MCWordSets
    NumberSets <- MCNumberSets
    ListSets <- MCListSets
    NoAnswer = NoAnswer
    Environments <- MCEnvironments
    GoodKey = {"good"}
    HTTPRequest = {r1, r2}
    MaxConns = 2
    NoKind = NoKind
    NoEnv = NoEnv
    NoConfig = NoConfig
    Account = {a1, a2}
    Request = {q1, q2}
    Second = 2
    AccessTokenTTL = 4
    MaxLag = 1
    MaxSkew = 1
    MaxTokens = 1
    MaxClock = 7
    None = none
INVARIANTS
    ProgramsTypeOK
    TypeOK
    BanReachesGateway
    WorksWhileFresh
    AnswerFollowsCalls
    ItemErrorsPlaced
    RefusalIsComplete
    ServingIsBacked
    OrderlyExit
PROPERTIES
    RulesAreKept
    CallsOnlyNarrow
    StopsWhenTold
CHECK_DEADLOCK FALSE
