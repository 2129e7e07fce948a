\* Two of everything that may overlap.  The bounds end some behaviours.
CONSTANTS
    A = {a1, a2}
    B = {b1, b2}
    Asks = {only}
    Chats = {a1, a2}
    Options = {"go", "stop", "pause", "resume"}
    MaxLinks = 2
    Subscriptions = {only}
    Limit = 1
    Runs = {a1, a2}
    NoRun = none
    Digests = {only}
    Days = {1, 2}
    Sessions = {b1, b2}
    MaxDigestStops = 1
    Connections = {a1, a2}
    NoConnection = none
    ServerAsks = {only}
    MaxCalls = 2
    MaxLinkFaults = 2
    ImportKinds = {"memo", "deals", "forwarded", "evidence"}
    Items = {a1, a2}
    Importers = {b1, b2}
    History = 1
    MaxAge = 2
    Benchmarks = {a1, a2}
    Sectors = {only}
    MinBenchmarks = 1
    MinSectors = 1
    TradingDays = {0, 1, 2, 5}
    ShortDays = {2}
    Instants = {0, 6, 12, 13, 36}
    LastDay = 6
    TargetIds = {a1, a2}
    DeviceKeys = {b1, b2}
    Editors = {a1, a2}
    MaxManagerStops = 1
    Tabs = {a1, a2}
    Tokens = {b1, b2}
    NoToken = none
    MaxMoves = 2
    Kinds = {1}
    Receivers = {a1, a2}
    MaxTexts = 2
    MaxStops = 1
    Messages = {a1, a2, only}
    Horizon = 1
    PollLimit = 2
    Batch = 1
    MaxSeconds = 4
    MaxRelayStops = 1
    Deals = {a1, a2}
    DealTargets = {b1, b2}
    DealLimit = 1
    LastHour = 3
    MaxDealStops = 1
    AiSources = {"hot", "feed"}
    HotSource = "hot"
    FinanceSources = {"disclosures"}
    OffTopic <- SomeOffTopic
    Windows = {"hour"}
    Scanners = {a1, a2}
    CollectLimit = 2
    NovelLimit = 1
    MaxMessages = 2
    MaxVersion <- Versions
SYMMETRY Symmetry
SPECIFICATION MessagesSpec
INVARIANTS TypesOK ShownOnce ShownIsSo OneTextForAll NothingLeftBehind DealShownOnce
           QuietScanIsCurrent
CHECK_DEADLOCK FALSE
