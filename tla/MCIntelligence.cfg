\* Two calls of pushNext, or two requests of readers about one candidate with
\* two links.  The bounds end some behaviours.
CONSTANTS
    BarkTargets = {b1}
    Chats = {g1}
    Telegram = telegram
    OpenAfter = 2
    MaxCandidates = 3
    Domains = {ai}
    Events = {e1}
    Sources = {feed}
    KeyLimit = 1
    NearLimit = 1
    Workers = {w1, w2}
    NoWorker = none
    Delays = 2
    MaxFaults = 2
    Updates = {update}
    Opinions = {opinion}
    LinkedCandidates = {candidate}
    Links = {l1, l2}
    LinkOf <- OneCandidate
    Handlers = {w1, w2}
    NoUpdate = none
    MaxTries = 2
    MaxReaderStops = 1
SYMMETRY Symmetry
SPECIFICATION PushSpec
INVARIANTS DeliveredOnce OneLivePerEvent RepliedOnce CreditGoesThrough
PROPERTIES PushedWithReceipts
CHECK_DEADLOCK FALSE
