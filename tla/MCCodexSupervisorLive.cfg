CONSTANTS
    Slots = {d1}
    Turns = {t1, t2}
    NoTurn = none
    NoSlot = noslot
    MaxInfra = 1
    MaxStrategy = 1
    MaxAttempts = 2
    MaxInbox = 3
    Goals = {"complete"}
    Outcomes = {"failed"}
    Events = {"manage", "operator", "turn", "contention", "expiry", "rpc",
              "disconnect", "crash"}
    MaxEvents = 3
SPECIFICATION FairSpec
PROPERTIES
    DirectiveLeavesQueue
    SupervisionActs
