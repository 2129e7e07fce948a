CONSTANTS
    Slots = {d1, d2}
    Turns = {t1, t2}
    NoTurn = none
    NoSlot = noslot
    MaxInfra = 1
    MaxStrategy = 1
    MaxAttempts = 2
    MaxInbox = 3
    Goals = {"none", "active", "complete", "blocked"}
    Outcomes = {"failed", "interrupted"}
    Events = {"manage", "operator", "instruct", "stop", "ask", "desktop", "turn", "systemError",
              "limit", "workplace", "contention", "expiry", "rpc", "unknown", "disconnect", "crash"}
    MaxEvents = 3
SYMMETRY Symmetry
SPECIFICATION Spec
INVARIANTS
    TypeOK
    NoReplay
    OneSupervisorDirective
PROPERTIES
    CompletionJustified
    FailureExhausted
