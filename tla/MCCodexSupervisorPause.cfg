CONSTANTS
    Slots = {d1, d2}
    Turns = {t1, t2}
    NoTurn = none
    NoSlot = noslot
    MaxInfra = 1
    MaxStrategy = 1
    MaxAttempts = 2
    MaxInbox = 3
    Goals = {"active"}
    Outcomes = {"failed"}
    Events = {"manage", "operator"}
    MaxEvents = 2
SPECIFICATION Spec
PROPERTY NoTurnAfterPause
