\* Two of everything that may overlap; the bounds of the journal stand in the
\* module.  A run of trials and a task that is found under two ids give the two
\* accepted trials that are enough here.  The bounds end some behaviours.
CONSTANTS
    A = {a1, a2}
    B = {b1, b2}
    Only = only
    None = none
    Calls = {a1, a2}
    Mode = "merge"
    MaxEdits = 2
    MaxPolicy = 2
    MaxFaults = 1
    RunJobs = {a1, a2}
    Chief = none
    Assignments = {b1, b2}
    HasReviewer = TRUE
    Budget = 7
    Prompt = 1
    Output = 2
    Excess = 1
    MaxLive = 1
    MaxRunStops = 1
    Sources = {a1, a2, only}
    Proposers = {b1, b2}
    Threshold = 1
    Cooldown = 1
    MaxDays = 2
    MaxProposals = 3
    MaxGuidance = 1
    MaxMemberStops = 1
    Members = {a1, a2}
    Redraws = {b1, b2}
    MaxCopies = 2
    MaxAttempts = 2
    MaxRestarts = 1
    Commissions = {a1, a2}
    NoCommission = none
    TrialRuns = {only}
    NoTrialRun = none
    FlowTasks = {only}
    Situations = {only}
    Additions = {only}
    Needed = 2
    MaxDrafts = 2
    MaxJobs = 2
    Keys = {only}
    NoKey = none
    MaxCrashes = 2
    Packages = {only}
    Requests = {a1, a2}
    MaxTexts = 3
    MaxOperations = 3
    MaxRegistryStops = 1
SYMMETRY Symmetry
SPECIFICATION WorkSpec
INVARIANTS TypesOK Approved ReservedOnce UsesCounted ActivationEarned OneJobPerKey
           EnvelopeBehindJob PreviewWasScanned
PROPERTIES NoteStands SettledRunsStay
CHECK_DEADLOCK FALSE
