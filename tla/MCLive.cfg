\* Reminders: one target and one run, without symmetry.  The clocks of all
\* three services end.
CONSTANTS
    i1 = i1
    i2 = i2
    Items = {i1, i2}
    Deadline <- MCDeadline
    Importance <- MCImportance
    Times <- MCTimes
    Targets = {t1}
    Adapters = {t1}
    Runs = {r1}
    r1 = r1
    d1 = d1
    Digest = digest
    NoWindow = nowindow
    NoRun = norun
    MaxEvents = 2
SPECIFICATION LiveSpec
PROPERTIES EscalationSettles WatchGoesOn AbandonedWindowSettles
CHECK_DEADLOCK FALSE
