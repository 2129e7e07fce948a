\* Both items, two targets that have an adapter, two disturbances.
CONSTANTS
    i1 = i1
    i2 = i2
    Items = {i1, i2}
    Deadline <- MCDeadline
    Importance <- MCImportance
    Times <- MCTimes
    Targets = {t1, t2}
    Adapters = {t1, t2}
    Runs = {r1, r2}
    Digest = digest
    NoWindow = nowindow
    NoRun = norun
    MaxEvents = 2
SYMMETRY Symmetry
SPECIFICATION Spec
INVARIANT DeliveredOnce
PROPERTIES FinalWindowQuiet
