\* One run and two targets: a digest whose list changes between two tries.
CONSTANTS
    i1 = i1
    i2 = i2
    Items = {i1, i2}
    Deadline <- MCLateDeadline
    Importance <- MCImportance
    Times <- MCTimes
    Targets = {t1, t2}
    Adapters = {t1, t2}
    Runs = {r1}
    Digest = digest
    NoWindow = nowindow
    NoRun = norun
    MaxEvents = 2
SYMMETRY Symmetry
SPECIFICATION Spec
PROPERTIES RetryIsServed
