\* One key, three callers, two requests competing for the key.
CONSTANTS
    Keys = {k1}
    Hashes = {h1, h2}
    Callers = {c1, c2, c3}
    StrictCallers = {}
    NoHash = none
    MaxAttempts = 3
SPECIFICATION Spec
INVARIANTS AtMostOnce RowIsTruthful
PROPERTIES KeepsPromise
