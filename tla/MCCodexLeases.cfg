\* Two processes (or one that restarts) over three threads and three worktrees.
\* A process may end and the fencing tokens may run out, so runs may stop.
CONSTANTS
    Threads = {t1, t2, t3}
    Worktrees = {w1, w2, w3}
    Owners = {o1, o2}
    Ttl = 2
    MaxConcurrency = 2
    MaxFence = 2
    NoPair = none
SYMMETRY Symmetry
SPECIFICATION Spec
INVARIANTS ConcurrencyLimit PairLivesTogether
PROPERTIES StalePairStaysStale
CHECK_DEADLOCK FALSE
