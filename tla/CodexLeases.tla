----------------------------- MODULE CodexLeases -----------------------------
(***************************************************************************)
(* The leases that let a supervisor work on a Codex thread: one row per    *)
(* thread and one per canonical worktree in codex_leases, always taken,    *)
(* renewed and released as a pair, and the map leasePairs in which each    *)
(* supervisor process remembers the pairs it holds.                        *)
(*                                                                         *)
(* An owner id is drawn when a process starts, so a process that restarts  *)
(* is a new owner.  expires_at is modelled by the ticks left until then.   *)
(***************************************************************************)
EXTENDS Naturals, FiniteSets

CONSTANTS
    Threads,         \* Codex threads
    Worktrees,       \* canonical worktrees
    Owners,          \* owner ids of supervisor processes
    Ttl,             \* lifetime of a lease, in ticks
    MaxConcurrency,  \* CODEX_SUPERVISOR_MAX_CONCURRENCY
    MaxFence,        \* bound on fencing tokens
    NoPair           \* a thread absent from leasePairs

ASSUME LeaseAssumption ==
    /\ Threads \cap Worktrees = {}
    /\ IsFiniteSet(Worktrees)
    /\ Ttl \in Nat \ {0}
    /\ MaxConcurrency \in Nat \ {0}
    /\ MaxFence \in Nat

VARIABLES
    lease,   \* the table codex_leases, one row per thread and per worktree
    pairs,   \* per owner, its map leasePairs
    process  \* per owner: not started, running or gone

vars == <<lease, pairs, process>>

Resources == Threads \cup Worktrees

\* fence 0 stands for a row that has not been inserted yet.
Leases == [thread: Threads, owner: Owners, fence: Nat, left: 0..Ttl]

Pairs == [worktree: Worktrees, threadFence: Nat, worktreeFence: Nat]

ASSUME NoPairAssumption == NoPair \notin Pairs

Init ==
    /\ \E t \in Threads, o \in Owners :
           lease = [r \in Resources |-> [thread |-> t, owner |-> o, fence |-> 0, left |-> 0]]
    /\ pairs = [o \in Owners |-> [t \in Threads |-> NoPair]]
    /\ process = [o \in Owners |-> "new"]

Live(r) == lease[r].left > 0

LiveWorktrees == {w \in Worktrees : Live(w)}

\* The row r is still the one that (t, o) was given with fencing token f.
Fenced(r, t, o, f) ==
    lease[r].thread = t /\ lease[r].owner = o /\ lease[r].fence = f

\* acquireOne's check: somebody else's live lease.
Taken(r, t, o) == Live(r) /\ (lease[r].owner # o \/ lease[r].thread # t)

\* Mutant of NoRoom: off by one.
NoRoomLate(w) == ~Live(w) /\ Cardinality(LiveWorktrees \ {w}) > MaxConcurrency

\* acquirePair's check: a worktree that is not active yet needs a free place.
NoRoom(w) == ~Live(w) /\ Cardinality(LiveWorktrees \ {w}) >= MaxConcurrency

\* Every grant of a row moves its fencing token on.
NextFence(r) == lease[r].fence + 1

\* ensureLease on a thread without a pair: acquirePair, one transaction.
Acquire(o, t, w) ==
    /\ process[o] = "running"
    /\ pairs[o][t] = NoPair
    /\ ~NoRoom(w)
    /\ ~Taken(t, t, o)
    /\ ~Taken(w, t, o)
    /\ lease[t].fence < MaxFence /\ lease[w].fence < MaxFence
    /\ lease' = [r \in Resources |->
                    IF r \in {t, w}
                    THEN [thread |-> t, owner |-> o, fence |-> NextFence(r), left |-> Ttl]
                    ELSE lease[r]]
    /\ pairs' = [pairs EXCEPT ![o][t] = [worktree |-> w,
                                         threadFence |-> NextFence(t),
                                         worktreeFence |-> NextFence(w)]]
    /\ UNCHANGED process

\* Both rows still carry the fencing tokens of the pair p of thread t.
Current(o, t, p) ==
    /\ Fenced(t, t, o, p.threadFence)
    /\ Fenced(p.worktree, t, o, p.worktreeFence)

\* Mutant of Renew: an expired pair is renewed like a live one.
RenewExpired(o, t) ==
    /\ process[o] = "running"
    /\ pairs[o][t] # NoPair
    /\ Current(o, t, pairs[o][t])
    /\ lease' = [lease EXCEPT ![t].left = Ttl, ![pairs[o][t].worktree].left = Ttl]
    /\ UNCHANGED <<pairs, process>>

\* ensureLease on a thread with a pair only renews it, whatever worktree the
\* thread is in by now; a lost fence rolls the transaction back.
Renew(o, t) ==
    /\ process[o] = "running"
    /\ pairs[o][t] # NoPair
    /\ Current(o, t, pairs[o][t]) /\ Live(t) /\ Live(pairs[o][t].worktree)
    /\ lease' = [lease EXCEPT ![t].left = Ttl, ![pairs[o][t].worktree].left = Ttl]
    /\ UNCHANGED <<pairs, process>>

\* Mutant of ReleasePair: the worktree's row is left to expire.
ReleaseThreadOnly(o, t) ==
    /\ process[o] = "running"
    /\ pairs[o][t] # NoPair
    /\ pairs' = [pairs EXCEPT ![o][t] = NoPair]
    /\ lease' = IF Current(o, t, pairs[o][t])
                THEN [lease EXCEPT ![t].left = 0] ELSE lease
    /\ UNCHANGED process

\* Mutant of ReleasePair: the thread's row is left to expire.
ReleaseWorktreeOnly(o, t) ==
    /\ process[o] = "running"
    /\ pairs[o][t] # NoPair
    /\ pairs' = [pairs EXCEPT ![o][t] = NoPair]
    /\ lease' = IF Current(o, t, pairs[o][t])
                THEN [lease EXCEPT ![pairs[o][t].worktree].left = 0] ELSE lease
    /\ UNCHANGED process

\* releaseThread with a pair: forgotten in any case, expired if still fenced.
ReleasePair(o, t) ==
    /\ process[o] = "running"
    /\ pairs[o][t] # NoPair
    /\ pairs' = [pairs EXCEPT ![o][t] = NoPair]
    /\ lease' = IF Current(o, t, pairs[o][t])
                THEN [lease EXCEPT ![t].left = 0, ![pairs[o][t].worktree].left = 0]
                ELSE lease
    /\ UNCHANGED process

\* releaseThread without a pair: every live lease of the thread and owner.
ReleaseRows(o, t) ==
    /\ process[o] = "running"
    /\ pairs[o][t] = NoPair
    /\ lease' = [r \in Resources |->
                    IF lease[r].thread = t /\ lease[r].owner = o
                    THEN [lease[r] EXCEPT !.left = 0] ELSE lease[r]]
    /\ UNCHANGED <<pairs, process>>

Tick ==
    /\ \E r \in Resources : Live(r)
    /\ lease' = [r \in Resources |->
                    [lease[r] EXCEPT !.left = IF @ = 0 THEN 0 ELSE @ - 1]]
    /\ UNCHANGED <<pairs, process>>

Start(o) ==
    /\ process[o] = "new"
    /\ process' = [process EXCEPT ![o] = "running"]
    /\ UNCHANGED <<lease, pairs>>

\* The process stops; its rows stay until they expire, its map is lost.
Stop(o) ==
    /\ process[o] = "running"
    /\ process' = [process EXCEPT ![o] = "gone"]
    /\ pairs' = [pairs EXCEPT ![o] = [t \in Threads |-> NoPair]]
    /\ UNCHANGED lease

Next ==
    \/ \E o \in Owners, t \in Threads, w \in Worktrees : Acquire(o, t, w)
    \/ \E o \in Owners, t \in Threads : Renew(o, t) \/ ReleasePair(o, t) \/ ReleaseRows(o, t)
    \/ \E o \in Owners : Start(o) \/ Stop(o)
    \/ Tick

Spec == Init /\ [][Next]_vars

-----------------------------------------------------------------------------
TypeOK ==
    /\ lease \in [Resources -> Leases]
    /\ pairs \in [Owners -> [Threads -> Pairs \cup {NoPair}]]
    /\ process \in [Owners -> {"new", "running", "gone"}]

\* However many supervisors compete, restart and lose their maps, no more than
\* MaxConcurrency worktrees are leased at a time (codex-supervisor.md:15).
ConcurrencyLimit == Cardinality(LiveWorktrees) <= MaxConcurrency

\* A worktree is leased exactly as long as the thread that works in it: a pair
\* never lives on with one half expired or taken over by somebody else, neither
\* its worktree without the thread nor the thread without a worktree of its
\* own, whatever worktree it moved to in the meantime.
WorktreeHasThread ==
    \A w \in Worktrees :
        Live(w) => /\ lease[lease[w].thread].left = lease[w].left
                   /\ lease[lease[w].thread].owner = lease[w].owner

ThreadHasWorktree ==
    \A t \in Threads : Live(t) => \E w \in Worktrees : Live(w) /\ lease[w].thread = t

PairLivesTogether == WorktreeHasThread /\ ThreadHasWorktree

\* A thread is never leased in two worktrees at once.
OneWorktreePerThread ==
    \A v, w \in LiveWorktrees : lease[v].thread = lease[w].thread => v = w

\* The strengthening the proofs use: a running process still has in its map
\* every pair whose worktree it keeps leased, an owner that has not started
\* holds nothing, and a live thread row belongs to its thread.
InMap(o, t, w) ==
    /\ process[o] # "new"
    /\ process[o] = "running" => /\ pairs[o][t] # NoPair
                                 /\ pairs[o][t].worktree = w
                                 /\ Current(o, t, pairs[o][t])

Tracked == \A w \in LiveWorktrees : InMap(lease[w].owner, lease[w].thread, w)

ThreadRowsOwn == \A t \in Threads : Live(t) => lease[t].thread = t

LeaseInv ==
    /\ WorktreeHasThread
    /\ OneWorktreePerThread
    /\ Tracked
    /\ ThreadRowsOwn

\* A pair that is out of date, because it expired or because its fence moved
\* on, can never be used again: nothing brings its old authority back.
Usable(o, t) ==
    /\ pairs[o][t] # NoPair
    /\ Current(o, t, pairs[o][t])
    /\ Live(t) /\ Live(pairs[o][t].worktree)

StalePairStaysStale ==
    [][\A o \in Owners, t \in Threads :
        (~Usable(o, t) /\ Usable(o, t)') => pairs'[o][t] # pairs[o][t]]_vars
=============================================================================
