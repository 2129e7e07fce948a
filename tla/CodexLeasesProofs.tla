-------------------------- MODULE CodexLeasesProofs --------------------------
(***************************************************************************)
(* Proofs about the codex leases, for any threads, worktrees, owners,      *)
(* lifetime and concurrency limit.  LeaseInv is inductive; the limit on    *)
(* worktrees is inductive by itself.                                       *)
(***************************************************************************)
EXTENDS CodexLeases, TLAPS, FiniteSetTheorems

\* The types are kept by Init and by every step.
LEMMA InitTypeOK == Init => TypeOK
  <1> SUFFICES ASSUME Init PROVE TypeOK
    OBVIOUS
  <1>1. lease \in [Resources -> Leases]
    <2>1. PICK t \in Threads, o \in Owners :
             lease = [r \in Resources |-> [thread |-> t, owner |-> o, fence |-> 0, left |-> 0]]
      BY DEF Init
    <2>2. 0 \in 0..Ttl
      BY LeaseAssumption
    <2> QED BY <2>1, <2>2 DEF Leases
  <1> QED BY <1>1 DEF Init, TypeOK

\* What Acquire does to each row.
AcquireEffect(o, t, w) ==
    /\ \A r \in {t, w} : /\ lease'[r].thread = t /\ lease'[r].owner = o
                         /\ lease'[r].fence = NextFence(r)
                         /\ lease'[r].left = Ttl
    /\ \A r \in Resources \ {t, w} : lease'[r] = lease[r]
    /\ pairs[o][t] = NoPair
    /\ pairs'[o][t] = [worktree |-> w, threadFence |-> NextFence(t), worktreeFence |-> NextFence(w)]
    /\ \A p \in Owners, s \in Threads : <<p, s>> # <<o, t>> => pairs'[p][s] = pairs[p][s]
    /\ process' = process /\ process[o] = "running"
    /\ lease' \in [Resources -> Leases]
    /\ pairs' \in [Owners -> [Threads -> Pairs \cup {NoPair}]]

LEMMA AcquireFrame ==
    ASSUME TypeOK, NEW o \in Owners, NEW t \in Threads, NEW w \in Worktrees, Acquire(o, t, w)
    PROVE  AcquireEffect(o, t, w)
  <1> DEFINE row(r) == [thread |-> t, owner |-> o, fence |-> NextFence(r), left |-> Ttl]
  <1>1. t \in Resources /\ w \in Resources
    BY DEF Resources
  <1>2. \A r \in Resources : lease[r].fence \in Nat
    BY DEF TypeOK, Leases
  <1>3. Ttl \in 0..Ttl
    BY LeaseAssumption
  <1>4. \A r \in Resources : NextFence(r) \in Nat /\ row(r) \in Leases
    BY <1>2, <1>3 DEF Leases, NextFence
  <1>5. \A r \in Resources : lease'[r] = IF r \in {t, w} THEN row(r) ELSE lease[r]
    BY DEF Acquire
  <1>6. lease' \in [Resources -> Leases]
    BY <1>4 DEF Acquire, TypeOK
  <1> DEFINE pair == [worktree |-> w, threadFence |-> NextFence(t),
                      worktreeFence |-> NextFence(w)]
  <1>7. pair \in Pairs
    BY <1>1, <1>4 DEF Pairs
  <1>8. pairs' = [pairs EXCEPT ![o][t] = pair]
    BY DEF Acquire
  <1>9. pairs' \in [Owners -> [Threads -> Pairs \cup {NoPair}]]
    BY <1>7, <1>8 DEF TypeOK
  <1>10. pairs'[o][t] = pair /\ \A p \in Owners, s \in Threads :
             <<p, s>> # <<o, t>> => pairs'[p][s] = pairs[p][s]
    BY <1>8 DEF TypeOK
  <1> HIDE DEF pair
  <1>11. pairs[o][t] = NoPair /\ process' = process /\ process[o] = "running"
    BY DEF Acquire
  <1>12. \A r \in {t, w} : /\ lease'[r].thread = t /\ lease'[r].owner = o
                            /\ lease'[r].fence = NextFence(r)
                            /\ lease'[r].left = Ttl
    <2>1. \A r \in {t, w} : lease'[r] = row(r)
      BY <1>1, <1>5
    <2> QED BY <2>1
  <1>13. \A r \in Resources \ {t, w} : lease'[r] = lease[r]
    BY <1>5
  <1> QED BY <1>6, <1>9, <1>10, <1>11, <1>12, <1>13 DEF pair, AcquireEffect

\* Renewing sets the two rows of the pair back to Ttl, both of them live.
LEMMA RenewFrame ==
    ASSUME TypeOK, NEW o \in Owners, NEW t \in Threads, Renew(o, t)
    PROVE  /\ pairs[o][t] \in Pairs
           /\ Current(o, t, pairs[o][t])
           /\ \A r \in {t, pairs[o][t].worktree} :
                 /\ lease[r].left > 0 /\ lease'[r].left = Ttl
                 /\ lease'[r].thread = lease[r].thread /\ lease'[r].owner = lease[r].owner
                 /\ lease'[r].fence = lease[r].fence
           /\ \A r \in Resources \ {t, pairs[o][t].worktree} : lease'[r] = lease[r]
           /\ lease' \in [Resources -> Leases]
           /\ pairs' = pairs /\ process' = process
  <1> DEFINE w == pairs[o][t].worktree
  <1>1. pairs[o][t] \in Pairs
    BY DEF Renew, TypeOK
  <1>2. w \in Worktrees
    BY <1>1 DEF Pairs
  <1>3. t \in Resources /\ w \in Resources /\ t # w
    BY <1>2, LeaseAssumption DEF Resources
  <1>4. lease' = [lease EXCEPT ![t].left = Ttl, ![w].left = Ttl]
    BY DEF Renew
  <1>5. Ttl \in 0..Ttl
    BY LeaseAssumption
  <1>6. lease[t].left > 0 /\ lease[w].left > 0
    BY DEF Renew, Live
  <1>7. Current(o, t, pairs[o][t]) /\ pairs' = pairs /\ process' = process
    BY DEF Renew
  <1>8. \A r \in {t, w} :
           /\ lease'[r].left = Ttl
           /\ lease'[r].thread = lease[r].thread /\ lease'[r].owner = lease[r].owner
           /\ lease'[r].fence = lease[r].fence
    BY <1>3, <1>4 DEF TypeOK, Leases
  <1>9. lease' \in [Resources -> Leases]
    BY SMTT(20), ZenonT(30), <1>3, <1>4, <1>5 DEF TypeOK, Leases
  <1>10. \A r \in Resources \ {t, w} : lease'[r] = lease[r]
    BY <1>3, <1>4 DEF TypeOK
  <1> QED BY <1>1, <1>6, <1>7, <1>8, <1>9, <1>10

\* Releases and the passage of time only shorten leases.
Shortens ==
    /\ lease' \in [Resources -> Leases]
    /\ \A r \in Resources : /\ lease'[r].left <= lease[r].left
                            /\ lease'[r].thread = lease[r].thread
                            /\ lease'[r].owner = lease[r].owner
                            /\ lease'[r].fence = lease[r].fence

LEMMA ReleasePairFrame ==
    ASSUME TypeOK, NEW o \in Owners, NEW t \in Threads, ReleasePair(o, t)
    PROVE  /\ Shortens
           /\ pairs[o][t] \in Pairs
           /\ pairs'[o][t] = NoPair
           /\ \A p \in Owners, s \in Threads : <<p, s>> # <<o, t>> => pairs'[p][s] = pairs[p][s]
           /\ pairs' \in [Owners -> [Threads -> Pairs \cup {NoPair}]]
           /\ process' = process
           /\ Current(o, t, pairs[o][t]) =>
                 /\ \A r \in {t, pairs[o][t].worktree} : lease'[r].left = 0
                 /\ \A r \in Resources \ {t, pairs[o][t].worktree} : lease'[r] = lease[r]
           /\ ~Current(o, t, pairs[o][t]) => lease' = lease
  <1> DEFINE w == pairs[o][t].worktree
  <1>1. pairs[o][t] \in Pairs /\ process' = process
    BY DEF ReleasePair, TypeOK
  <1>2. w \in Worktrees
    BY <1>1 DEF Pairs
  <1>3. t \in Resources /\ w \in Resources /\ t # w
    BY <1>2, LeaseAssumption DEF Resources
  <1>4. 0 \in 0..Ttl /\ \A n \in 0..Ttl : 0 <= n /\ n <= n
    BY LeaseAssumption
  <1>5. \A r \in Resources : lease[r] \in Leases /\ lease[r].left \in 0..Ttl
    BY DEF TypeOK, Leases
  <1>6. pairs' = [pairs EXCEPT ![o][t] = NoPair]
    BY DEF ReleasePair
  <1>7. /\ pairs'[o][t] = NoPair
        /\ \A p \in Owners, s \in Threads : <<p, s>> # <<o, t>> => pairs'[p][s] = pairs[p][s]
        /\ pairs' \in [Owners -> [Threads -> Pairs \cup {NoPair}]]
    BY <1>6 DEF TypeOK
  <1>8. CASE Current(o, t, pairs[o][t])
    <2>1. lease' = [lease EXCEPT ![t].left = 0, ![w].left = 0]
      BY <1>8 DEF ReleasePair
    <2>2. \A r \in {t, w} : /\ lease'[r].left = 0
                            /\ lease'[r].thread = lease[r].thread
                            /\ lease'[r].owner = lease[r].owner
                            /\ lease'[r].fence = lease[r].fence
      BY <2>1, <1>3, <1>5 DEF TypeOK, Leases
    <2>3. \A r \in Resources \ {t, w} : lease'[r] = lease[r]
      BY <2>1, <1>3 DEF TypeOK
    <2>4. lease' \in [Resources -> Leases]
      BY SMTT(20), <2>1, <1>3, <1>4 DEF TypeOK, Leases
    <2> QED BY SMTT(20), <1>1, <1>4, <1>5, <1>7, <1>8, <2>2, <2>3, <2>4 DEF Shortens
  <1>9. CASE ~Current(o, t, pairs[o][t])
    <2>1. lease' = lease
      BY <1>9 DEF ReleasePair
    <2> QED BY <1>1, <1>4, <1>5, <1>7, <1>9, <2>1 DEF Shortens, TypeOK
  <1> QED BY <1>8, <1>9

LEMMA ReleaseRowsFrame ==
    ASSUME TypeOK, NEW o \in Owners, NEW t \in Threads, ReleaseRows(o, t)
    PROVE  /\ Shortens
           /\ \A r \in Resources : IF lease[r].thread = t /\ lease[r].owner = o
                                   THEN lease'[r].left = 0 ELSE lease'[r] = lease[r]
           /\ pairs' = pairs /\ process' = process
  <1>1. \A r \in Resources : lease'[r] = IF lease[r].thread = t /\ lease[r].owner = o
                                         THEN [lease[r] EXCEPT !.left = 0] ELSE lease[r]
    BY DEF ReleaseRows
  <1>2. \A r \in Resources : lease[r] \in Leases
    BY DEF TypeOK
  <1>3. 0 \in 0..Ttl
    BY LeaseAssumption
  <1>4. lease' \in [Resources -> Leases]
    <2>1. \A r \in Resources : [lease[r] EXCEPT !.left = 0] \in Leases
      BY <1>2, <1>3 DEF Leases
    <2> QED BY <1>2, <2>1 DEF ReleaseRows
  <1>5. \A r \in Resources : /\ lease'[r].thread = lease[r].thread
                             /\ lease'[r].owner = lease[r].owner
                             /\ lease'[r].fence = lease[r].fence
    BY <1>1, <1>2 DEF Leases
  <1>6. pairs' = pairs /\ process' = process
    BY DEF ReleaseRows
  <1>7. \A r \in Resources : IF lease[r].thread = t /\ lease[r].owner = o
                             THEN lease'[r].left = 0 ELSE lease'[r] = lease[r]
    BY <1>1, <1>2 DEF Leases
  <1>8. \A r \in Resources : lease'[r].left <= lease[r].left
    BY <1>2, <1>7 DEF Leases
  <1> QED BY <1>4, <1>5, <1>6, <1>7, <1>8 DEF Shortens

LEMMA TickFrame ==
    ASSUME TypeOK, Tick
    PROVE  /\ Shortens
           /\ \A r \in Resources :
                 lease'[r].left = IF lease[r].left = 0 THEN 0 ELSE lease[r].left - 1
           /\ pairs' = pairs /\ process' = process
  <1>1. \A r \in Resources :
           lease'[r] = [lease[r] EXCEPT !.left = IF @ = 0 THEN 0 ELSE @ - 1]
    BY DEF Tick
  <1>2. \A r \in Resources : lease[r] \in Leases
    BY DEF TypeOK
  <1>3. \A n \in 0..Ttl : (IF n = 0 THEN 0 ELSE n - 1) \in 0..Ttl
    BY LeaseAssumption
  <1>4. lease' \in [Resources -> Leases]
    <2>1. \A r \in Resources :
             [lease[r] EXCEPT !.left = IF @ = 0 THEN 0 ELSE @ - 1] \in Leases
      BY <1>2, <1>3 DEF Leases
    <2> QED BY <2>1 DEF Tick
  <1>5. \A r \in Resources : /\ lease'[r].thread = lease[r].thread
                             /\ lease'[r].owner = lease[r].owner
                             /\ lease'[r].fence = lease[r].fence
    BY <1>1, <1>2 DEF Leases
  <1>6. \A r \in Resources :
           lease'[r].left = IF lease[r].left = 0 THEN 0 ELSE lease[r].left - 1
    BY <1>1, <1>2 DEF Leases
  <1>7. \A r \in Resources : lease'[r].left <= lease[r].left
    BY <1>2, <1>6 DEF Leases
  <1> QED BY <1>4, <1>5, <1>6, <1>7 DEF Shortens, Tick

\* No step leaves the types.
LEMMA NextTypeOK == TypeOK /\ [Next]_vars => TypeOK'
  <1> SUFFICES ASSUME TypeOK, [Next]_vars PROVE TypeOK'
    OBVIOUS
  <1>1. ASSUME NEW o \in Owners, NEW t \in Threads, NEW w \in Worktrees, Acquire(o, t, w)
        PROVE  TypeOK'
    BY SMTT(20), ZenonT(30), <1>1, AcquireFrame DEF TypeOK, AcquireEffect
  <1>2. ASSUME NEW o \in Owners, NEW t \in Threads, Renew(o, t)
        PROVE  TypeOK'
    BY <1>2, RenewFrame DEF TypeOK
  <1>3. ASSUME NEW o \in Owners, NEW t \in Threads, ReleasePair(o, t)
        PROVE  TypeOK'
    BY <1>3, ReleasePairFrame DEF TypeOK, Shortens
  <1>4. ASSUME NEW o \in Owners, NEW t \in Threads, ReleaseRows(o, t)
        PROVE  TypeOK'
    BY <1>4, ReleaseRowsFrame DEF TypeOK, Shortens
  <1>5. ASSUME NEW o \in Owners, Start(o) \/ Stop(o)
        PROVE  TypeOK'
    BY SMTT(20), ZenonT(30), <1>5 DEF Start, Stop, TypeOK
  <1>6. ASSUME Tick
        PROVE  TypeOK'
    BY <1>6, TickFrame DEF TypeOK, Shortens
  <1>7. CASE UNCHANGED vars
    BY <1>7 DEF vars, TypeOK
  <1> QED BY <1>1, <1>2, <1>3, <1>4, <1>5, <1>6, <1>7 DEF Next

\* The variables keep their types.
THEOREM LeasesTypeCorrect == Spec => []TypeOK
  BY InitTypeOK, NextTypeOK, PTL DEF Spec

-----------------------------------------------------------------------------
\* A step after which no more worktrees are live than before keeps the limit.
LEMMA FewerLive ==
    ASSUME ConcurrencyLimit, LiveWorktrees' \subseteq LiveWorktrees
    PROVE  ConcurrencyLimit'
  <1>1. IsFiniteSet(LiveWorktrees)
    BY FS_Subset, LeaseAssumption DEF LiveWorktrees
  <1>2. Cardinality(LiveWorktrees') <= Cardinality(LiveWorktrees)
        /\ IsFiniteSet(LiveWorktrees')
    BY <1>1, FS_Subset
  <1>3. Cardinality(LiveWorktrees) \in Nat /\ Cardinality(LiveWorktrees') \in Nat
    BY <1>1, <1>2, FS_CardinalityType
  <1> QED BY <1>2, <1>3, LeaseAssumption DEF ConcurrencyLimit

\* At most MaxConcurrency worktrees are leased at a time, whatever the number
\* of supervisor processes, their restarts and the expiry of their leases.
THEOREM ConcurrencyLimited == Spec => []ConcurrencyLimit
  <1>1. Init => ConcurrencyLimit
    <2> SUFFICES ASSUME Init PROVE ConcurrencyLimit
      OBVIOUS
    <2>1. LiveWorktrees = {}
      BY DEF Init, LiveWorktrees, Live, Resources
    <2>2. Cardinality(LiveWorktrees) = 0
      BY <2>1, FS_EmptySet
    <2> QED BY <2>2, LeaseAssumption DEF ConcurrencyLimit
  <1>2. ASSUME TypeOK, ConcurrencyLimit, [Next]_vars
        PROVE  ConcurrencyLimit'
    <2> USE <1>2
    <2>1. ASSUME NEW o \in Owners, NEW t \in Threads, NEW w \in Worktrees, Acquire(o, t, w)
          PROVE  ConcurrencyLimit'
      <3>1. LiveWorktrees' \subseteq LiveWorktrees \cup {w}
        <4>1. \A v \in Worktrees \ {w} : lease'[v] = lease[v]
          <5>1. \A v \in Worktrees \ {w} : v \in Resources \ {t, w}
            BY LeaseAssumption DEF Resources
          <5>2. AcquireEffect(o, t, w)
            BY <2>1, AcquireFrame
          <5> QED BY <5>1, <5>2 DEF AcquireEffect
        <4>2. \A v \in Worktrees : v # w /\ Live(v)' => Live(v)
          BY <4>1 DEF Live
        <4> QED BY <4>2 DEF LiveWorktrees
      <3>2. CASE Live(w)
        <4>1. LiveWorktrees' \subseteq LiveWorktrees
          BY <3>1, <3>2 DEF LiveWorktrees
        <4> QED BY <4>1, FewerLive
      <3>3. CASE ~Live(w)
        <4>1. LiveWorktrees \ {w} = LiveWorktrees /\ w \notin LiveWorktrees
          BY <3>3 DEF LiveWorktrees
        <4>2. IsFiniteSet(LiveWorktrees)
          BY FS_Subset, LeaseAssumption DEF LiveWorktrees
        <4>3. Cardinality(LiveWorktrees) \in Nat
          BY <4>2, FS_CardinalityType
        <4>4. ~(Cardinality(LiveWorktrees) >= MaxConcurrency)
          BY <2>1, <3>3, <4>1 DEF Acquire, NoRoom
        <4>5. /\ IsFiniteSet(LiveWorktrees \cup {w})
              /\ Cardinality(LiveWorktrees \cup {w}) = Cardinality(LiveWorktrees) + 1
          BY <4>1, <4>2, FS_AddElement
        <4>6. /\ IsFiniteSet(LiveWorktrees')
              /\ Cardinality(LiveWorktrees') <= Cardinality(LiveWorktrees \cup {w})
          BY <3>1, <4>5, FS_Subset
        <4>7. Cardinality(LiveWorktrees') \in Nat
          BY <4>6, FS_CardinalityType
        <4> QED BY <4>3, <4>4, <4>5, <4>6, <4>7, LeaseAssumption DEF ConcurrencyLimit
      <3> QED BY <3>2, <3>3
    <2>2. ASSUME NEW o \in Owners, NEW t \in Threads, Renew(o, t)
          PROVE  ConcurrencyLimit'
      <3>1. LiveWorktrees' \subseteq LiveWorktrees
        <4>1. \A v \in Worktrees : lease'[v] = lease[v] \/ lease[v].left > 0
          BY <2>2, RenewFrame DEF Resources
        <4> QED BY <4>1 DEF LiveWorktrees, Live
      <3> QED BY <3>1, FewerLive
    <2>3. ASSUME Shortens
          PROVE  ConcurrencyLimit'
      <3>1. \A w \in Worktrees : lease[w].left \in Nat /\ lease'[w].left \in Nat
                                 /\ lease'[w].left <= lease[w].left
        BY <2>3 DEF Shortens, Resources, TypeOK, Leases
      <3>2. LiveWorktrees' \subseteq LiveWorktrees
        BY <3>1 DEF LiveWorktrees, Live
      <3> QED BY <3>2, FewerLive
    <2>4. ASSUME lease' = lease
          PROVE  ConcurrencyLimit'
      <3>1. LiveWorktrees' \subseteq LiveWorktrees
        BY <2>4 DEF LiveWorktrees, Live
      <3> QED BY <3>1, FewerLive
    <2> QED
      BY <2>1, <2>2, <2>3, <2>4, ReleasePairFrame, ReleaseRowsFrame, TickFrame
      DEF Next, Start, Stop, vars
  <1> QED BY <1>1, <1>2, LeasesTypeCorrect, PTL DEF Spec

-----------------------------------------------------------------------------
\* A pair is a record and NoPair is not one of them.
LEMMA NoPairFresh == \A p \in Pairs : p # NoPair
  BY NoPairAssumption

\* Initially no row is live.
LEMMA InitLeaseInv == Init => LeaseInv
  <1> SUFFICES ASSUME Init PROVE LeaseInv
    OBVIOUS
  <1>1. \A r \in Resources : ~Live(r)
    BY DEF Init, Live
  <1>2. LiveWorktrees = {}
    BY <1>1 DEF LiveWorktrees, Resources
  <1> QED
    BY <1>1, <1>2
    DEF LeaseInv, WorktreeHasThread, OneWorktreePerThread, Tracked, ThreadRowsOwn, Resources

\* A pair stays in its owner's map as long as the map and the rows' fences do.
LEMMA InMapKept ==
    ASSUME NEW o, NEW t, NEW w, InMap(o, t, w),
           process'[o] = process[o], pairs'[o][t] = pairs[o][t],
           lease'[t].thread = lease[t].thread, lease'[t].owner = lease[t].owner,
           lease'[t].fence = lease[t].fence,
           lease'[w].thread = lease[w].thread, lease'[w].owner = lease[w].owner,
           lease'[w].fence = lease[w].fence
    PROVE  InMap(o, t, w)'
  <1>1. ASSUME process[o] = "running"
        PROVE  /\ pairs'[o][t] # NoPair
               /\ pairs'[o][t].worktree = w
               /\ Current(o, t, pairs[o][t])'
    <2>1. pairs[o][t] # NoPair /\ pairs[o][t].worktree = w /\ Current(o, t, pairs[o][t])
      BY <1>1 DEF InMap
    <2> QED BY <2>1 DEF Current, Fenced
  <1>2. process'[o] # "new"
    BY DEF InMap
  <1> QED BY <1>1, <1>2 DEF InMap

\* The four parts of LeaseInv are inductive together: Renew and the releases
\* find both halves of a pair because Tracked keeps every live pair in its map.
LEMMA NextLeaseInv ==
    ASSUME TypeOK, LeaseInv, [Next]_vars
    PROVE  LeaseInv'
  <1>0. \A r \in Resources : lease[r].left \in Nat /\ lease[r].thread \in Threads
                             /\ lease[r].owner \in Owners /\ lease[r].fence \in Nat
    BY LeaseAssumption DEF TypeOK, Leases
  <1>a. \A w \in Worktrees, t \in Threads : w # t /\ w \in Resources /\ t \in Resources
    BY LeaseAssumption DEF Resources
  <1>b. \A w \in Worktrees : lease[w].thread \in Threads /\ lease[w].owner \in Owners
    BY <1>0, <1>a DEF Resources
  <1>1. ASSUME NEW o \in Owners, NEW t \in Threads, NEW w \in Worktrees, Acquire(o, t, w)
        PROVE  LeaseInv'
    <2>. AcquireEffect(o, t, w)
      BY <1>1, AcquireFrame
    <2>0. /\ \A r \in {t, w} : /\ lease'[r].thread = t /\ lease'[r].owner = o
                               /\ lease'[r].fence = NextFence(r)
                               /\ lease'[r].left = Ttl
          /\ \A r \in Resources \ {t, w} : lease'[r] = lease[r]
          /\ pairs[o][t] = NoPair
          /\ \A p \in Owners, s \in Threads : <<p, s>> # <<o, t>> => pairs'[p][s] = pairs[p][s]
          /\ process' = process /\ process[o] = "running"
      BY DEF AcquireEffect
    <2>1. pairs'[o][t] = [worktree |-> w, threadFence |-> NextFence(t),
                          worktreeFence |-> NextFence(w)]
      BY DEF AcquireEffect
    <2>2. ~Taken(t, t, o) /\ ~Taken(w, t, o)
      BY <1>1 DEF Acquire
    \* No other worktree is leased for this thread: its pair would be in the map.
    <2>3. \A v \in Worktrees : Live(v) => lease[v].thread # t
      <3> SUFFICES ASSUME NEW v \in Worktrees, Live(v), lease[v].thread = t
                   PROVE  FALSE
        OBVIOUS
      <3>1. lease[t].left = lease[v].left /\ lease[t].owner = lease[v].owner
        BY DEF LeaseInv, WorktreeHasThread
      <3>2. Live(t)
        BY <3>1 DEF Live
      <3>3. lease[v].owner = o
        BY <2>2, <3>1, <3>2 DEF Taken
      <3> QED BY <2>0, <3>3 DEF LeaseInv, Tracked, InMap, LiveWorktrees
    <2>4. \A v \in Worktrees \ {w} : lease'[v] = lease[v]
      BY <1>a, <2>0
    <2>5. \A s \in Threads \ {t} : lease'[s] = lease[s]
      BY <1>a, <2>0
    <2>6. \A v \in Worktrees \ {w} : Live(v)' = Live(v)
      BY <2>4 DEF Live
    <2>7. WorktreeHasThread'
      BY <1>b, <2>0, <2>3, <2>4, <2>5, <2>6 DEF LeaseInv, WorktreeHasThread
    <2>8. OneWorktreePerThread'
      BY <2>0, <2>3, <2>4, <2>6 DEF LeaseInv, OneWorktreePerThread, LiveWorktrees
    <2>9. Tracked'
      <3> SUFFICES ASSUME NEW v \in Worktrees, Live(v)'
                   PROVE  InMap(lease[v].owner, lease[v].thread, v)'
        BY DEF Tracked, LiveWorktrees
      <3>1. CASE v = w
        <4>1. lease'[v].owner = o /\ lease'[v].thread = t
          BY <2>0, <3>1
        <4>2. InMap(o, t, v)'
          <5>1. process'[o] = "running"
            BY <2>0
          <5>2. pairs'[o][t] # NoPair /\ pairs'[o][t].worktree = v
            <6>1. pairs'[o][t] \in Pairs \cup {NoPair} /\ NextFence(t) \in Nat /\ NextFence(w) \in Nat
              BY <1>0, <1>a DEF AcquireEffect, NextFence, Resources
            <6>2. pairs'[o][t] \in Pairs
              BY <2>1, <6>1 DEF Pairs
            <6> QED BY <2>1, <3>1, <6>2, NoPairFresh
          <5>3. Current(o, t, pairs[o][t])'
            BY <2>0, <2>1, <3>1 DEF Current, Fenced
          <5> QED BY <5>1, <5>2, <5>3 DEF InMap
        <4> QED BY <4>1, <4>2
      <3>2. CASE v # w
        <4>1. lease'[v] = lease[v] /\ Live(v) /\ lease[v].thread # t
          BY <2>3, <2>4, <2>6, <3>2
        <4>2. lease[v].thread \in Threads /\ lease[v].owner \in Owners
          BY <1>b
        <4>3. lease'[lease[v].thread] = lease[lease[v].thread]
              /\ pairs'[lease[v].owner][lease[v].thread] = pairs[lease[v].owner][lease[v].thread]
          BY <2>0, <2>5, <4>1, <4>2
        <4>4. InMap(lease[v].owner, lease[v].thread, v)
          BY <4>1 DEF LeaseInv, Tracked, LiveWorktrees
        <4> QED BY <2>0, <4>1, <4>3, <4>4, InMapKept
      <3> QED BY <3>1, <3>2
    <2>10. ThreadRowsOwn'
      BY <2>0, <2>5 DEF LeaseInv, ThreadRowsOwn, Live
    <2> QED BY <2>7, <2>8, <2>9, <2>10 DEF LeaseInv
  <1>2. ASSUME NEW o \in Owners, NEW t \in Threads, Renew(o, t)
        PROVE  LeaseInv'
    <2> DEFINE w == pairs[o][t].worktree
    <2>0. /\ pairs[o][t] \in Pairs
          /\ Current(o, t, pairs[o][t])
          /\ \A r \in {t, w} :
                /\ lease[r].left > 0 /\ lease'[r].left = Ttl
                /\ lease'[r].thread = lease[r].thread /\ lease'[r].owner = lease[r].owner
                /\ lease'[r].fence = lease[r].fence
          /\ \A r \in Resources \ {t, w} : lease'[r] = lease[r]
          /\ pairs' = pairs /\ process' = process
      BY <1>2, RenewFrame
    <2>1. w \in Worktrees /\ lease[w].thread = t /\ Live(w)
      BY <2>0 DEF Pairs, Current, Fenced, Live
    <2> HIDE DEF w
    <2>2. \A r \in Resources : /\ Live(r)' = Live(r)
                               /\ lease'[r].thread = lease[r].thread
                               /\ lease'[r].owner = lease[r].owner
                               /\ lease'[r].fence = lease[r].fence
      BY <2>0, LeaseAssumption DEF Live
    <2>3. OneWorktreePerThread'
      BY <1>a, <2>2 DEF LeaseInv, OneWorktreePerThread, LiveWorktrees
    <2>4. \A v \in Worktrees : Live(v) /\ v # w => lease[v].thread # t
      BY <2>1 DEF LeaseInv, OneWorktreePerThread, LiveWorktrees
    <2>5. WorktreeHasThread'
      <3> SUFFICES ASSUME NEW v \in Worktrees, Live(v)'
                   PROVE  /\ lease'[lease'[v].thread].left = lease'[v].left
                          /\ lease'[lease'[v].thread].owner = lease'[v].owner
        BY DEF WorktreeHasThread
      <3>1. /\ Live(v) /\ lease'[v].thread = lease[v].thread /\ lease'[v].owner = lease[v].owner
            /\ lease[lease[v].thread].left = lease[v].left
            /\ lease[lease[v].thread].owner = lease[v].owner
            /\ lease[v].thread \in Threads /\ lease[v].thread \in Resources
        BY <1>a, <1>b, <2>2 DEF LeaseInv, WorktreeHasThread
      <3>2. lease'[lease[v].thread].owner = lease[v].owner
        BY <2>2, <3>1
      <3>3. lease'[lease[v].thread].left = lease'[v].left
        BY <1>a, <2>0, <2>1, <2>4, <3>1
      <3> QED BY <3>1, <3>2, <3>3
    <2>6. Tracked'
      <3> SUFFICES ASSUME NEW v \in Worktrees, Live(v)'
                   PROVE  InMap(lease[v].owner, lease[v].thread, v)'
        BY DEF Tracked, LiveWorktrees
      <3>1. /\ Live(v) /\ lease'[v].thread = lease[v].thread /\ lease'[v].owner = lease[v].owner
            /\ lease[v].thread \in Resources /\ v \in Resources
        BY <1>a, <1>b, <2>2
      <3>2. InMap(lease[v].owner, lease[v].thread, v)
        BY <3>1 DEF LeaseInv, Tracked, LiveWorktrees
      <3>3. InMap(lease[v].owner, lease[v].thread, v)
            => /\ process'[lease[v].owner] = process[lease[v].owner]
               /\ pairs'[lease[v].owner][lease[v].thread] = pairs[lease[v].owner][lease[v].thread]
        BY <2>0
      <3> DEFINE u == lease[v].owner
                 s == lease[v].thread
      <3>4. /\ lease'[s].thread = lease[s].thread /\ lease'[s].owner = lease[s].owner
            /\ lease'[s].fence = lease[s].fence
            /\ lease'[v].thread = s /\ lease'[v].owner = u /\ lease'[v].fence = lease[v].fence
        BY <2>2, <3>1
      <3> QED BY <3>2, <3>3, <3>4, InMapKept
    <2>7. ThreadRowsOwn'
      BY <1>a, <2>2 DEF LeaseInv, ThreadRowsOwn, Resources
    <2> QED BY <2>3, <2>5, <2>6, <2>7 DEF LeaseInv
  <1>3. ASSUME NEW o \in Owners, NEW t \in Threads, ReleasePair(o, t)
        PROVE  LeaseInv'
    <2> DEFINE w == pairs[o][t].worktree
    <2>0. /\ Shortens
          /\ pairs[o][t] \in Pairs
          /\ \A p \in Owners, s \in Threads : <<p, s>> # <<o, t>> => pairs'[p][s] = pairs[p][s]
          /\ process' = process
          /\ Current(o, t, pairs[o][t]) =>
                /\ \A r \in {t, w} : lease'[r].left = 0
                /\ \A r \in Resources \ {t, w} : lease'[r] = lease[r]
          /\ ~Current(o, t, pairs[o][t]) => lease' = lease
      BY <1>3, ReleasePairFrame
    <2>1. process[o] = "running"
      BY <1>3 DEF ReleasePair
    <2>2. w \in Worktrees
      BY <2>0 DEF Pairs
    \* What (o, t) leases is the worktree of its pair, so nothing of it is left.
    <2>3. \A v \in Worktrees : Live(v)' =>
             /\ Live(v) /\ lease'[v] = lease[v]
             /\ <<lease[v].owner, lease[v].thread>> # <<o, t>>
             /\ lease'[lease[v].thread] = lease[lease[v].thread]
      <3> SUFFICES ASSUME NEW v \in Worktrees, Live(v)'
                   PROVE  /\ Live(v) /\ lease'[v] = lease[v]
                          /\ <<lease[v].owner, lease[v].thread>> # <<o, t>>
                          /\ lease'[lease[v].thread] = lease[lease[v].thread]
        OBVIOUS
      <3>1. Live(v) /\ lease[v].thread \in Threads
        <4>1. lease'[v].left <= lease[v].left /\ lease[v].left \in Nat
          BY <1>0, <1>a, <2>0 DEF Shortens, Resources
        <4>2. lease'[v].left \in Nat
          BY <1>a, <2>0 DEF Shortens, Leases, Resources
        <4> QED BY <1>b, <4>1, <4>2 DEF Live
      <3>2. InMap(lease[v].owner, lease[v].thread, v)
        BY <3>1 DEF LeaseInv, Tracked, LiveWorktrees
      <3>3. <<lease[v].owner, lease[v].thread>> = <<o, t>> =>
               Current(o, t, pairs[o][t]) /\ w = v
        BY <2>1, <3>2 DEF InMap
      <3>4. <<lease[v].owner, lease[v].thread>> # <<o, t>>
        BY <2>0, <3>3 DEF Live
      <3>5. CASE Current(o, t, pairs[o][t])
        <4>1. v # w /\ v # t
          BY <1>a, <2>0, <3>5 DEF Live
        <4>2. lease[v].thread # t
          <5>1. lease[t].owner = o
            BY <3>5 DEF Current, Fenced
          <5> QED BY <3>1, <3>4, <5>1 DEF LeaseInv, WorktreeHasThread
        <4> QED BY <1>a, <2>0, <2>2, <3>1, <3>4, <3>5, <4>1, <4>2
      <3>6. CASE ~Current(o, t, pairs[o][t])
        BY <2>0, <3>1, <3>4, <3>6
      <3> QED BY <3>5, <3>6
    <2>4. WorktreeHasThread' /\ OneWorktreePerThread'
      BY <2>3 DEF LeaseInv, WorktreeHasThread, OneWorktreePerThread, LiveWorktrees
    <2>5. Tracked'
      <3> SUFFICES ASSUME NEW v \in Worktrees, Live(v)'
                   PROVE  InMap(lease[v].owner, lease[v].thread, v)'
        BY DEF Tracked, LiveWorktrees
      <3>1. InMap(lease[v].owner, lease[v].thread, v)
        BY <2>3 DEF LeaseInv, Tracked, LiveWorktrees
      <3>2. pairs'[lease[v].owner][lease[v].thread] = pairs[lease[v].owner][lease[v].thread]
        BY <1>b, <2>0, <2>3
      <3> QED BY <2>0, <2>3, <3>1, <3>2, InMapKept
    <2>6. ThreadRowsOwn'
      <3>1. \A s \in Threads : /\ lease'[s].left \in Nat /\ lease'[s].left <= lease[s].left
                               /\ lease[s].left \in Nat
                               /\ lease'[s].thread = lease[s].thread
        BY <1>0, <2>0 DEF Shortens, Leases, Resources
      <3> QED BY <3>1 DEF LeaseInv, ThreadRowsOwn, Live
    <2> QED BY <2>4, <2>5, <2>6 DEF LeaseInv
  <1>c. ASSUME Shortens, NEW r \in Resources
        PROVE  /\ lease'[r].left \in Nat /\ lease'[r].left <= lease[r].left
               /\ Live(r)' => Live(r)
    <2>1. lease'[r].left \in Nat /\ lease'[r].left <= lease[r].left /\ lease[r].left \in Nat
      BY <1>0, <1>c DEF Shortens, Leases
    <2> QED BY <2>1 DEF Live
  <1>4. ASSUME NEW o \in Owners, NEW t \in Threads, ReleaseRows(o, t)
        PROVE  LeaseInv'
    <2>0. /\ Shortens
          /\ \A r \in Resources : IF lease[r].thread = t /\ lease[r].owner = o
                                  THEN lease'[r].left = 0 ELSE lease'[r] = lease[r]
          /\ pairs' = pairs /\ process' = process
      BY <1>4, ReleaseRowsFrame
    \* A worktree that stays leased keeps its thread's row, which names the same thread.
    <2>1. \A v \in Worktrees : Live(v)' =>
             /\ Live(v) /\ lease'[v] = lease[v]
             /\ lease'[lease[v].thread] = lease[lease[v].thread]
      <3> SUFFICES ASSUME NEW v \in Worktrees, Live(v)'
                   PROVE  /\ Live(v) /\ lease'[v] = lease[v]
                          /\ lease'[lease[v].thread] = lease[lease[v].thread]
        OBVIOUS
      <3> DEFINE s == lease[v].thread
      <3>1. Live(v) /\ s \in Threads /\ s \in Resources /\ v \in Resources
        BY <1>a, <1>b, <1>c, <2>0
      <3>2. lease'[v] = lease[v] /\ ~(s = t /\ lease[v].owner = o)
        BY <2>0, <3>1 DEF Live
      <3>3. lease[s].left = lease[v].left /\ lease[s].owner = lease[v].owner
        BY <3>1 DEF LeaseInv, WorktreeHasThread
      <3>4. lease[s].thread = s
        BY <3>1, <3>3 DEF LeaseInv, ThreadRowsOwn, Live
      <3>5. lease'[s] = lease[s]
        BY <2>0, <3>1, <3>2, <3>3, <3>4
      <3> QED BY <3>1, <3>2, <3>5
    <2>2. WorktreeHasThread' /\ OneWorktreePerThread' /\ Tracked'
      <3>1. WorktreeHasThread'
        BY <2>1 DEF LeaseInv, WorktreeHasThread
      <3>2. OneWorktreePerThread'
        BY <2>1 DEF LeaseInv, OneWorktreePerThread, LiveWorktrees
      <3>3. Tracked'
        <4> SUFFICES ASSUME NEW v \in Worktrees, Live(v)'
                     PROVE  InMap(lease[v].owner, lease[v].thread, v)'
          BY DEF Tracked, LiveWorktrees
        <4>1. Live(v) /\ lease'[v] = lease[v] /\ lease'[lease[v].thread] = lease[lease[v].thread]
          BY <2>1
        <4>2. InMap(lease[v].owner, lease[v].thread, v)
          BY <4>1 DEF LeaseInv, Tracked, LiveWorktrees
        <4> QED BY <2>0, <4>1, <4>2, InMapKept
      <3> QED BY <3>1, <3>2, <3>3
    <2>3. ThreadRowsOwn'
      BY <1>a, <1>c, <2>0 DEF Shortens, LeaseInv, ThreadRowsOwn, Resources
    <2> QED BY <2>2, <2>3 DEF LeaseInv
  <1>5. ASSUME NEW o \in Owners, Start(o)
        PROVE  LeaseInv'
    <2>1. lease' = lease /\ pairs' = pairs
      BY <1>5 DEF Start
    <2>2. process[o] = "new" /\ \A p \in Owners \ {o} : process'[p] = process[p]
      BY <1>5 DEF Start, TypeOK
    <2>3. Tracked'
      <3> SUFFICES ASSUME NEW v \in Worktrees, Live(v)
                   PROVE  InMap(lease[v].owner, lease[v].thread, v)'
        BY <2>1 DEF Tracked, LiveWorktrees, Live
      <3>1. InMap(lease[v].owner, lease[v].thread, v)
        BY DEF LeaseInv, Tracked, LiveWorktrees
      <3>2. lease[v].owner \in Owners \ {o}
        BY <1>b, <2>2, <3>1 DEF InMap
      <3> QED BY <2>1, <2>2, <3>1, <3>2, InMapKept
    <2> QED BY <2>1, <2>3 DEF LeaseInv, WorktreeHasThread, OneWorktreePerThread, ThreadRowsOwn,
                              LiveWorktrees, Live
  <1>6. ASSUME NEW o \in Owners, Stop(o)
        PROVE  LeaseInv'
    <2>1. lease' = lease /\ \A p \in Owners \ {o} : pairs'[p] = pairs[p]
      BY <1>6 DEF Stop, TypeOK
    <2>2. process'[o] = "gone" /\ \A p \in Owners \ {o} : process'[p] = process[p]
      BY <1>6 DEF Stop, TypeOK
    <2>3. Tracked'
      <3> SUFFICES ASSUME NEW v \in Worktrees, Live(v)
                   PROVE  InMap(lease[v].owner, lease[v].thread, v)'
        BY <2>1 DEF Tracked, LiveWorktrees, Live
      <3>1. InMap(lease[v].owner, lease[v].thread, v) /\ lease[v].owner \in Owners
        BY <1>b DEF LeaseInv, Tracked, LiveWorktrees
      <3>2. CASE lease[v].owner = o
        BY <2>1, <2>2, <3>2 DEF InMap
      <3>3. CASE lease[v].owner # o
        BY <2>1, <2>2, <3>1, <3>3, InMapKept
      <3> QED BY <3>2, <3>3
    <2> QED BY <2>1, <2>3 DEF LeaseInv, WorktreeHasThread, OneWorktreePerThread, ThreadRowsOwn,
                              LiveWorktrees, Live
  <1>7. ASSUME Tick
        PROVE  LeaseInv'
    <2>0. /\ Shortens
          /\ \A r \in Resources :
                lease'[r].left = IF lease[r].left = 0 THEN 0 ELSE lease[r].left - 1
          /\ pairs' = pairs /\ process' = process
      BY <1>7, TickFrame
    <2>1. \A r \in Resources : /\ lease'[r].thread = lease[r].thread
                               /\ lease'[r].owner = lease[r].owner
                               /\ lease'[r].fence = lease[r].fence
      BY <2>0 DEF Shortens
    <2>2. \A v \in Worktrees : /\ v \in Resources /\ lease[v].thread \in Resources
                               /\ Live(v)' => Live(v)
      BY <1>a, <1>b, <1>c, <2>0
    <2>3. WorktreeHasThread'
      BY <2>0, <2>1, <2>2 DEF LeaseInv, WorktreeHasThread
    <2>4. OneWorktreePerThread'
      BY <2>1, <2>2 DEF LeaseInv, OneWorktreePerThread, LiveWorktrees
    <2>5. Tracked'
      <3> SUFFICES ASSUME NEW v \in Worktrees, Live(v)'
                   PROVE  InMap(lease[v].owner, lease[v].thread, v)'
        BY DEF Tracked, LiveWorktrees
      <3>1. InMap(lease[v].owner, lease[v].thread, v)
        BY <2>2 DEF LeaseInv, Tracked, LiveWorktrees
      <3> QED BY <2>0, <2>1, <2>2, <3>1, InMapKept
    <2>6. ThreadRowsOwn'
      BY <1>a, <1>c, <2>0, <2>1 DEF LeaseInv, ThreadRowsOwn, Resources
    <2> QED BY <2>3, <2>4, <2>5, <2>6 DEF LeaseInv
  <1>8. CASE UNCHANGED vars
    BY <1>8 DEF vars, LeaseInv, WorktreeHasThread, OneWorktreePerThread, Tracked, ThreadRowsOwn,
                LiveWorktrees, Live, InMap, Current, Fenced
  <1> QED BY <1>1, <1>2, <1>3, <1>4, <1>5, <1>6, <1>7, <1>8 DEF Next

\* The strengthening holds in every reachable state.
LEMMA LeaseInvariant == Spec => []LeaseInv
  <1>1. TypeOK /\ LeaseInv /\ [Next]_vars => LeaseInv'
    BY NextLeaseInv
  <1> QED BY InitLeaseInv, <1>1, LeasesTypeCorrect, PTL DEF Spec

\* A thread that keeps its row keeps a worktree: what gives a worktree to
\* another thread, or releases or shortens its row, does so to both.
LEMMA NextThreadHasWorktree ==
    ASSUME TypeOK, LeaseInv, ThreadHasWorktree, [Next]_vars
    PROVE  ThreadHasWorktree'
  <1>1. \A r \in Resources : lease[r].left \in Nat
    BY LeaseAssumption DEF TypeOK, Leases
  <1>2. /\ \A w \in Worktrees, t \in Threads : w # t
        /\ Worktrees \subseteq Resources /\ Threads \subseteq Resources
    BY LeaseAssumption DEF Resources
  <1>3. ASSUME NEW s \in Threads, Live(s)
        PROVE  \E v \in Worktrees : /\ Live(v) /\ lease[v].thread = s
                                    /\ lease[s].left = lease[v].left
                                    /\ lease[s].owner = lease[v].owner
    BY <1>3 DEF ThreadHasWorktree, LeaseInv, WorktreeHasThread
  <1>4. ASSUME NEW o \in Owners, NEW t \in Threads, NEW w \in Worktrees, Acquire(o, t, w)
        PROVE  ThreadHasWorktree'
    <2> SUFFICES ASSUME NEW s \in Threads, Live(s)'
                 PROVE  \E v \in Worktrees : Live(v)' /\ lease'[v].thread = s
      BY DEF ThreadHasWorktree
    <2>1. AcquireEffect(o, t, w) /\ ~Taken(w, t, o)
      BY <1>4, AcquireFrame DEF Acquire
    <2>2. CASE s = t
      BY <2>1, <2>2, LeaseAssumption DEF AcquireEffect, Live
    <2>3. CASE s # t
      <3>1. lease'[s] = lease[s] /\ Live(s)
        BY <1>2, <2>1, <2>3 DEF AcquireEffect, Live
      <3>2. PICK v \in Worktrees : Live(v) /\ lease[v].thread = s
        BY <1>3, <3>1
      <3>3. v # w
        BY <2>1, <2>3, <3>2 DEF Taken
      <3>4. lease'[v] = lease[v]
        BY <1>2, <2>1, <3>3 DEF AcquireEffect
      <3> QED BY <3>2, <3>4 DEF Live
    <2> QED BY <2>2, <2>3
  <1>5. ASSUME NEW o \in Owners, NEW t \in Threads, Renew(o, t)
        PROVE  ThreadHasWorktree'
    <2>1. \A r \in Resources : Live(r)' = Live(r) /\ lease'[r].thread = lease[r].thread
      BY <1>5, RenewFrame, LeaseAssumption DEF Live
    <2> QED BY <1>2, <2>1 DEF ThreadHasWorktree
  <1>6. ASSUME NEW o \in Owners, NEW t \in Threads, ReleasePair(o, t)
        PROVE  ThreadHasWorktree'
    <2> DEFINE u == pairs[o][t].worktree
    <2>1. /\ pairs[o][t] \in Pairs
          /\ Current(o, t, pairs[o][t]) =>
                /\ \A r \in {t, u} : lease'[r].left = 0
                /\ \A r \in Resources \ {t, u} : lease'[r] = lease[r]
          /\ ~Current(o, t, pairs[o][t]) => lease' = lease
      BY <1>6, ReleasePairFrame
    <2>2. CASE Current(o, t, pairs[o][t])
      <3> SUFFICES ASSUME NEW s \in Threads, Live(s)'
                   PROVE  \E v \in Worktrees : Live(v)' /\ lease'[v].thread = s
        BY DEF ThreadHasWorktree
      <3>1. u \in Worktrees /\ lease[u].thread = t
        BY <2>1, <2>2 DEF Pairs, Current, Fenced
      <3>2. s # t
        BY <2>1, <2>2 DEF Live
      <3>3. lease'[s] = lease[s] /\ Live(s)
        BY <1>2, <2>1, <2>2, <3>1, <3>2 DEF Live
      <3>4. PICK v \in Worktrees : Live(v) /\ lease[v].thread = s
        BY <1>3, <3>3
      <3>5. lease'[v] = lease[v]
        BY <1>2, <2>1, <2>2, <3>1, <3>2, <3>4
      <3> QED BY <3>4, <3>5 DEF Live
    <2>3. CASE ~Current(o, t, pairs[o][t])
      BY <2>1, <2>3 DEF ThreadHasWorktree, Live
    <2> QED BY <2>2, <2>3
  <1>7. ASSUME NEW o \in Owners, NEW t \in Threads, ReleaseRows(o, t)
        PROVE  ThreadHasWorktree'
    <2> SUFFICES ASSUME NEW s \in Threads, Live(s)'
                 PROVE  \E v \in Worktrees : Live(v)' /\ lease'[v].thread = s
      BY DEF ThreadHasWorktree
    <2>1. \A r \in Resources : IF lease[r].thread = t /\ lease[r].owner = o
                              THEN lease'[r].left = 0 ELSE lease'[r] = lease[r]
      BY <1>7, ReleaseRowsFrame
    <2>2. lease'[s] = lease[s] /\ Live(s) /\ ~(lease[s].thread = t /\ lease[s].owner = o)
      BY <1>2, <2>1 DEF Live
    <2>3. PICK v \in Worktrees : Live(v) /\ lease[v].thread = s /\ lease[s].owner = lease[v].owner
      BY <1>3, <2>2
    <2>4. lease'[v] = lease[v]
      BY <1>2, <2>1, <2>2, <2>3 DEF LeaseInv, ThreadRowsOwn
    <2> QED BY <2>3, <2>4 DEF Live
  <1>8. ASSUME Tick
        PROVE  ThreadHasWorktree'
    <2> SUFFICES ASSUME NEW s \in Threads, Live(s)'
                 PROVE  \E v \in Worktrees : Live(v)' /\ lease'[v].thread = s
      BY DEF ThreadHasWorktree
    <2>1. \A r \in Resources :
             /\ lease'[r].left = IF lease[r].left = 0 THEN 0 ELSE lease[r].left - 1
             /\ lease'[r].thread = lease[r].thread
      BY <1>8, TickFrame DEF Shortens
    <2>2. Live(s) /\ lease'[s].left > 0
      BY <1>1, <1>2, <2>1 DEF Live
    <2>3. PICK v \in Worktrees : Live(v) /\ lease[v].thread = s /\ lease[s].left = lease[v].left
      BY <1>3, <2>2
    <2>4. lease'[v].left = lease'[s].left
      BY <1>2, <2>1, <2>3
    <2> QED BY <1>2, <2>1, <2>2, <2>3, <2>4 DEF Live
  <1>9. ASSUME lease' = lease
        PROVE  ThreadHasWorktree'
    BY <1>9 DEF ThreadHasWorktree, Live
  <1> QED BY <1>4, <1>5, <1>6, <1>7, <1>8, <1>9 DEF Next, Start, Stop, vars

\* The two halves of a pair live and end together, whoever restarts when.
THEOREM PairsLiveTogether == Spec => []PairLivesTogether
  <1>1. Init => ThreadHasWorktree
    BY DEF Init, ThreadHasWorktree, Live, Resources
  <1>2. TypeOK /\ LeaseInv /\ ThreadHasWorktree /\ [Next]_vars => ThreadHasWorktree'
    BY NextThreadHasWorktree
  <1>3. LeaseInv /\ ThreadHasWorktree => PairLivesTogether
    BY DEF LeaseInv, PairLivesTogether
  <1> QED BY <1>1, <1>2, <1>3, LeaseInvariant, LeasesTypeCorrect, PTL DEF Spec

\* No thread is leased in two worktrees at once.
THEOREM OneWorktreeLeased == Spec => []OneWorktreePerThread
  <1>1. LeaseInv => OneWorktreePerThread
    BY DEF LeaseInv
  <1> QED BY <1>1, LeaseInvariant, PTL

-----------------------------------------------------------------------------
\* A step that gives no row to anybody and revives no row makes no pair usable.
NothingGranted ==
    \A r \in Resources : /\ lease'[r].thread = lease[r].thread
                         /\ lease'[r].owner = lease[r].owner
                         /\ lease'[r].fence = lease[r].fence
                         /\ Live(r)' => Live(r)

LEMMA NothingGrantedKeepsStale ==
    ASSUME TypeOK, NothingGranted, NEW o \in Owners, NEW t \in Threads,
           Usable(o, t)', pairs'[o][t] = pairs[o][t]
    PROVE  Usable(o, t)
  <1>1. pairs[o][t] \in Pairs
    BY DEF TypeOK, Usable
  <1>2. t \in Resources /\ pairs[o][t].worktree \in Resources
    BY <1>1 DEF Pairs, Resources
  <1>3. Live(t) /\ Live(pairs[o][t].worktree)
    BY <1>2 DEF Usable, NothingGranted, Live
  <1>4. Current(o, t, pairs[o][t])
    BY <1>2 DEF Usable, NothingGranted, Current, Fenced
  <1> QED BY <1>3, <1>4 DEF Usable

\* Once a pair is out of date nothing brings its authority back: an owner that
\* was away past the expiry, or whose row was given to somebody else, stays
\* without the lease until it acquires a new pair.
THEOREM StalePairsStayStale == Spec => StalePairStaysStale
  <1> DEFINE Step == \A o \in Owners, t \in Threads :
                        (~Usable(o, t) /\ Usable(o, t)') => pairs'[o][t] # pairs[o][t]
  <1>1. ASSUME TypeOK, [Next]_vars
        PROVE  Step
    <2> SUFFICES ASSUME NEW u \in Owners, NEW s \in Threads,
                        Usable(u, s)', pairs'[u][s] = pairs[u][s]
                 PROVE  Usable(u, s)
      OBVIOUS
    <2>0. pairs[u][s] \in Pairs /\ s \in Resources /\ pairs[u][s].worktree \in Worktrees
      BY <1>1 DEF TypeOK, Usable, Pairs, Resources
    <2>1. ASSUME NEW o \in Owners, NEW t \in Threads, NEW w \in Worktrees, Acquire(o, t, w)
          PROVE  Usable(u, s)
      <3>1. AcquireEffect(o, t, w)
        BY <1>1, <2>1, AcquireFrame
      <3>2. <<u, s>> # <<o, t>>
        BY <2>0, <3>1, NoPairFresh DEF AcquireEffect
      <3>3. /\ lease'[s].thread = s /\ lease'[s].owner = u
            /\ lease'[pairs[u][s].worktree].thread = s
            /\ lease'[pairs[u][s].worktree].owner = u
        BY DEF Usable, Current, Fenced
      <3>4. s # t /\ pairs[u][s].worktree # w
        BY <3>1, <3>2, <3>3 DEF AcquireEffect
      <3>5. s # w /\ pairs[u][s].worktree # t /\ pairs[u][s].worktree \in Resources
        BY <2>0, LeaseAssumption DEF Resources
      <3>6. lease'[s] = lease[s]
            /\ lease'[pairs[u][s].worktree] = lease[pairs[u][s].worktree]
        BY <2>0, <3>1, <3>4, <3>5 DEF AcquireEffect
      <3> QED BY <3>6 DEF Usable, Current, Fenced, Live
    <2>2. ASSUME NEW o \in Owners, NEW t \in Threads, Renew(o, t)
          PROVE  Usable(u, s)
      <3>1. NothingGranted
        BY <1>1, <2>2, RenewFrame DEF NothingGranted, Live
      <3> QED BY <1>1, <3>1, NothingGrantedKeepsStale
    <2>3. ASSUME Shortens
          PROVE  Usable(u, s)
      <3>1. \A r \in Resources : Live(r)' => Live(r)
        <4>1. \A r \in Resources : /\ lease[r].left \in Nat /\ lease'[r].left \in Nat
                                   /\ lease'[r].left <= lease[r].left
          BY <1>1, <2>3, LeaseAssumption DEF Shortens, TypeOK, Leases
        <4> QED BY <4>1 DEF Live
      <3>2. NothingGranted
        BY <2>3, <3>1 DEF Shortens, NothingGranted
      <3> QED BY <1>1, <3>2, NothingGrantedKeepsStale
    <2>4. ASSUME lease' = lease
          PROVE  Usable(u, s)
      <3>1. NothingGranted
        BY <2>4 DEF NothingGranted, Live
      <3> QED BY <1>1, <3>1, NothingGrantedKeepsStale
    <2>5. ASSUME NEW o \in Owners, NEW t \in Threads, ReleasePair(o, t) \/ ReleaseRows(o, t)
          PROVE  Usable(u, s)
      BY <1>1, <2>3, <2>5, ReleasePairFrame, ReleaseRowsFrame
    <2> QED BY <1>1, <2>1, <2>2, <2>3, <2>4, <2>5, TickFrame DEF Next, Start, Stop, vars
  <1>2. []TypeOK /\ [][Next]_vars => [][Step]_vars
    BY <1>1, PTL
  <1> QED BY <1>2, LeasesTypeCorrect, PTL DEF Spec, StalePairStaysStale
=============================================================================
