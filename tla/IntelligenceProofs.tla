-------------------------- MODULE IntelligenceProofs --------------------------
(***************************************************************************)
(* Proofs about pushed intelligence and what readers say of it.  The two   *)
(* parts share the breakers of the channels, and each has an invariant of  *)
(* its own.                                                                *)
(***************************************************************************)
EXTENDS Intelligence, Feedback, FiniteSetTheorems, TLAPS

(***************************************************************************)
(* PUSHES.  Why no target gets a candidate twice, why an event has one     *)
(* candidate on its way, and why "pushed" means receipts.  The claim token *)
(* and the rows of the journal carry the argument: a call whose claim was  *)
(* swept goes on sending, but it can no longer write the candidate, and a  *)
(* row in its hands is given to nobody else.                               *)
(***************************************************************************)

Pushing(w) == worker[w].pc \in {"bark", "telegram"}

Live == {"queued", "retry_wait", "channel_blocked"}

\* A live row has attempts left, and a claim token is known to the call that
\* pushes this very candidate.
CandInv ==
    \A c \in Ids :
        /\ cand[c].status \in Live => cand[c].attempts < Delays
        /\ cand[c].holder # NoWorker =>
               /\ cand[c].status = "pushing" /\ cand[c].attempts >= 1
               /\ Pushing(cand[c].holder) /\ worker[cand[c].holder].item = c

\* Behind a candidate that was let in, an older one of its event waits only
\* where the look-back of ingest does not reach.
EventInv ==
    \A a, b \in Ids :
        /\ b < a
        /\ cand[a].status \notin {"absent", "held"} /\ ~cand[a].old /\ ~cand[b].old
        /\ cand[a].domain = cand[b].domain /\ cand[a].event = cand[b].event
        => cand[b].status \notin Waiting \/ Cardinality(Between(b, a)) >= KeyLimit

\* What a call knows of a target, and that nobody else is sending to it.
CallInv ==
    \A w \in Workers, t \in Targets :
        /\ ~Pushing(w) => worker[w].sent[t] = "unlisted"
        /\ Sending(w, t) => Row(w, t) = "executing" /\ delivered[worker[w].item][t] = 0
        /\ worker[w].sent[t] = "ok" => Row(w, t) = "completed"
        /\ \A v \in Workers :
               Sending(w, t) /\ Sending(v, t) /\ worker[v].item = worker[w].item => v = w

\* A row that may be sent again has delivered nothing.
RowInv ==
    \A c \in Ids, t \in Targets :
        /\ delivered[c][t] \in {0, 1}
        /\ journal[c][t] \in {"absent", "failed"} => delivered[c][t] = 0

SendInv == CallInv /\ RowInv

IInv == TypeOK /\ CandInv /\ EventInv /\ SendInv

-----------------------------------------------------------------------------
(* Types of rows, calls and tables.                                        *)

LEMMA Defaults ==
    /\ 1 \in Ids /\ 0 \in 0..Delays
    /\ Idle \in Calls /\ Idle.pc = "idle" /\ Idle.sent = Unlisted
    /\ Absent \in Candidates /\ Absent.status = "absent" /\ Absent.attempts = 0
    /\ Absent.holder = NoWorker /\ ~Absent.old
<1>1. 1 \in Ids /\ 0 \in 0..Delays
  BY IntelligenceAssumption DEF Ids
<1>2. (CHOOSE d \in Domains : TRUE) \in Domains /\ (CHOOSE e \in Events : TRUE) \in Events
      /\ (CHOOSE s \in Sources : TRUE) \in Sources
  BY IntelligenceAssumption
<1>3. Unlisted \in [Targets -> Outcomes]
  BY DEF Unlisted, Outcomes
<1>4. Idle \in Calls /\ Idle.pc = "idle" /\ Idle.sent = Unlisted
  BY <1>1, <1>2, <1>3 DEF Idle, Calls
<1>5. /\ Absent \in Candidates /\ Absent.status = "absent" /\ Absent.attempts = 0
      /\ Absent.holder = NoWorker /\ ~Absent.old
  BY <1>1, <1>2 DEF Absent, Candidates, Statuses
<1>6. QED
  BY <1>1, <1>4, <1>5

\* One cell of a table of functions is overwritten.
LEMMA Cell ==
    ASSUME NEW A, NEW B, NEW S, NEW f \in [A -> [B -> S]],
           NEW a \in A, NEW b \in B, NEW v \in S, NEW g, g = [f EXCEPT ![a][b] = v]
    PROVE  /\ g \in [A -> [B -> S]]
           /\ g[a][b] = v
           /\ \A x \in A, y \in B : x # a \/ y # b => g[x][y] = f[x][y]
<1>1. [f[a] EXCEPT ![b] = v] \in [B -> S]
  OBVIOUS
<1>2. g = [f EXCEPT ![a] = [f[a] EXCEPT ![b] = v]]
  OBVIOUS
<1>3. QED
  BY <1>1, <1>2

\* The row of a candidate before and after a sweep, a claim and a settlement.
LEMMA RowTypes ==
    ASSUME NEW r \in Candidates
    PROVE  /\ SweptRow(r) \in Candidates
           /\ SweptRow(r).status = "delivery_unknown" /\ SweptRow(r).holder = NoWorker
           /\ \A w \in Workers : r.attempts < Delays =>
                  /\ ClaimedRow(r, w) \in Candidates
                  /\ ClaimedRow(r, w).status = "pushing" /\ ClaimedRow(r, w).holder = w
                  /\ ClaimedRow(r, w).attempts >= 1
           /\ \A s \in Statuses : (s = "channel_blocked" => r.attempts >= 1) =>
                  /\ SettledRow(r, s) \in Candidates
                  /\ SettledRow(r, s).status = s /\ SettledRow(r, s).holder = NoWorker
                  /\ SettledRow(r, s).attempts = IF s = "channel_blocked" THEN r.attempts - 1
                                                 ELSE r.attempts
<1>1. /\ SweptRow(r) \in Candidates
      /\ SweptRow(r).status = "delivery_unknown" /\ SweptRow(r).holder = NoWorker
  BY DEF SweptRow, Candidates, Statuses
<1>2. ASSUME NEW w \in Workers, r.attempts < Delays
      PROVE  /\ ClaimedRow(r, w) \in Candidates
             /\ ClaimedRow(r, w).status = "pushing" /\ ClaimedRow(r, w).holder = w
             /\ ClaimedRow(r, w).attempts >= 1
  <2>1. r.attempts + 1 \in 0..Delays /\ r.attempts + 1 >= 1
    BY <1>2, IntelligenceAssumption DEF Candidates
  <2>2. QED
    BY <2>1 DEF ClaimedRow, Candidates, Statuses
<1>3. ASSUME NEW s \in Statuses, s = "channel_blocked" => r.attempts >= 1
      PROVE  /\ SettledRow(r, s) \in Candidates
             /\ SettledRow(r, s).status = s /\ SettledRow(r, s).holder = NoWorker
             /\ SettledRow(r, s).attempts = IF s = "channel_blocked" THEN r.attempts - 1
                                            ELSE r.attempts
  <2>1. (IF s = "channel_blocked" THEN r.attempts - 1 ELSE r.attempts) \in 0..Delays
    BY <1>3, IntelligenceAssumption DEF Candidates
  <2>2. (s \in {"pushed", "failed"}) \in BOOLEAN
    OBVIOUS
  <2>3. QED
    BY <2>1, <2>2 DEF SettledRow, Candidates
<1>4. QED
  BY <1>1, <1>2, <1>3

\* Of the rows of the same candidate, what a step that is no ingest keeps.
SameRow(r, q) ==
    /\ q.domain = r.domain /\ q.event = r.event
    /\ r.status # "absent" <=> q.status # "absent"
    /\ r.old => q.old
    /\ r.status \notin Waiting => q.status = r.status

LEMMA RowsKept ==
    ASSUME NEW r \in Candidates
    PROVE  /\ r.status = "pushing" => SameRow(r, SweptRow(r))
           /\ \A w \in Workers : r.status \in Waiting => SameRow(r, ClaimedRow(r, w))
           /\ \A s \in Statuses \ {"absent"} : r.status \in Waiting => SameRow(r, SettledRow(r, s))
  BY DEF SameRow, SweptRow, ClaimedRow, SettledRow, Candidates, Waiting

\* There are finitely many candidates.
LEMMA IdsFinite == IsFiniteSet(Ids)
<1>1. 1 \in Int /\ MaxCandidates \in Int
  BY IntelligenceAssumption
<1>2. QED
  BY <1>1, FS_Interval DEF Ids

\* The rows between two others are counted, and a part of them is no more.
LEMMA BetweenFinite ==
    ASSUME NEW a \in Ids, NEW b \in Ids
    PROVE  /\ IsFiniteSet(Between(b, a)) /\ Cardinality(Between(b, a)) \in Nat
           /\ \A S \in SUBSET Between(b, a) : Cardinality(S) <= Cardinality(Between(b, a))
<1>1. IsFiniteSet(Ids)
  BY IdsFinite
<1>2. IsFiniteSet(Between(b, a))
  BY <1>1, FS_Subset DEF Between, Known
<1>3. QED
  BY <1>2, FS_Subset, FS_CardinalityType

\* Old rows keep their place behind newer ones of their event.
LEMMA EventFrame ==
    ASSUME TypeOK, EventInv, \A c \in Ids : SameRow(cand[c], cand'[c])
    PROVE  EventInv'
<1>1. ASSUME NEW a \in Ids, NEW b \in Ids
      PROVE  Between(b, a)' = Between(b, a)
  BY DEF Between, Known, SameRow
<1>2. QED
  BY SMTT(20), <1>1 DEF EventInv, SameRow, Waiting, TypeOK, Candidates

LEMMA EventSame ==
    ASSUME EventInv, UNCHANGED cand
    PROVE  EventInv'
  BY DEF EventInv, Between, Known

\* A row of the event that ingest does not read has enough of them behind it.
LEMMA NotRead ==
    ASSUME NEW d \in Domains, NEW e \in Events, NEW c \in Ids, Known = 1..(c - 1),
           NEW b \in SameEvent(d, e), b \notin Newest(SameEvent(d, e), KeyLimit),
           NEW S, {x \in SameEvent(d, e) : x > b} \subseteq S, IsFiniteSet(S)
    PROVE  Cardinality(S) >= KeyLimit
<1> DEFINE N == {x \in SameEvent(d, e) : x > b}
<1>1. IsFiniteSet(N) /\ Cardinality(N) <= Cardinality(S) /\ Cardinality(S) \in Nat
  BY FS_Subset, FS_CardinalityType
<1>2. Cardinality(N) \in Nat
  BY <1>1, FS_CardinalityType
<1>3. ~(Cardinality(N) < KeyLimit)
  BY DEF Newest
<1>4. QED
  BY <1>1, <1>2, <1>3, IntelligenceAssumption

-----------------------------------------------------------------------------
(* The initial state and ingest.                                           *)

LEMMA IInvInit == Init => IInv
<1> SUFFICES ASSUME Init
             PROVE  IInv
  OBVIOUS
<1>1. TypeOK
  <2>1. Ready \in Breakers /\ 0 \in 0..MaxFaults
    BY IntelligenceAssumption DEF Ready, Breakers
  <2>2. ChannelsTypeOK
    BY <2>1 DEF Init, ChannelsInit, ChannelsTypeOK
  <2>3. journal \in [Ids -> [Targets -> RowStatuses]] /\ delivered \in [Ids -> [Targets -> Nat]]
    BY DEF Init, RowStatuses
  <2>4. cand \in [Ids -> Candidates] /\ worker \in [Workers -> Calls]
    BY Defaults DEF Init
  <2>5. QED
    BY <2>1, <2>2, <2>3, <2>4 DEF Init, TypeOK
<1>2. CandInv /\ EventInv
  BY Defaults DEF Init, CandInv, EventInv, Live
<1>3. SendInv
  BY Defaults DEF Init, SendInv, CallInv, RowInv, Sending, Pushing, Unlisted
<1>4. QED
  BY <1>1, <1>2, <1>3 DEF IInv

LEMMA IngestKeeps ==
    ASSUME IInv, NEW d \in Domains, NEW e \in Events, NEW s \in Sources,
           NEW worthy \in BOOLEAN, NEW update \in BOOLEAN,
           Ingest(d, e, s, worthy, update)
    PROVE  IInv'
<1>1. PICK c \in Ids, alike \in SUBSET Nearby(d, s) :
          /\ Known = 1..(c - 1)
          /\ LET prior == Prior(d, e, s, alike)
                 eligible == worthy /\ (prior = {} \/ (update /\ Substantive(prior)))
             IN cand' = [cand EXCEPT ![c] = [Absent EXCEPT
                    !.status = IF eligible THEN "queued" ELSE "held",
                    !.domain = d, !.event = e, !.source = s]]
  BY DEF Ingest
<1> DEFINE prior == Prior(d, e, s, alike)
           eligible == worthy /\ (prior = {} \/ (update /\ Substantive(prior)))
           r == cand'[c]
<1>2. /\ cand' \in [Ids -> Candidates] /\ \A b \in Ids \ {c} : cand'[b] = cand[b]
      /\ r.status = (IF eligible THEN "queued" ELSE "held") /\ r.domain = d /\ r.event = e
      /\ r.attempts = 0 /\ r.holder = NoWorker
  <2>1. cand \in [Ids -> Candidates]
    BY DEF IInv, TypeOK
  <2>2. r = [Absent EXCEPT !.status = IF eligible THEN "queued" ELSE "held",
                           !.domain = d, !.event = e, !.source = s]
    BY <1>1, <2>1
  <2>3. /\ r \in Candidates /\ r.status = (IF eligible THEN "queued" ELSE "held")
        /\ r.domain = d /\ r.event = e /\ r.attempts = 0 /\ r.holder = NoWorker
    <3>1. PICK l \in {"queued", "held"} : l = IF eligible THEN "queued" ELSE "held"
      OBVIOUS
    <3>2. r = [Absent EXCEPT !.status = l, !.domain = d, !.event = e, !.source = s]
      BY <2>2, <3>1
    <3>3. /\ r \in Candidates /\ r.status = l /\ r.domain = d /\ r.event = e
          /\ r.attempts = Absent.attempts /\ r.holder = Absent.holder
      BY <3>2, Defaults DEF Candidates, Statuses
    <3>4. QED
      BY <3>1, <3>3, Defaults
  <2>4. QED
    BY <1>1, <2>1, <2>2, <2>3
<1>3. UNCHANGED <<journal, delivered, worker, cooling, faults, breaker, enabled>>
  BY DEF Ingest, dispatchVars
<1>4. TypeOK' /\ SendInv'
  BY <1>2, <1>3 DEF IInv, TypeOK, ChannelsTypeOK, SendInv, CallInv, RowInv, Sending, Pushing, Row
<1>5. CandInv'
  BY <1>2, <1>3, IntelligenceAssumption DEF IInv, CandInv, Live, Pushing
<1>6. c \in Nat /\ \A b \in Ids : b \in Nat /\ (cand[b].status # "absent" <=> b < c)
  BY <1>1 DEF Known, Ids
<1>7. EventInv'
  <2> SUFFICES ASSUME NEW a \in Ids, NEW b \in Ids, b < a,
                      cand'[a].status \notin {"absent", "held"}, ~cand'[a].old, ~cand'[b].old,
                      cand'[a].domain = cand'[b].domain, cand'[a].event = cand'[b].event
               PROVE  cand'[b].status \notin Waiting \/ Cardinality(Between(b, a)') >= KeyLimit
    BY DEF EventInv
  <2>1. CASE a # c /\ b # c
    <3>1. a < c /\ cand'[a] = cand[a] /\ cand'[b] = cand[b]
      BY <1>2, <1>6, <2>1
    <3>2. ASSUME NEW x \in Ids, x < a
          PROVE  cand'[x] = cand[x]
      <4>1. x \in Nat /\ a \in Nat /\ c \in Nat
        BY <1>6
      <4>2. x # c
        BY <3>1, <3>2, <4>1
      <4>3. QED
        BY <1>2, <4>2
    <3>3. ASSUME NEW x \in Ids
          PROVE  x \in Between(b, a)' <=> x \in Between(b, a)
      BY <3>1, <3>2 DEF Between, Known
    <3>4. Between(b, a)' = Between(b, a)
      BY <3>3 DEF Between, Known
    <3>5. QED
      BY <3>1, <3>4 DEF IInv, EventInv
  <2>2. CASE b = c
    BY <1>2, <1>6, <2>2
  <2>3. CASE a = c
    <3>1. b # c /\ cand'[b] = cand[b] /\ eligible /\ cand[b].domain = d /\ cand[b].event = e
      BY <1>2, <1>6, <2>3
    <3>2. cand[b].status # "absent"
      BY <1>6, <2>3
    <3>3. CASE cand[b].status = "held"
      BY <3>1, <3>3 DEF Waiting
    <3>4. CASE cand[b].status # "held"
      <4> DEFINE B == Between(b, a)'
      <4>1. b \in SameEvent(d, e)
        BY <3>1, <3>2 DEF SameEvent, History, Known
      <4>2. IsFiniteSet(B) /\ Cardinality(B) \in Nat
        <5>1. B \subseteq Ids
          BY DEF Between, Known
        <5>2. IsFiniteSet(B)
          BY <5>1, IdsFinite, FS_Subset
        <5>3. QED
          BY <5>2, FS_CardinalityType
      <4>3. \A x \in SameEvent(d, e) : x > b => x \in B
        BY <1>2, <1>6, <2>3, <3>1 DEF SameEvent, History, Known, Between
      <4>4. CASE b \notin Newest(SameEvent(d, e), KeyLimit)
        <5>1. {x \in SameEvent(d, e) : x > b} \subseteq B
          BY <4>3
        <5>2. QED
          BY <1>1, <4>1, <4>2, <4>4, <5>1, NotRead
      <4>5. CASE b \in Newest(SameEvent(d, e), KeyLimit)
        <5>1. b \in Counting(Newest(SameEvent(d, e), KeyLimit))
          BY <3>4, <4>5 DEF Counting
        <5>2. b \in prior /\ prior = Counting(Newest(SameEvent(d, e), KeyLimit))
          BY <5>1 DEF Prior
        <5>3. PICK n \in prior : cand[n].status = "pushed" /\ b <= n
          BY <3>1, <5>2 DEF Substantive
        <5>4. /\ n \in Ids /\ cand[n].domain = d /\ cand[n].event = e /\ ~cand[n].old
              /\ n \in Nat /\ b \in Nat /\ n < c
          BY <1>6, <5>2, <5>3 DEF Counting, Newest, SameEvent, History, Known
        <5>5. CASE b = n
          BY <3>1, <5>3, <5>5 DEF Waiting
        <5>6. CASE b < n
          <6>1. cand[b].status \notin Waiting \/ Cardinality(Between(b, n)) >= KeyLimit
            BY <3>1, <5>3, <5>4, <5>6 DEF IInv, EventInv
          <6>2. Between(b, n) \subseteq B
            BY <1>2, <1>6, <2>3, <3>1, <5>4 DEF Between, Known
          <6>3. Cardinality(Between(b, n)) <= Cardinality(B) /\ Cardinality(Between(b, n)) \in Nat
            BY <4>2, <5>4, <6>2, FS_Subset, BetweenFinite
          <6>4. QED
            BY <3>1, <4>2, <6>1, <6>3, IntelligenceAssumption
        <5>7. QED
          BY <5>3, <5>4, <5>5, <5>6
      <4>6. QED
        BY <4>4, <4>5
    <3>5. QED
      BY <3>3, <3>4
  <2>4. QED
    BY <2>1, <2>2, <2>3
<1>8. QED
  BY <1>4, <1>5, <1>7 DEF IInv

-----------------------------------------------------------------------------
(* The claim and the end of a call.                                        *)

\* Every row keeps what EventFrame asks for and belongs to whom it belonged to.
LEMMA StartPushKeeps ==
    ASSUME IInv, NEW w \in Workers, NEW d \in Domains, StartPush(w, d)
    PROVE  IInv'
<1>1. ASSUME NEW r \in Candidates, NEW q, q = [r EXCEPT !.status = "retry_wait"],
             r.status = "channel_blocked"
      PROVE  /\ q \in Candidates /\ q.status = "retry_wait" /\ SameRow(r, q)
             /\ q.attempts = r.attempts /\ q.holder = r.holder
  BY <1>1 DEF Candidates, Statuses, SameRow, Waiting
<1>2. \A c \in Ids : \/ cand'[c] = cand[c]
                      \/ /\ cand'[c] = [cand[c] EXCEPT !.status = "retry_wait"]
                         /\ cand[c].status = "channel_blocked"
  BY DEF StartPush
<1>3. \A c \in Ids : /\ cand'[c] \in Candidates /\ SameRow(cand[c], cand'[c])
                      /\ cand'[c].attempts = cand[c].attempts /\ cand'[c].holder = cand[c].holder
                      /\ (cand'[c].status \in Live <=> cand[c].status \in Live)
                      /\ (cand'[c].status = "pushing" <=> cand[c].status = "pushing")
  <2> SUFFICES ASSUME NEW c \in Ids
               PROVE  /\ cand'[c] \in Candidates /\ SameRow(cand[c], cand'[c])
                      /\ cand'[c].attempts = cand[c].attempts /\ cand'[c].holder = cand[c].holder
                      /\ (cand'[c].status \in Live <=> cand[c].status \in Live)
                      /\ (cand'[c].status = "pushing" <=> cand[c].status = "pushing")
    OBVIOUS
  <2>1. cand[c] \in Candidates
    BY DEF IInv, TypeOK
  <2>2. QED
    BY SMTT(20), ZenonT(30), <1>1, <1>2, <2>1 DEF SameRow, Live
<1>4. /\ worker' \in [Workers -> Calls] /\ worker'[w].pc = "claiming"
      /\ worker'[w].sent = worker[w].sent /\ worker[w].pc = "idle"
      /\ \A v \in Workers \ {w} : worker'[v] = worker[v]
  <2>1. worker[w] \in Calls /\ worker \in [Workers -> Calls]
    BY DEF IInv, TypeOK
  <2>2. [worker[w] EXCEPT !.pc = "claiming", !.domain = d] \in Calls
    BY <2>1 DEF Calls
  <2>3. QED
    BY <2>1, <2>2 DEF StartPush, Calls
<1>5. UNCHANGED <<journal, delivered, cooling, faults, breaker, enabled>>
  BY DEF StartPush
<1>6. TypeOK'
  BY <1>3, <1>4, <1>5 DEF IInv, TypeOK, ChannelsTypeOK, StartPush
<1>7. CandInv'
  BY SMTT(20), <1>3, <1>4 DEF IInv, CandInv, Pushing, TypeOK, Candidates
<1>8. EventInv'
  BY <1>3, EventFrame DEF IInv
<1>9. SendInv'
  BY <1>4, <1>5 DEF IInv, SendInv, CallInv, RowInv, Sending, Pushing, Row
<1>10. QED
  BY <1>6, <1>7, <1>8, <1>9 DEF IInv

LEMMA SweepRows ==
    ASSUME IInv, NEW d \in Domains, NEW c \in Ids
    PROVE  /\ Swept(d)[c] = cand[c] \/ (cand[c].status = "pushing" /\ Swept(d)[c] = SweptRow(cand[c]))
           /\ Swept(d)[c] \in Candidates /\ SameRow(cand[c], Swept(d)[c])
           /\ Swept(d)[c].status \in Live => Swept(d)[c] = cand[c]
           /\ Swept(d)[c].holder # NoWorker => Swept(d)[c] = cand[c]
<1>1. cand[c] \in Candidates
  BY DEF IInv, TypeOK
<1>2. Swept(d)[c] = cand[c] \/ (cand[c].status = "pushing" /\ Swept(d)[c] = SweptRow(cand[c]))
  BY DEF Swept, Abandoned
<1>3. SameRow(cand[c], cand[c])
  BY DEF SameRow
<1>4. QED
  BY <1>1, <1>2, <1>3, RowTypes, RowsKept DEF Live

\* No row is held by a call that does not push.
LEMMA NothingHeld ==
    ASSUME IInv, NEW w \in Workers, ~Pushing(w), NEW c \in Ids
    PROVE  cand[c].holder # w
  BY IntelligenceAssumption DEF IInv, CandInv

LEMMA ClaimKeeps ==
    ASSUME IInv, NEW w \in Workers, Claim(w)
    PROVE  IInv'
<1> DEFINE d == worker[w].domain
<1>1. d \in Domains /\ ~Pushing(w)
  BY DEF Claim, IInv, TypeOK, Calls, Pushing
<1>2. PICK c \in Claimable(d) :
          /\ cand' = [Swept(d) EXCEPT ![c] = ClaimedRow(@, w)]
          /\ worker' = [worker EXCEPT ![w] =
                 [pc |-> "bark", domain |-> d, item |-> c,
                  sent |-> [t \in Targets |-> IF t \in enabled \cap BarkTargets
                                              THEN "todo" ELSE "unlisted"]]]
  BY DEF Claim
<1>3. /\ c \in Ids /\ cand[c].status \in {"queued", "retry_wait"} /\ cand[c] \in Candidates
      /\ cand[c].attempts < Delays /\ Swept(d)[c] = cand[c]
  BY DEF Claimable, IInv, TypeOK, CandInv, Live, Swept, Abandoned
<1>4. /\ cand'[c] = ClaimedRow(cand[c], w)
      /\ \A b \in Ids \ {c} : cand'[b] = Swept(d)[b]
      /\ cand' \in [Ids -> Candidates]
  <2>1. Swept(d) \in [Ids -> Candidates]
    BY <1>1, SweepRows DEF Swept
  <2>2. ClaimedRow(cand[c], w) \in Candidates
    BY <1>3, RowTypes
  <2>3. QED
    BY <1>2, <1>3, <2>1, <2>2
<1>5. /\ worker' \in [Workers -> Calls] /\ worker'[w].pc = "bark" /\ worker'[w].item = c
      /\ \A t \in Targets : worker'[w].sent[t] \in {"todo", "unlisted"}
      /\ \A v \in Workers \ {w} : worker'[v] = worker[v]
  <2>1. [t \in Targets |-> IF t \in enabled \cap BarkTargets THEN "todo" ELSE "unlisted"]
            \in [Targets -> Outcomes]
    BY DEF Outcomes
  <2>2. [pc |-> "bark", domain |-> d, item |-> c,
         sent |-> [t \in Targets |-> IF t \in enabled \cap BarkTargets THEN "todo" ELSE "unlisted"]]
            \in Calls
    BY <1>1, <1>3, <2>1 DEF Calls
  <2>3. QED
    BY <1>2, <2>2 DEF IInv, TypeOK
<1>6. UNCHANGED <<journal, delivered, cooling, faults, breaker, enabled>>
  BY DEF Claim
<1>7. TypeOK'
  BY <1>4, <1>5, <1>6 DEF IInv, TypeOK, ChannelsTypeOK
<1>8. CandInv'
  <2> SUFFICES ASSUME NEW b \in Ids
               PROVE  /\ cand'[b].status \in Live => cand'[b].attempts < Delays
                      /\ cand'[b].holder # NoWorker =>
                            /\ cand'[b].status = "pushing" /\ cand'[b].attempts >= 1
                            /\ worker'[cand'[b].holder].pc \in {"bark", "telegram"}
                            /\ worker'[cand'[b].holder].item = b
    BY DEF CandInv, Pushing
  <2>1. CASE b = c
    BY <1>3, <1>4, <1>5, <2>1, RowTypes DEF Live
  <2>2. CASE b # c
    <3>1. /\ cand'[b].status \in Live => cand'[b] = cand[b]
          /\ cand'[b].holder # NoWorker => cand'[b] = cand[b]
      BY <1>1, <1>4, <2>2, SweepRows
    <3>2. cand[b].holder # w /\ cand[b].holder \in Workers \cup {NoWorker}
      BY <1>1, NothingHeld DEF IInv, TypeOK, Candidates
    <3>3. QED
      BY <1>5, <3>1, <3>2 DEF IInv, CandInv, Pushing
  <2>3. QED
    BY <2>1, <2>2
<1>9. EventInv'
  <2>1. SameRow(cand[c], cand'[c])
    BY <1>3, <1>4, RowsKept DEF Waiting
  <2>2. \A b \in Ids \ {c} : SameRow(cand[b], cand'[b])
    BY <1>1, <1>4, SweepRows
  <2>3. QED
    BY <2>1, <2>2, EventFrame DEF IInv
<1>10. SendInv'
  BY <1>5, <1>6 DEF IInv, SendInv, CallInv, RowInv, Sending, Pushing, Row
<1>11. QED
  BY <1>7, <1>8, <1>9, <1>10 DEF IInv

LEMMA LeftWorker ==
    ASSUME IInv, NEW w \in Workers, Leave(w)
    PROVE  /\ worker' \in [Workers -> Calls] /\ worker'[w].pc = "idle"
           /\ \A t \in Targets : worker'[w].sent[t] = "unlisted"
           /\ \A v \in Workers \ {w} : worker'[v] = worker[v]
  BY Defaults DEF Leave, Unlisted, IInv, TypeOK

LEMMA ClaimNothingKeeps ==
    ASSUME IInv, NEW w \in Workers, ClaimNothing(w)
    PROVE  IInv'
<1> DEFINE d == worker[w].domain
<1>1. d \in Domains /\ ~Pushing(w) /\ Leave(w) /\ cand' = Swept(d)
  BY DEF ClaimNothing, IInv, TypeOK, Calls, Pushing
<1>2. UNCHANGED <<journal, delivered, cooling, faults, breaker, enabled>>
  BY DEF ClaimNothing
<1>3. cand' \in [Ids -> Candidates]
  BY <1>1, SweepRows DEF Swept
<1>4. TypeOK'
  BY <1>1, <1>2, <1>3, LeftWorker DEF IInv, TypeOK, ChannelsTypeOK
<1>5. CandInv'
  <2> SUFFICES ASSUME NEW b \in Ids
               PROVE  /\ cand'[b].status \in Live => cand'[b].attempts < Delays
                      /\ cand'[b].holder # NoWorker =>
                            /\ cand'[b].status = "pushing" /\ cand'[b].attempts >= 1
                            /\ worker'[cand'[b].holder].pc \in {"bark", "telegram"}
                            /\ worker'[cand'[b].holder].item = b
    BY DEF CandInv, Pushing
  <2>1. /\ cand'[b].status \in Live => cand'[b] = cand[b]
        /\ cand'[b].holder # NoWorker => cand'[b] = cand[b]
    BY <1>1, SweepRows
  <2>2. cand[b].holder # w /\ cand[b].holder \in Workers \cup {NoWorker}
    BY <1>1, NothingHeld DEF IInv, TypeOK, Candidates
  <2>3. QED
    BY <1>1, <2>1, <2>2, LeftWorker DEF IInv, CandInv, Pushing
<1>6. EventInv'
  BY <1>1, SweepRows, EventFrame DEF IInv
<1>7. SendInv'
  BY <1>1, <1>2, LeftWorker DEF IInv, SendInv, CallInv, RowInv, Sending, Pushing, Row
<1>8. QED
  BY <1>4, <1>5, <1>6, <1>7 DEF IInv

\* A call ends: the row is written if the token is still its own.
LEMMA SettleKeeps ==
    ASSUME IInv, NEW w \in Workers, Pushing(w),
           NEW s \in {"pushed", "channel_blocked", "retry_wait", "failed"}, Settle(w, s),
           s = "retry_wait" => cand[worker[w].item].attempts < Delays,
           cooling' \subseteq Domains
    PROVE  IInv'
<1> DEFINE c == worker[w].item
<1>1. c \in Ids /\ cand[c] \in Candidates /\ Leave(w) /\ s \in Statuses /\ Delays \in Nat
  BY IntelligenceAssumption DEF IInv, TypeOK, Calls, Settle, Statuses
<1>2. UNCHANGED <<journal, delivered, faults, breaker, enabled>>
  BY DEF Settle
<1>3. \A b \in Ids : cand[b].holder = w => b = c
  BY IntelligenceAssumption DEF IInv, CandInv
<1>4. \/ /\ cand[c].holder = w /\ cand[c].status = "pushing" /\ cand[c].attempts >= 1
         /\ cand' = [cand EXCEPT ![c] = SettledRow(cand[c], s)]
         /\ SettledRow(cand[c], s) \in Candidates
      \/ cand[c].holder # w /\ cand' = cand
  <2>1. CASE HoldsClaim(w)
    <3>1. cand[c].holder = w /\ cand[c].status = "pushing" /\ cand[c].attempts >= 1
      BY <1>1, <2>1, IntelligenceAssumption DEF HoldsClaim, IInv, CandInv
    <3>2. QED
      BY <1>1, <2>1, <3>1, RowTypes DEF Settle
  <2>2. CASE ~HoldsClaim(w)
    BY <2>2 DEF HoldsClaim, Settle
  <2>3. QED
    BY <2>1, <2>2
<1>5. cand' \in [Ids -> Candidates] /\ \A b \in Ids \ {c} : cand'[b] = cand[b]
  BY <1>1, <1>4 DEF IInv, TypeOK
<1>6. cand'[c] = cand[c] \/ (cand[c].status = "pushing" /\ cand'[c] = SettledRow(cand[c], s))
  BY <1>1, <1>4 DEF IInv, TypeOK
<1>7. TypeOK'
  BY <1>1, <1>2, <1>5, LeftWorker DEF IInv, TypeOK, ChannelsTypeOK
<1>8. CandInv'
  <2> SUFFICES ASSUME NEW b \in Ids
               PROVE  /\ cand'[b].status \in Live => cand'[b].attempts < Delays
                      /\ cand'[b].holder # NoWorker =>
                            /\ cand'[b].status = "pushing" /\ cand'[b].attempts >= 1
                            /\ worker'[cand'[b].holder].pc \in {"bark", "telegram"}
                            /\ worker'[cand'[b].holder].item = b
    BY DEF CandInv, Pushing
  <2>1. CASE cand'[b] = cand[b] /\ cand[b].holder # w
    <3>1. cand[b].holder \in Workers \cup {NoWorker}
      BY DEF IInv, TypeOK, Candidates
    <3>2. QED
      BY <1>1, <2>1, <3>1, LeftWorker DEF IInv, CandInv, Pushing
  <2>2. CASE b = c /\ cand[c].holder = w
    <3>1. /\ cand'[c].status = s /\ cand'[c].holder = NoWorker
          /\ cand'[c].attempts = IF s = "channel_blocked" THEN cand[c].attempts - 1
                                 ELSE cand[c].attempts
          /\ cand[c].attempts \in 0..Delays /\ cand[c].attempts >= 1
      <4>1. cand'[c] = SettledRow(cand[c], s) /\ cand[c].attempts >= 1
        BY <1>1, <1>4, <2>2 DEF IInv, TypeOK
      <4>2. cand[c].attempts \in 0..Delays
        BY <1>1 DEF Candidates
      <4>3. /\ SettledRow(cand[c], s).status = s /\ SettledRow(cand[c], s).holder = NoWorker
            /\ SettledRow(cand[c], s).attempts = IF s = "channel_blocked"
                                                 THEN cand[c].attempts - 1 ELSE cand[c].attempts
        BY SMTT(20), <1>1, <4>1, RowTypes
      <4>4. QED
        BY <4>1, <4>2, <4>3
    <3>2. QED
      BY <1>1, <2>2, <3>1 DEF Live
  <2>3. QED
    BY <1>3, <1>4, <1>5, <2>1, <2>2
<1>9. EventInv'
  <2>1. \A b \in Ids : SameRow(cand[b], cand'[b])
    BY <1>1, <1>5, <1>6, RowsKept DEF SameRow, Waiting
  <2>2. QED
    BY <2>1, EventFrame DEF IInv
<1>10. SendInv'
  BY <1>1, <1>2, LeftWorker DEF IInv, SendInv, CallInv, RowInv, Sending, Pushing, Row
<1>11. QED
  BY <1>7, <1>8, <1>9, <1>10 DEF IInv

-----------------------------------------------------------------------------
(* The deliveries.                                                         *)

\* What the result of one target leaves alone.
LEMMA ResultFrame ==
    ASSUME IInv, NEW w \in Workers, NEW t \in Targets, NEW o \in Outcomes, Result(w, t, o)
    PROVE  /\ worker' \in [Workers -> Calls]
           /\ \A v \in Workers : worker'[v].pc = worker[v].pc /\ worker'[v].item = worker[v].item
           /\ worker'[w].sent[t] = o
           /\ \A v \in Workers, u \in Targets :
                  v # w \/ u # t => worker'[v].sent[u] = worker[v].sent[u]
<1>1. worker \in [Workers -> Calls] /\ worker[w] \in Calls
  BY DEF IInv, TypeOK
<1>2. [worker[w].sent EXCEPT ![t] = o] \in [Targets -> Outcomes]
  BY <1>1 DEF Calls
<1>3. worker' = [worker EXCEPT ![w] = [worker[w] EXCEPT !.sent = [worker[w].sent EXCEPT ![t] = o]]]
  BY <1>1 DEF Result
<1>4. /\ [worker[w] EXCEPT !.sent = [worker[w].sent EXCEPT ![t] = o]] \in Calls
      /\ worker'[w] = [worker[w] EXCEPT !.sent = [worker[w].sent EXCEPT ![t] = o]]
  BY <1>1, <1>2, <1>3 DEF Calls
<1>5. worker'[w].sent = [worker[w].sent EXCEPT ![t] = o]
      /\ worker'[w].pc = worker[w].pc /\ worker'[w].item = worker[w].item
  BY <1>1, <1>4 DEF Calls
<1>6. QED
  BY <1>1, <1>2, <1>3, <1>4, <1>5 DEF Calls

\* A result that changes no candidate disturbs no claim and no order of events.
LEMMA ClaimsFrame ==
    ASSUME IInv, UNCHANGED cand,
           \A v \in Workers : Pushing(v) => Pushing(v)' /\ worker'[v].item = worker[v].item
    PROVE  CandInv' /\ EventInv'
<1>1. \A c \in Ids : cand[c].holder \in Workers \cup {NoWorker}
  BY DEF IInv, TypeOK, Candidates
<1>2. CandInv'
  BY <1>1 DEF IInv, CandInv, Pushing
<1>3. EventInv'
  BY EventSame DEF IInv
<1>4. QED
  BY <1>2, <1>3

\* The step of one target: a row nobody else is sending to, and that has
\* delivered nothing so far, gets an outcome that fits the call's.
LEMMA OutcomeKeeps ==
    ASSUME IInv, NEW w \in Workers, NEW t \in Targets, Pushing(w),
           Sending(w, t) \/ Open(w, t),
           NEW s \in RowStatuses, NEW o \in Outcomes, SetRow(w, t, s), Result(w, t, o),
           o = "sending" => s = "executing", o = "ok" => s = "completed",
           \/ UNCHANGED delivered
           \/ TakeMessage(w, t) /\ s \in {"completed", "uncertain"} /\ o # "sending"
    PROVE  /\ journal' \in [Ids -> [Targets -> RowStatuses]]
           /\ delivered' \in [Ids -> [Targets -> Nat]]
           /\ worker' \in [Workers -> Calls]
           /\ SendInv'
<1> DEFINE c == worker[w].item
<1>1. /\ c \in Ids /\ delivered \in [Ids -> [Targets -> Nat]]
      /\ journal \in [Ids -> [Targets -> RowStatuses]] /\ delivered[c][t] \in Nat
  BY DEF IInv, TypeOK, Calls
<1>2. delivered[c][t] = 0 /\ journal[c][t] # "completed"
  BY <1>1 DEF IInv, SendInv, CallInv, RowInv, Open, Row
<1>3. \A v \in Workers : Sending(v, t) /\ worker[v].item = c => v = w
  BY <1>1 DEF IInv, SendInv, CallInv, Open, Row
<1>4. /\ journal' \in [Ids -> [Targets -> RowStatuses]] /\ journal'[c][t] = s
      /\ \A x \in Ids, u \in Targets : x # c \/ u # t => journal'[x][u] = journal[x][u]
  BY <1>1, Cell DEF SetRow
<1>5. /\ delivered' \in [Ids -> [Targets -> Nat]]
      /\ \A x \in Ids, u \in Targets : x # c \/ u # t => delivered'[x][u] = delivered[x][u]
      /\ delivered'[c][t] = 0 \/ (/\ delivered'[c][t] = 1 /\ o # "sending"
                                  /\ s \in {"completed", "uncertain"})
  <2>1. CASE UNCHANGED delivered
    BY <1>1, <1>2, <2>1
  <2>2. CASE TakeMessage(w, t) /\ s \in {"completed", "uncertain"} /\ o # "sending"
    <3>1. delivered' = [delivered EXCEPT ![c][t] = delivered[c][t] + 1] /\ delivered[c][t] + 1 \in Nat
      BY <1>1, <2>2 DEF TakeMessage
    <3>2. /\ delivered' \in [Ids -> [Targets -> Nat]] /\ delivered'[c][t] = delivered[c][t] + 1
          /\ \A x \in Ids, u \in Targets : x # c \/ u # t => delivered'[x][u] = delivered[x][u]
      BY <1>1, <3>1, Cell
    <3>3. QED
      BY <1>2, <2>2, <3>2
  <2>3. QED
    BY <2>1, <2>2
<1>6. /\ worker' \in [Workers -> Calls]
      /\ \A v \in Workers : worker'[v].pc = worker[v].pc /\ worker'[v].item = worker[v].item
      /\ worker'[w].sent[t] = o
      /\ \A v \in Workers, u \in Targets :
             v # w \/ u # t => worker'[v].sent[u] = worker[v].sent[u]
  BY ResultFrame
<1>7. RowInv'
  <2> SUFFICES ASSUME NEW x \in Ids, NEW u \in Targets
               PROVE  /\ delivered'[x][u] \in {0, 1}
                      /\ journal'[x][u] \in {"absent", "failed"} => delivered'[x][u] = 0
    BY DEF RowInv
  <2>1. CASE x = c /\ u = t
    BY <1>4, <1>5, <2>1
  <2>2. CASE x # c \/ u # t
    BY <1>4, <1>5, <2>2 DEF IInv, SendInv, RowInv
  <2>3. QED
    BY <2>1, <2>2
<1>8. CallInv'
  <2> SUFFICES ASSUME NEW v \in Workers, NEW u \in Targets
               PROVE  /\ ~Pushing(v)' => worker'[v].sent[u] = "unlisted"
                      /\ Sending(v, u)' => Row(v, u)' = "executing" /\ delivered'[worker'[v].item][u] = 0
                      /\ worker'[v].sent[u] = "ok" => Row(v, u)' = "completed"
                      /\ \A z \in Workers :
                             /\ Sending(v, u)' /\ Sending(z, u)' /\ worker'[z].item = worker'[v].item
                             => z = v
    BY DEF CallInv
  <2>0. worker[v].item \in Ids
    BY DEF IInv, TypeOK, Calls
  <2>1. CASE v = w /\ u = t
    <3>1. \A z \in Workers \ {w} : Sending(z, t)' /\ worker'[z].item = worker'[w].item => FALSE
      BY <1>3, <1>6 DEF Sending
    <3>2. QED
      BY <1>4, <1>5, <1>6, <2>1, <3>1 DEF Pushing, Sending, Row
  <2>2. CASE v # w \/ u # t
    <3>1. worker'[v].sent[u] = worker[v].sent[u]
      BY <1>6, <2>2
    <3>2. ~Pushing(v)' => worker'[v].sent[u] = "unlisted"
      BY <1>6, <3>1 DEF IInv, SendInv, CallInv, Pushing
    <3>3. Sending(v, u)' => worker[v].item # c \/ u # t
      BY <1>3, <2>2, <3>1 DEF Sending
    <3>4. Sending(v, u)' => Row(v, u)' = "executing" /\ delivered'[worker'[v].item][u] = 0
      BY SMTT(20), ZenonT(30), <1>4, <1>5, <1>6, <2>0, <3>1, <3>3
      DEF IInv, SendInv, CallInv, Sending, Row
    <3>5. worker'[v].sent[u] = "ok" => Row(v, u)' = "completed"
      BY <1>2, <1>4, <1>6, <2>0, <3>1 DEF IInv, SendInv, CallInv, Row
    <3>6. ASSUME NEW z \in Workers, Sending(v, u)', Sending(z, u)', worker'[z].item = worker'[v].item
          PROVE  z = v
      <4>1. CASE z = w /\ u = t
        BY <1>3, <1>6, <2>2, <3>1, <3>6, <4>1 DEF Sending
      <4>2. CASE z # w \/ u # t
        <5>1. Sending(v, u) /\ Sending(z, u) /\ worker[z].item = worker[v].item
          BY <1>6, <3>1, <3>6, <4>2 DEF Sending
        <5>2. QED
          BY <5>1 DEF IInv, SendInv, CallInv
      <4>3. QED
        BY <4>1, <4>2
    <3>7. QED
      BY <3>2, <3>4, <3>5, <3>6
  <2>3. QED
    BY <2>1, <2>2
<1>9. QED
  BY <1>4, <1>5, <1>6, <1>7, <1>8 DEF SendInv

LEMMA ChannelsKept ==
    ASSUME ChannelsTypeOK, NEW t \in Targets,
           \/ UNCHANGED <<breaker, enabled>> \/ Switch(t) \/ Rekey(t)
           \/ (Success(t) \/ \E asks \in BOOLEAN : Failure(t, asks)) /\ UNCHANGED enabled
           \/ \E n \in ChannelNames : HoldEnds(n)
    PROVE  ChannelsTypeOK'
<1>1. ChannelOf(t) \in ChannelNames
  BY DEF ChannelOf, ChannelNames, Targets
<1>2. Ready \in Breakers
  BY IntelligenceAssumption DEF Ready, Breakers
<1>3. \A b \in Breakers, asks \in BOOLEAN : AfterFailure(b, asks) \in Breakers
  <2> SUFFICES ASSUME NEW b \in Breakers, NEW asks \in BOOLEAN
               PROVE  AfterFailure(b, asks) \in Breakers
    OBVIOUS
  <2>1. (IF b.failures < OpenAfter THEN b.failures + 1 ELSE OpenAfter) \in 0..OpenAfter
    BY IntelligenceAssumption DEF Breakers
  <2>2. (b.failures + 1 >= OpenAfter \/ asks) \in BOOLEAN
    OBVIOUS
  <2>3. QED
    BY <2>1, <2>2 DEF AfterFailure, Breakers
<1>4. CASE UNCHANGED <<breaker, enabled>>
  BY <1>4 DEF ChannelsTypeOK
<1>5. CASE Switch(t)
  BY <1>5 DEF Switch, ChannelsTypeOK
<1>6. CASE Rekey(t)
  BY <1>2, <1>6 DEF Rekey, ChannelsTypeOK
<1>7. CASE Success(t) /\ UNCHANGED enabled
  BY <1>1, <1>2, <1>7 DEF Success, ChannelsTypeOK
<1>8. ASSUME NEW asks \in BOOLEAN, Failure(t, asks), UNCHANGED enabled
      PROVE  ChannelsTypeOK'
  <2>1. AfterFailure(breaker[ChannelOf(t)], asks) \in Breakers
    BY <1>1, <1>3 DEF ChannelsTypeOK
  <2>2. QED
    BY <1>1, <1>8, <2>1 DEF Failure, ChannelsTypeOK
<1>9. ASSUME NEW n \in ChannelNames, HoldEnds(n)
      PROVE  ChannelsTypeOK'
  BY <1>9 DEF HoldEnds, ChannelsTypeOK, Breakers
<1>10. QED
  BY <1>4, <1>5, <1>6, <1>7, <1>8, <1>9

LEMMA DisturbKept ==
    ASSUME TypeOK, Disturb
    PROVE  faults' \in 0..MaxFaults
  BY IntelligenceAssumption DEF TypeOK, Disturb

LEMMA DeliverKeeps ==
    ASSUME IInv, NEW w \in Workers, NEW t \in Targets, Deliver(w, t)
    PROVE  IInv'
<1>1. UNCHANGED <<cand, cooling>> /\ \E o \in Outcomes : Result(w, t, o)
  BY DEF Deliver, Settled, NotSent, Send, Accept, Refuse, Silence, Outcomes
<1>2. CandInv' /\ EventInv'
  <2>1. \A v \in Workers : worker'[v].pc = worker[v].pc /\ worker'[v].item = worker[v].item
    BY <1>1, ResultFrame
  <2>2. QED
    BY <1>1, <2>1, ClaimsFrame DEF Pushing
<1>3. Pushing(w)
  BY DEF Deliver, Settled, NotSent, Send, Accept, Refuse, Silence, Todo, Sending, Pushing,
         IInv, SendInv, CallInv
<1>4. ASSUME NEW s \in RowStatuses, NEW o \in Outcomes, SetRow(w, t, s), Result(w, t, o),
             Sending(w, t) \/ Open(w, t),
             o = "sending" => s = "executing", o = "ok" => s = "completed",
             \/ UNCHANGED delivered
             \/ TakeMessage(w, t) /\ s \in {"completed", "uncertain"} /\ o # "sending",
             ChannelsTypeOK', faults' \in 0..MaxFaults
      PROVE  IInv'
  BY <1>1, <1>2, <1>3, <1>4, OutcomeKeeps DEF IInv, TypeOK
<1>5. ChannelsTypeOK /\ faults \in 0..MaxFaults
  BY DEF IInv, TypeOK
<1>6. CASE Settled(w, t)
  <2>1. PICK o \in {"ok", "final"} : Result(w, t, o) /\ (o = "ok" => Row(w, t) = "completed")
    BY <1>6 DEF Settled
  <2>2. UNCHANGED <<journal, delivered, faults, breaker, enabled>>
    BY <1>6 DEF Settled
  <2>3. /\ worker' \in [Workers -> Calls]
        /\ \A v \in Workers : worker'[v].pc = worker[v].pc /\ worker'[v].item = worker[v].item
        /\ worker'[w].sent[t] = o
        /\ \A v \in Workers, u \in Targets :
               v # w \/ u # t => worker'[v].sent[u] = worker[v].sent[u]
    BY <2>1, ResultFrame DEF Outcomes
  <2>4. CallInv'
    <3> SUFFICES ASSUME NEW v \in Workers, NEW u \in Targets
                 PROVE  /\ ~Pushing(v)' => worker'[v].sent[u] = "unlisted"
                        /\ Sending(v, u)' => /\ Row(v, u)' = "executing"
                                             /\ delivered'[worker'[v].item][u] = 0
                        /\ worker'[v].sent[u] = "ok" => Row(v, u)' = "completed"
                        /\ \A z \in Workers :
                               /\ Sending(v, u)' /\ Sending(z, u)'
                               /\ worker'[z].item = worker'[v].item
                               => z = v
      BY DEF CallInv
    <3>1. Sending(v, u)' => Sending(v, u)
      BY <2>1, <2>3 DEF Sending
    <3>2. \A z \in Workers : Sending(z, u)' => Sending(z, u)
      BY <2>1, <2>3 DEF Sending
    <3>3. CASE v = w /\ u = t
      BY <1>3, <2>1, <2>2, <2>3, <3>1, <3>2, <3>3
      DEF IInv, SendInv, CallInv, Pushing, Row, Sending
    <3>4. CASE v # w \/ u # t
      BY <2>2, <2>3, <3>1, <3>2, <3>4 DEF IInv, SendInv, CallInv, Pushing, Row
    <3>5. QED
      BY <3>3, <3>4
  <2>5. RowInv' /\ TypeOK'
    BY <1>1, <2>2, <2>3 DEF IInv, SendInv, RowInv, TypeOK, ChannelsTypeOK
  <2>6. QED
    BY <1>2, <2>4, <2>5 DEF IInv, SendInv
<1>7. CASE NotSent(w, t)
  BY <1>4, <1>5, <1>7, ChannelsKept DEF NotSent, RowStatuses, Outcomes
<1>8. CASE Send(w, t)
  BY <1>4, <1>5, <1>8, ChannelsKept DEF Send, RowStatuses, Outcomes
<1>9. CASE Accept(w, t)
  BY <1>4, <1>5, <1>9, ChannelsKept DEF Accept, RowStatuses, Outcomes
<1>10. ASSUME NEW retryable \in BOOLEAN, NEW asks \in BOOLEAN, Refuse(w, t, retryable, asks)
       PROVE  IInv'
  <2>1. ChannelsTypeOK' /\ faults' \in 0..MaxFaults
    BY <1>5, <1>10, ChannelsKept, DisturbKept DEF Refuse, IInv
  <2>2. PICK o \in {"blocked", "retryable", "final"} : Result(w, t, o)
    BY <1>10 DEF Refuse
  <2>3. QED
    BY <1>4, <1>10, <2>1, <2>2 DEF Refuse, RowStatuses, Outcomes
<1>11. CASE Silence(w, t)
  <2>1. ChannelsTypeOK' /\ faults' \in 0..MaxFaults
    BY <1>5, <1>11, ChannelsKept, DisturbKept DEF Silence, IInv
  <2>2. QED
    BY <1>4, <1>11, <2>1 DEF Silence, RowStatuses, Outcomes
<1>12. QED
  BY <1>6, <1>7, <1>8, <1>9, <1>10, <1>11 DEF Deliver

LEMMA ListChatsKeeps ==
    ASSUME IInv, NEW w \in Workers, ListChats(w)
    PROVE  IInv'
<1> DEFINE listed == [t \in Targets |-> IF t \in enabled \cap Chats THEN "todo" ELSE worker[w].sent[t]]
<1>1. worker \in [Workers -> Calls] /\ worker[w] \in Calls /\ worker[w].pc = "bark"
  BY DEF IInv, TypeOK, ListChats
<1>2. listed \in [Targets -> Outcomes]
  BY <1>1 DEF Calls, Outcomes
<1>3. worker' = [worker EXCEPT ![w] = [worker[w] EXCEPT !.pc = "telegram", !.sent = listed]]
  BY <1>1 DEF ListChats, Calls
<1>4. [worker[w] EXCEPT !.pc = "telegram", !.sent = listed] \in Calls
  BY <1>1, <1>2 DEF Calls
<1>5. /\ worker' \in [Workers -> Calls]
      /\ worker'[w].pc = "telegram" /\ worker'[w].item = worker[w].item
      /\ \A t \in Targets : worker'[w].sent[t] \in {"todo", worker[w].sent[t]}
      /\ \A v \in Workers \ {w} : worker'[v] = worker[v]
  BY <1>1, <1>2, <1>3, <1>4 DEF Calls
<1>6. UNCHANGED <<cand, journal, delivered, cooling, faults, breaker, enabled>>
  BY DEF ListChats
<1>7. TypeOK'
  BY <1>5, <1>6 DEF IInv, TypeOK, ChannelsTypeOK
<1>8. CandInv' /\ EventInv'
  BY <1>5, <1>6, ClaimsFrame DEF Pushing
<1>9. SendInv'
  BY <1>1, <1>5, <1>6 DEF IInv, SendInv, CallInv, RowInv, Sending, Pushing, Row
<1>10. QED
  BY <1>7, <1>8, <1>9 DEF IInv

-----------------------------------------------------------------------------
(* Crashes, time and the operator.                                         *)

LEMMA CrashKeeps ==
    ASSUME IInv, NEW w \in Workers, Crash(w)
    PROVE  IInv'
<1> DEFINE c == worker[w].item
<1>1. /\ c \in Ids /\ Leave(w) /\ Disturb /\ UNCHANGED <<journal, cooling, breaker, enabled>>
      /\ delivered \in [Ids -> [Targets -> Nat]]
  BY DEF Crash, IInv, TypeOK, Calls
<1>2. PICK S \in SUBSET {t \in Targets : Sending(w, t)} :
          delivered' = [delivered EXCEPT ![c] =
              [t \in Targets |-> IF t \in S THEN @[t] + 1 ELSE @[t]]]
  BY DEF Crash
<1>3. /\ \A b \in Ids \ {c}, t \in Targets : delivered'[b][t] = delivered[b][t]
      /\ \A t \in Targets : delivered'[c][t] = IF t \in S THEN delivered[c][t] + 1 ELSE delivered[c][t]
      /\ delivered' \in [Ids -> [Targets -> Nat]]
  <2>1. [t \in Targets |-> IF t \in S THEN delivered[c][t] + 1 ELSE delivered[c][t]] \in [Targets -> Nat]
    BY <1>1
  <2>2. QED
    BY <1>1, <1>2, <2>1
<1>4. \A t \in S : t \in Targets /\ Sending(w, t) /\ delivered[c][t] = 0 /\ journal[c][t] = "executing"
  BY DEF IInv, SendInv, CallInv, Row
<1>5. \A b \in Ids : /\ cand'[b] \in Candidates /\ SameRow(cand[b], cand'[b])
                      /\ cand'[b].status = cand[b].status /\ cand'[b].attempts = cand[b].attempts
                      /\ cand'[b].holder = IF cand[b].holder = w THEN NoWorker ELSE cand[b].holder
  <2>1. ASSUME NEW r \in Candidates
        PROVE  /\ [r EXCEPT !.holder = NoWorker] \in Candidates
               /\ [r EXCEPT !.holder = NoWorker].status = r.status
               /\ [r EXCEPT !.holder = NoWorker].attempts = r.attempts
               /\ [r EXCEPT !.holder = NoWorker].holder = NoWorker
               /\ SameRow(r, [r EXCEPT !.holder = NoWorker])
    BY DEF Candidates, SameRow
  <2>2. \A b \in Ids : cand[b] \in Candidates /\ SameRow(cand[b], cand[b])
                        /\ cand'[b] = IF cand[b].holder = w THEN [cand[b] EXCEPT !.holder = NoWorker]
                                      ELSE cand[b]
    BY DEF Crash, Forgotten, IInv, TypeOK, SameRow
  <2>3. QED
    BY <2>1, <2>2
<1>6. TypeOK'
  <2>1. cand' \in [Ids -> Candidates]
    BY <1>5 DEF Crash
  <2>2. QED
    BY <1>1, <1>3, <2>1, LeftWorker, DisturbKept DEF IInv, TypeOK, ChannelsTypeOK
<1>7. CandInv'
  <2>1. \A b \in Ids : cand[b].holder \in Workers \cup {NoWorker}
    BY DEF IInv, TypeOK, Candidates
  <2>2. QED
    BY <1>1, <1>5, <2>1, LeftWorker DEF IInv, CandInv, Pushing
<1>8. EventInv'
  BY <1>5, EventFrame DEF IInv
<1>9. RowInv'
  <2>1. \A b \in Ids, t \in Targets : b # c \/ t \notin S => delivered'[b][t] = delivered[b][t]
    BY <1>3
  <2>2. \A t \in S : delivered'[c][t] = 1 /\ journal'[c][t] = "executing"
    BY <1>1, <1>3, <1>4
  <2>3. QED
    BY <1>1, <2>1, <2>2 DEF IInv, SendInv, RowInv
<1>10. CallInv'
  <2>1. ASSUME NEW v \in Workers \ {w}, NEW t \in Targets, Sending(v, t)
        PROVE  delivered'[worker[v].item][t] = 0
    <3>1. worker[v].item \in Ids /\ delivered[worker[v].item][t] = 0
      BY <2>1 DEF IInv, TypeOK, Calls, SendInv, CallInv
    <3>2. worker[v].item # c \/ t \notin S
      BY <1>4, <2>1 DEF IInv, SendInv, CallInv
    <3>3. QED
      BY <1>3, <3>1, <3>2
  <2>2. QED
    BY <1>1, <2>1, LeftWorker DEF IInv, SendInv, CallInv, Sending, Pushing, Row
<1>11. QED
  BY <1>6, <1>7, <1>8, <1>9, <1>10 DEF IInv, SendInv

LEMMA TimeKeeps ==
    ASSUME IInv, Time
    PROVE  IInv'
<1>1. ASSUME NEW c \in Ids, NEW q \in Candidates, cand' = [cand EXCEPT ![c] = q],
             UNCHANGED dispatchVars,
             q.status = cand[c].status, q.attempts = cand[c].attempts, q.holder = cand[c].holder,
             q.domain = cand[c].domain, q.event = cand[c].event, cand[c].old => q.old
      PROVE  IInv'
  <2>1. \A b \in Ids : /\ cand'[b] \in Candidates /\ SameRow(cand[b], cand'[b])
                        /\ cand'[b].status = cand[b].status /\ cand'[b].attempts = cand[b].attempts
                        /\ cand'[b].holder = cand[b].holder
    BY <1>1 DEF IInv, TypeOK, SameRow
  <2>2. TypeOK'
    BY <1>1 DEF IInv, TypeOK, ChannelsTypeOK, dispatchVars
  <2>3. CandInv'
    BY <1>1, <2>1 DEF IInv, CandInv, Pushing, dispatchVars
  <2>4. EventInv'
    BY <2>1, EventFrame DEF IInv
  <2>5. SendInv'
    BY <1>1 DEF IInv, SendInv, CallInv, RowInv, Sending, Pushing, Row, dispatchVars
  <2>6. QED
    BY <2>2, <2>3, <2>4, <2>5 DEF IInv
<1>2. \A c \in Ids : cand[c] \in Candidates
  BY DEF IInv, TypeOK
<1>3. ASSUME NEW r \in Candidates
      PROVE  \A q \in {[r EXCEPT !.stale = TRUE], [r EXCEPT !.due = TRUE], [r EXCEPT !.old = TRUE]} :
                 /\ q \in Candidates /\ q.status = r.status /\ q.attempts = r.attempts
                 /\ q.holder = r.holder /\ q.domain = r.domain /\ q.event = r.event
                 /\ r.old => q.old
  BY DEF Candidates
<1>4. ASSUME NEW c \in Ids, Lapse(c) \/ FallDue(c) \/ Age(c)
      PROVE  IInv'
  <2>1. PICK q \in {[cand[c] EXCEPT !.stale = TRUE], [cand[c] EXCEPT !.due = TRUE],
                    [cand[c] EXCEPT !.old = TRUE]} : cand' = [cand EXCEPT ![c] = q]
    BY <1>2, <1>4 DEF Lapse, FallDue, Age
  <2>2. UNCHANGED dispatchVars
    BY <1>4 DEF Lapse, FallDue, Age
  <2>3. QED
    BY <1>1, <1>2, <1>3, <2>1, <2>2
<1>5. ASSUME UNCHANGED <<cand, journal, delivered, worker, faults>>,
             cooling' \subseteq Domains, ChannelsTypeOK'
      PROVE  IInv'
  BY <1>5, EventSame DEF IInv, TypeOK, CandInv, SendInv, CallInv, RowInv, Sending, Pushing, Row
<1>6. ASSUME NEW d \in Domains, Cool(d)
      PROVE  IInv'
  BY <1>5, <1>6 DEF Cool, IInv, TypeOK, ChannelsTypeOK
<1>7. ASSUME NEW n \in ChannelNames, HoldEnds(n),
             UNCHANGED <<cand, journal, delivered, worker, cooling, faults>>
      PROVE  IInv'
  <2>1. ChannelsTypeOK'
    BY <1>7 DEF HoldEnds, IInv, TypeOK, ChannelsTypeOK, Breakers
  <2>2. QED
    BY <1>5, <1>7, <2>1 DEF IInv, TypeOK
<1>8. QED
  BY <1>4, <1>6, <1>7 DEF Time

LEMMA EditKeeps ==
    ASSUME IInv, NEW t \in Targets, Edit(t)
    PROVE  IInv'
<1>1. ChannelsTypeOK' /\ faults' \in 0..MaxFaults
  BY ChannelsKept, DisturbKept DEF Edit, IInv, TypeOK
<1>2. UNCHANGED <<cand, journal, delivered, worker, cooling>>
  BY DEF Edit
<1>3. QED
  BY <1>1, <1>2, EventSame
  DEF IInv, TypeOK, CandInv, SendInv, CallInv, RowInv, Sending, Pushing, Row

-----------------------------------------------------------------------------
(* The theorems.                                                           *)

LEMMA EndKeeps ==
    ASSUME IInv, NEW w \in Workers, Complete(w) \/ Block(w) \/ Retry(w) \/ Fail(w)
    PROVE  IInv'
<1>1. Pushing(w) /\ worker[w].domain \in Domains /\ cooling \subseteq Domains
  BY DEF Complete, Block, Retry, Fail, Ended, Pushing, IInv, TypeOK, Calls
<1>2. CASE Complete(w)
  BY <1>1, <1>2, SettleKeeps DEF Complete
<1>3. CASE Block(w)
  BY <1>1, <1>3, SettleKeeps DEF Block
<1>4. CASE Retry(w)
  BY <1>1, <1>4, SettleKeeps DEF Retry
<1>5. CASE Fail(w)
  BY <1>1, <1>5, SettleKeeps DEF Fail
<1>6. QED
  BY <1>2, <1>3, <1>4, <1>5

LEMMA IInvInductive ==
    ASSUME IInv, [Next]_vars
    PROVE  IInv'
<1>1. CASE UNCHANGED vars
  BY <1>1, EventSame
  DEF vars, IInv, TypeOK, ChannelsTypeOK, CandInv, SendInv, CallInv, RowInv, Sending,
      Pushing, Row
<1>2. ASSUME NEW w \in Workers, Push(w)
      PROVE  IInv'
  BY <1>2, ClaimKeeps, ClaimNothingKeeps, ListChatsKeeps, EndKeeps, DeliverKeeps DEF Push
<1>3. QED
  BY <1>1, <1>2, IngestKeeps, CrashKeeps, StartPushKeeps, EditKeeps, TimeKeeps DEF Next

LEMMA IInvHolds == Spec => []IInv
  BY IInvInit, IInvInductive, PTL DEF Spec

\* The candidate table, the journal and the calls keep their types: in
\* particular no candidate is tried more often than the delays allow.
THEOREM PipelineTypeCorrect == Spec => []TypeOK
<1>1. IInv => TypeOK
  BY DEF IInv
<1>2. QED
  BY <1>1, IInvHolds, PTL

\* Sweeps, retries, crashes and overlapping calls never bring a candidate to
\* a target twice.
THEOREM PushedAtMostOnce == Spec => []DeliveredOnce
<1>1. IInv => DeliveredOnce
  BY DEF IInv, SendInv, RowInv, DeliveredOnce
<1>2. QED
  BY <1>1, IInvHolds, PTL

\* Within the history window a second candidate of an event waits only if as
\* many evaluations of the event as ingest reads were stored after the first.
THEOREM EventsDoNotPileUp == Spec => []OneLivePerEvent
<1>1. IInv => OneLivePerEvent
  BY DEF IInv, EventInv, OneLivePerEvent, Waiting
<1>2. QED
  BY <1>1, IInvHolds, PTL

\* complete is called with receipts only: of every target that was listed for
\* this push, whatever attempt it was delivered in.
THEOREM PushedMeansDelivered == Spec => PushedWithReceipts
<1> DEFINE Receipts == \A c \in Ids :
                           cand'[c].status = "pushed" /\ cand[c].status # "pushed" =>
                               \A t \in Targets : worker[cand[c].holder].sent[t] # "unlisted"
                                                     => journal[c][t] = "completed"
<1>1. ASSUME IInv, [Next]_vars
      PROVE  Receipts
  <2> SUFFICES ASSUME NEW c \in Ids, cand'[c].status = "pushed", cand[c].status # "pushed"
               PROVE  \A t \in Targets : worker[cand[c].holder].sent[t] # "unlisted"
                                            => journal[c][t] = "completed"
    OBVIOUS
  <2>1. cand \in [Ids -> Candidates] /\ cand[c] \in Candidates
    BY <1>1 DEF IInv, TypeOK
  <2>2. ASSUME NEW w \in Workers, NEW s \in Statuses, Pushing(w), Settle(w, s)
        PROVE  s = "pushed" /\ c = worker[w].item /\ cand[c].holder = w
    <3>1. HoldsClaim(w)
      BY <2>2 DEF Settle
    <3>2. worker[w].item \in Ids /\ cand[worker[w].item].holder = w /\ cand[worker[w].item].attempts >= 1
      BY <1>1, <3>1, IntelligenceAssumption DEF HoldsClaim, IInv, TypeOK, Calls, CandInv
    <3>3. /\ \A b \in Ids \ {worker[w].item} : cand'[b] = cand[b]
          /\ cand'[worker[w].item] = SettledRow(cand[worker[w].item], s)
      BY <2>1, <2>2, <3>1, <3>2 DEF Settle
    <3>4. c = worker[w].item
      BY <3>3
    <3>5. SettledRow(cand[c], s).status = s
      BY <2>1, <3>2, <3>4, RowTypes
    <3>6. QED
      BY <3>2, <3>3, <3>4, <3>5
  <2>3. ASSUME NEW w \in Workers, Complete(w)
        PROVE  \A t \in Targets : worker[cand[c].holder].sent[t] # "unlisted"
                                     => journal[c][t] = "completed"
    <3>1. c = worker[w].item /\ cand[c].holder = w
      BY <2>2, <2>3 DEF Complete, Ended, Pushing, Statuses
    <3>2. QED
      BY <1>1, <2>3, <3>1 DEF Complete, Succeeded, IInv, SendInv, CallInv, Row
  <2>4. ASSUME NEW w \in Workers, Block(w) \/ Retry(w) \/ Fail(w)
        PROVE  FALSE
    <3>1. Pushing(w) /\ \E s \in Statuses \ {"pushed"} : Settle(w, s)
      BY <2>4 DEF Block, Retry, Fail, Ended, Pushing, Statuses
    <3>2. QED
      BY <2>2, <3>1
  <2>5. ASSUME NEW w \in Workers, Claim(w) \/ ClaimNothing(w)
        PROVE  FALSE
    <3>1. worker[w].domain \in Domains
      BY <1>1 DEF IInv, TypeOK, Calls
    <3>2. Swept(worker[w].domain)[c].status # "pushed"
      BY <1>1, <2>1, <3>1, SweepRows, RowTypes
    <3>3. CASE ClaimNothing(w)
      BY <3>2, <3>3 DEF ClaimNothing
    <3>4. CASE Claim(w)
      <4>1. PICK b \in Claimable(worker[w].domain) :
                cand' = [Swept(worker[w].domain) EXCEPT ![b] = ClaimedRow(@, w)]
        BY <3>4 DEF Claim
      <4>2. /\ b \in Ids /\ cand[b] \in Candidates /\ cand[b].attempts < Delays
            /\ Swept(worker[w].domain)[b] = cand[b]
        BY <1>1 DEF Claimable, IInv, TypeOK, CandInv, Live, Swept, Abandoned
      <4>3. ClaimedRow(cand[b], w).status = "pushing"
        BY <4>2, RowTypes
      <4>4. cand'[c] = Swept(worker[w].domain)[c] \/ cand'[c] = ClaimedRow(cand[b], w)
        BY <4>1, <4>2 DEF Swept
      <4>5. QED
        BY <3>2, <4>3, <4>4
    <3>5. QED
      BY <2>5, <3>3, <3>4
  <2>6. ASSUME NEW w \in Workers, NEW d \in Domains, StartPush(w, d)
        PROVE  FALSE
    BY <2>1, <2>6 DEF StartPush, Candidates
  <2>7. ASSUME NEW w \in Workers, Crash(w)
        PROVE  FALSE
    BY <2>1, <2>7 DEF Crash, Forgotten, Candidates
  <2>8. ASSUME NEW b \in Ids, Lapse(b) \/ FallDue(b) \/ Age(b)
        PROVE  FALSE
    BY <2>1, <2>8 DEF Lapse, FallDue, Age, Candidates
  <2>9. ASSUME NEW d \in Domains, NEW e \in Events, NEW s \in Sources,
               NEW worthy \in BOOLEAN, NEW update \in BOOLEAN, Ingest(d, e, s, worthy, update)
        PROVE  FALSE
    <3>1. PICK b \in Ids, l \in {"queued", "held"} :
              cand' = [cand EXCEPT ![b] = [Absent EXCEPT !.status = l, !.domain = d,
                                                         !.event = e, !.source = s]]
      BY <2>9 DEF Ingest
    <3>2. [Absent EXCEPT !.status = l, !.domain = d, !.event = e, !.source = s].status = l
      BY Defaults DEF Candidates
    <3>3. QED
      BY <2>1, <3>1, <3>2
  <2>10. ~UNCHANGED cand
    OBVIOUS
  <2>11. QED
    BY SMTT(20), ZenonT(30), <1>1, <2>3, <2>4, <2>5, <2>6, <2>7, <2>8, <2>9, <2>10
    DEF Next, Push, Deliver, Settled, NotSent, Send, Accept, Refuse, Silence, ListChats, Time,
        Cool, Edit, vars
<1>2. []IInv /\ [][Next]_vars => [][Receipts]_vars
  BY <1>1, PTL
<1>3. QED
  BY <1>2, IInvHolds, PTL DEF Spec, PushedWithReceipts

(***************************************************************************)
(* FEEDBACK.  Why an update is replied to once: its key is free only while *)
(* no request has it in its hands and nothing was shown for it.  Why       *)
(* credit goes through: the request that found a row new keeps it until    *)
(* the credit is written, whatever becomes of its lease and its reply.     *)
(***************************************************************************)

\* What a request carries from one step to the next.
RequestsInv ==
    \A h \in Handlers :
        /\ handler[h].pc = "idle" => handler[h].update = NoUpdate
        /\ handler[h].pc = "recording" =>
               /\ handler[h].row \in [from: {"web", "telegram"}, about: Opinions \cup {"gone"}]
               /\ handler[h].row.about = "gone" => handler[h].update \in Updates
        /\ handler[h].pc \in {"crediting", "noting"} => handler[h].row \in feedback
        /\ handler[h].pc \in {"replying", "shown", "unshown", "refused"} => handler[h].update \in Updates

\* One request at most has an update in its hands, and none while the key is
\* free; who has shown the reply has nothing left but to settle the key.
RepliesInv ==
    \A u \in Updates :
        /\ replied[u] \in {0, 1}
        /\ Unsettled(u) => replied[u] = 0 /\ \A h \in Handlers : handler[h].update # u
        /\ \A h \in Handlers : handler[h].update = u /\ replied[u] = 1 => handler[h].pc = "shown"
        /\ \A g, h \in Handlers : handler[g].update = u /\ handler[h].update = u => g = h

FeedbackInv == FeedbackTypeOK /\ RequestsInv /\ RepliesInv /\ CreditGoesThrough

FeedbackRequests ==
    [pc: {"idle", "recording", "crediting", "noting", "replying", "shown", "unshown", "refused"},
     update: Updates \cup {NoUpdate},
     row: Rows \cup {NoRow} \cup [from: {"telegram"}, about: OtherAsks],
     fresh: BOOLEAN, lease: Nat]

-----------------------------------------------------------------------------
(* The start, and steps of one request that leave keys and replies alone.  *)

LEMMA FreeRequest ==
    /\ Free \in FeedbackRequests /\ Free.pc = "idle" /\ Free.update = NoUpdate
  BY DEF Free, FeedbackRequests

LEMMA FeedbackInvInit == FeedbackInit => FeedbackInv
<1> SUFFICES ASSUME FeedbackInit
             PROVE  FeedbackInv
  OBVIOUS
<1>1. ChannelsTypeOK
  BY FeedbackAssumption DEF FeedbackInit, ChannelsInit, ChannelsTypeOK, Ready, Breakers
<1>2. handler \in [Handlers -> FeedbackRequests] /\ RequestsInv
  BY FreeRequest DEF FeedbackInit, RequestsInv
<1>3. FeedbackTypeOK
  BY <1>1, <1>2 DEF FeedbackInit, FeedbackTypeOK, FeedbackRequests, NoEntry
<1>4. RepliesInv
  BY FreeRequest, FeedbackAssumption DEF FeedbackInit, RepliesInv, Unsettled, NoEntry
<1>5. CreditGoesThrough
  BY DEF FeedbackInit, CreditGoesThrough
<1>6. QED
  BY <1>2, <1>3, <1>4, <1>5 DEF FeedbackInv

\* A request goes on with its update or puts it away; one that has shown the
\* reply puts it away.
LEMMA RequestGoesOn ==
    ASSUME FeedbackInv, NEW h \in Handlers, NEW q \in FeedbackRequests,
           handler' = [handler EXCEPT ![h] = q],
           q.update = NoUpdate \/ (q.update = handler[h].update /\ handler[h].pc # "shown"),
           q.pc = "idle" => q.update = NoUpdate,
           q.pc = "recording" =>
               /\ q.row \in [from: {"web", "telegram"}, about: Opinions \cup {"gone"}]
               /\ q.row.about = "gone" => q.update \in Updates,
           q.pc \in {"replying", "shown", "unshown", "refused"} => q.update \in Updates,
           q.pc \in {"crediting", "noting"} => q.row \in feedback',
           feedback \subseteq feedback', UNCHANGED <<entry, replied>>
    PROVE  handler' \in [Handlers -> FeedbackRequests] /\ RequestsInv' /\ RepliesInv'
<1>1. /\ handler \in [Handlers -> FeedbackRequests] /\ handler' \in [Handlers -> FeedbackRequests]
      /\ handler'[h] = q /\ \A g \in Handlers \ {h} : handler'[g] = handler[g]
  BY DEF FeedbackInv, FeedbackTypeOK, FeedbackRequests
<1>2. RequestsInv'
  BY <1>1 DEF FeedbackInv, RequestsInv
<1>3. RepliesInv'
  <2> SUFFICES ASSUME NEW u \in Updates
               PROVE  /\ replied'[u] \in {0, 1}
                      /\ Unsettled(u)' => replied'[u] = 0 /\ \A g \in Handlers : handler'[g].update # u
                      /\ \A g \in Handlers : handler'[g].update = u /\ replied'[u] = 1
                                                 => handler'[g].pc = "shown"
                      /\ \A f, g \in Handlers : handler'[f].update = u /\ handler'[g].update = u => f = g
    BY DEF RepliesInv
  <2>1. u # NoUpdate
    BY FeedbackAssumption
  <2>2. \A g \in Handlers : handler'[g].update = u =>
            handler[g].update = u /\ (g = h => handler[h].pc # "shown")
                                  /\ (g # h => handler'[g] = handler[g])
    BY <1>1, <2>1
  <2>3. QED
    BY <2>2 DEF FeedbackInv, RepliesInv, Unsettled
<1>4. QED
  BY <1>1, <1>2, <1>3

\* What a request is: the types of its fields.
LEMMA RequestTypes ==
    ASSUME FeedbackInv, NEW h \in Handlers
    PROVE  /\ handler[h] \in FeedbackRequests
           /\ handler[h].update \in Updates \cup {NoUpdate}
           /\ handler[h].row \in Rows \cup {NoRow} \cup [from: {"telegram"}, about: OtherAsks]
           /\ handler[h].fresh \in BOOLEAN /\ handler[h].lease \in Nat
  BY DEF FeedbackInv, FeedbackTypeOK, FeedbackRequests

-----------------------------------------------------------------------------
(* The webhook.                                                            *)

LEMMA DismissKeeps ==
    ASSUME FeedbackInv, NEW u \in Updates, DismissUpdate(u)
    PROVE  FeedbackInv'
<1>1. /\ entry' \in [Updates -> [status: {"absent", "executing", "completed", "failed", "uncertain"},
                                 owner: Nat, lapsed: BOOLEAN]]
      /\ \A v \in Updates : Unsettled(v)' => Unsettled(v)
  BY DEF FeedbackInv, FeedbackTypeOK, DismissUpdate, Unsettled
<1>2. FeedbackTypeOK'
  BY <1>1 DEF FeedbackInv, FeedbackTypeOK, DismissUpdate, AnswerUpdate, ChannelsTypeOK
<1>3. RequestsInv' /\ CreditGoesThrough'
  BY DEF FeedbackInv, RequestsInv, CreditGoesThrough, DismissUpdate
<1>4. RepliesInv'
  BY <1>1 DEF FeedbackInv, RepliesInv, DismissUpdate
<1>5. QED
  BY <1>2, <1>3, <1>4 DEF FeedbackInv

LEMMA LapseKeepsFeedback ==
    ASSUME FeedbackInv, NEW u \in Updates, LeaseLapses(u)
    PROVE  FeedbackInv'
<1>1. /\ entry' \in [Updates -> [status: {"absent", "executing", "completed", "failed", "uncertain"},
                                 owner: Nat, lapsed: BOOLEAN]]
      /\ \A v \in Updates : Unsettled(v)' => Unsettled(v)
  BY DEF FeedbackInv, FeedbackTypeOK, LeaseLapses, Unsettled
<1>2. FeedbackTypeOK'
  BY <1>1 DEF FeedbackInv, FeedbackTypeOK, LeaseLapses, ChannelsTypeOK
<1>3. RequestsInv' /\ CreditGoesThrough'
  BY DEF FeedbackInv, RequestsInv, CreditGoesThrough, LeaseLapses
<1>4. RepliesInv'
  BY <1>1 DEF FeedbackInv, RepliesInv, LeaseLapses
<1>5. QED
  BY <1>2, <1>3, <1>4 DEF FeedbackInv

\* A step that starts or ends no crediting request, adds no row and takes no
\* credit away.
LEMMA CreditStays ==
    ASSUME FeedbackInv, NEW h \in Handlers, handler[h].pc # "crediting",
           \A g \in Handlers \ {h} : handler'[g] = handler[g],
           feedback' = feedback, credited' = credited, readerStops' = readerStops
    PROVE  CreditGoesThrough'
  BY DEF FeedbackInv, CreditGoesThrough

LEMMA ReserveKeeps ==
    ASSUME FeedbackInv, NEW h \in Handlers, NEW u \in Updates, ReserveUpdate(h, u)
    PROVE  FeedbackInv'
<1> DEFINE q == [pc |-> IF asked[u] \in {"command", "stale button"} THEN "replying" ELSE "recording",
                 update |-> u, row |-> [from |-> "telegram", about |-> asked[u]],
                 fresh |-> FALSE, lease |-> entry[u].owner + 1]
           e == [status |-> "executing", owner |-> entry[u].owner + 1, lapsed |-> FALSE]
<1>1. entry[u].owner + 1 \in Nat /\ asked[u] \in Opinions \cup OtherAsks
  BY DEF FeedbackInv, FeedbackTypeOK
<1>2. handler[h].pc = "idle" /\ asked[u] # "chatter" /\ Unsettled(u)
  BY DEF ReserveUpdate, Unoccupied
<1>3. /\ q \in FeedbackRequests /\ q.update = u /\ q.pc \in {"replying", "recording"}
      /\ q.pc = "recording" => q.row \in [from: {"web", "telegram"}, about: Opinions \cup {"gone"}]
  <2>1. [from |-> "telegram", about |-> asked[u]] \in
            Rows \cup {NoRow} \cup [from: {"telegram"}, about: OtherAsks]
    BY <1>1 DEF Rows
  <2>2. QED
    BY <1>1, <1>2, <2>1 DEF FeedbackRequests, OtherAsks
<1>4. /\ handler' \in [Handlers -> FeedbackRequests] /\ handler'[h] = q
      /\ \A g \in Handlers \ {h} : handler'[g] = handler[g]
  <2>1. handler \in [Handlers -> FeedbackRequests] /\ handler' = [handler EXCEPT ![h] = q]
    BY DEF FeedbackInv, FeedbackTypeOK, FeedbackRequests, ReserveUpdate
  <2>2. QED
    BY <1>3, <2>1
<1>5. /\ entry' \in [Updates -> [status: {"absent", "executing", "completed", "failed", "uncertain"},
                                 owner: Nat, lapsed: BOOLEAN]]
      /\ entry'[u].status = "executing" /\ \A v \in Updates \ {u} : entry'[v] = entry[v]
  BY <1>1 DEF FeedbackInv, FeedbackTypeOK, ReserveUpdate
<1> HIDE DEF q, e
<1>6. FeedbackTypeOK'
  BY <1>4, <1>5 DEF FeedbackInv, FeedbackTypeOK, FeedbackRequests, ReserveUpdate, ChannelsTypeOK
<1>7. RequestsInv'
  BY <1>3, <1>4 DEF FeedbackInv, RequestsInv, ReserveUpdate
<1>8. CreditGoesThrough'
  BY <1>2, <1>4, CreditStays DEF ReserveUpdate
<1>9. RepliesInv'
  <2> SUFFICES ASSUME NEW v \in Updates
               PROVE  /\ replied'[v] \in {0, 1}
                      /\ Unsettled(v)' => replied'[v] = 0 /\ \A g \in Handlers : handler'[g].update # v
                      /\ \A g \in Handlers : handler'[g].update = v /\ replied'[v] = 1
                                                 => handler'[g].pc = "shown"
                      /\ \A f, g \in Handlers : handler'[f].update = v /\ handler'[g].update = v => f = g
    BY DEF RepliesInv
  <2>1. replied' = replied
    BY DEF ReserveUpdate
  <2>2. CASE v = u
    <3>1. replied[u] = 0 /\ \A g \in Handlers : handler[g].update # u
      BY <1>2 DEF FeedbackInv, RepliesInv
    <3>2. ~Unsettled(u)'
      BY <1>5 DEF Unsettled
    <3>3. QED
      BY <1>3, <1>4, <2>1, <2>2, <3>1, <3>2
  <2>3. CASE v # u
    <3>1. Unsettled(v)' => Unsettled(v)
      BY <1>5, <2>3 DEF Unsettled
    <3>2. \A g \in Handlers : handler'[g].update = v => handler'[g] = handler[g]
      BY <1>3, <1>4, <2>3
    <3>3. QED
      BY <2>1, <3>1, <3>2 DEF FeedbackInv, RepliesInv
  <2>4. QED
    BY <2>2, <2>3
<1>10. QED
  BY <1>6, <1>7, <1>8, <1>9 DEF FeedbackInv

-----------------------------------------------------------------------------
(* Feedback and its credit.                                                *)

LEMMA LinkKeeps ==
    ASSUME FeedbackInv, NEW l \in Links, SendLink(l)
    PROVE  FeedbackInv'
<1>1. FeedbackTypeOK'
  BY DEF FeedbackInv, FeedbackTypeOK, SendLink, ChannelsTypeOK
<1>2. RequestsInv' /\ CreditGoesThrough'
  BY DEF FeedbackInv, RequestsInv, CreditGoesThrough, SendLink
<1>3. RepliesInv'
  BY DEF FeedbackInv, RepliesInv, Unsettled, SendLink
<1>4. QED
  BY <1>1, <1>2, <1>3 DEF FeedbackInv

LEMMA GiveKeeps ==
    ASSUME FeedbackInv, NEW h \in Handlers, NEW o \in Opinions, GiveFeedback(h, o)
    PROVE  FeedbackInv'
<1> DEFINE q == [Free EXCEPT !.pc = "recording", !.row = [from |-> "web", about |-> o]]
<1>1. /\ q \in FeedbackRequests /\ q.update = NoUpdate /\ q.pc = "recording"
      /\ q.row \in [from: {"web", "telegram"}, about: Opinions \cup {"gone"}] /\ q.row.about # "gone"
  BY FeedbackAssumption DEF Free, FeedbackRequests, Rows, OtherAsks
<1>2. handler' = [handler EXCEPT ![h] = q] /\ handler[h].pc = "idle"
  BY DEF GiveFeedback, Unoccupied
<1> HIDE DEF q
<1>3. UNCHANGED <<asked, answered, entry, link, feedback, credited, timeline, replied, readerStops,
                  breaker, enabled>>
  BY DEF GiveFeedback
<1>4. handler' \in [Handlers -> FeedbackRequests] /\ RequestsInv' /\ RepliesInv'
  BY <1>1, <1>2, <1>3, RequestGoesOn
<1>5. FeedbackTypeOK'
  BY <1>3, <1>4 DEF FeedbackInv, FeedbackTypeOK, FeedbackRequests, ChannelsTypeOK
<1>6. CreditGoesThrough'
  BY <1>2, <1>3, CreditStays DEF FeedbackInv, FeedbackTypeOK
<1>7. QED
  BY <1>4, <1>5, <1>6 DEF FeedbackInv

\* The request that finds its row new has the credit in its hands.
LEMMA RecordedKeeps ==
    ASSUME FeedbackInv, NEW h \in Handlers, NEW row \in Rows, Recorded(h, row),
           handler[h].pc \in {"idle", "recording"}, link' \in [Links -> {"absent", "sent", "opened"}],
           UNCHANGED <<asked, answered, entry, credited, timeline, replied, readerStops, breaker, enabled>>
    PROVE  FeedbackInv'
<1> DEFINE q == [handler[h] EXCEPT !.pc = "crediting", !.row = row, !.fresh = row \notin feedback]
<1>1. /\ q \in FeedbackRequests /\ q.update = handler[h].update /\ q.pc = "crediting" /\ q.row = row
      /\ q.fresh = (row \notin feedback)
  BY RequestTypes DEF FeedbackRequests
<1>2. handler' = [handler EXCEPT ![h] = q] /\ feedback' = feedback \cup {row}
  BY DEF Recorded
<1> HIDE DEF q
<1>3. handler' \in [Handlers -> FeedbackRequests] /\ RequestsInv' /\ RepliesInv'
  BY <1>1, <1>2, RequestGoesOn
<1>4. FeedbackTypeOK'
  BY <1>2, <1>3 DEF FeedbackInv, FeedbackTypeOK, FeedbackRequests, ChannelsTypeOK
<1>5. CreditGoesThrough'
  <2>1. handler'[h] = q /\ \A g \in Handlers \ {h} : handler'[g] = handler[g]
    BY <1>2 DEF FeedbackInv, FeedbackTypeOK
  <2> SUFFICES ASSUME readerStops = 0, NEW r \in feedback'
               PROVE  \/ r.about \in credited
                      \/ \E g \in Handlers : handler'[g].pc = "crediting" /\ handler'[g].fresh /\ handler'[g].row = r
    BY DEF CreditGoesThrough
  <2>2. CASE r \in feedback
    BY <2>1, <2>2 DEF FeedbackInv, CreditGoesThrough
  <2>3. CASE r \notin feedback
    BY <1>1, <1>2, <2>1, <2>3
  <2>4. QED
    BY <2>2, <2>3
<1>6. QED
  BY <1>3, <1>4, <1>5 DEF FeedbackInv

LEMMA OpenKeeps ==
    ASSUME FeedbackInv, NEW h \in Handlers, NEW l \in Links, OpenLink(h, l)
    PROVE  FeedbackInv'
<1>1. [from |-> "bark_click", about |-> LinkOf[l]] \in Rows
  BY FeedbackAssumption DEF Rows
<1>2. link' \in [Links -> {"absent", "sent", "opened"}]
  BY DEF FeedbackInv, FeedbackTypeOK, OpenLink
<1>3. QED
  BY <1>1, <1>2, RecordedKeeps DEF OpenLink, Unoccupied

LEMMA RecordKeeps ==
    ASSUME FeedbackInv, NEW h \in Handlers, RecordFeedback(h)
    PROVE  FeedbackInv'
<1>1. handler[h].pc = "recording" /\ link' \in [Links -> {"absent", "sent", "opened"}]
  BY DEF RecordFeedback, FeedbackInv, FeedbackTypeOK
<1>2. handler[h].row \in [from: {"web", "telegram"}, about: Opinions \cup {"gone"}]
  BY <1>1 DEF FeedbackInv, RequestsInv
<1>3. CASE handler[h].row.about = "gone"
  <2> DEFINE q == [handler[h] EXCEPT !.pc = "refused"]
  <2>1. q \in FeedbackRequests /\ q.update = handler[h].update /\ q.pc = "refused"
    BY RequestTypes DEF FeedbackRequests
  <2>2. handler' = [handler EXCEPT ![h] = q]
    BY <1>3 DEF RecordFeedback
  <2> HIDE DEF q
  <2>3. handler[h].update \in Updates
    BY <1>1, <1>3 DEF FeedbackInv, RequestsInv
  <2>4. UNCHANGED <<asked, answered, entry, link, feedback, credited, timeline, replied, readerStops,
                    breaker, enabled>>
    BY <1>3 DEF RecordFeedback
  <2>5. handler' \in [Handlers -> FeedbackRequests] /\ RequestsInv' /\ RepliesInv'
    BY <1>1, <2>1, <2>2, <2>4, <2>3, RequestGoesOn
  <2>6. FeedbackTypeOK'
    BY <2>4, <2>5 DEF FeedbackInv, FeedbackTypeOK, FeedbackRequests, ChannelsTypeOK
  <2>7. CreditGoesThrough'
    BY <1>1, <2>2, <2>4, CreditStays DEF FeedbackInv, FeedbackTypeOK
  <2>8. QED
    BY <2>5, <2>6, <2>7 DEF FeedbackInv
<1>4. CASE handler[h].row.about # "gone"
  <2>1. handler[h].row \in Rows
    BY <1>2, <1>4 DEF Rows
  <2>2. Recorded(h, handler[h].row)
    BY <1>4 DEF RecordFeedback
  <2>3. QED
    BY <1>1, <2>1, <2>2, RecordedKeeps DEF RecordFeedback
<1>5. QED
  BY <1>3, <1>4

LEMMA CreditKeeps ==
    ASSUME FeedbackInv, NEW h \in Handlers, CreditMember(h)
    PROVE  FeedbackInv'
<1> DEFINE q == [handler[h] EXCEPT !.pc = "noting"]
<1>1. q \in FeedbackRequests /\ q.update = handler[h].update /\ q.pc = "noting" /\ q.row = handler[h].row
  BY RequestTypes DEF FeedbackRequests
<1>2. handler' = [handler EXCEPT ![h] = q] /\ handler[h].pc = "crediting" /\ handler[h].row \in feedback
  BY DEF CreditMember, FeedbackInv, RequestsInv
<1> HIDE DEF q
<1>3. /\ UNCHANGED <<asked, answered, entry, link, feedback, timeline, replied, readerStops, breaker, enabled>>
      /\ credited' = IF handler[h].fresh THEN credited \cup {handler[h].row.about} ELSE credited
  BY DEF CreditMember
<1>4. handler' \in [Handlers -> FeedbackRequests] /\ RequestsInv' /\ RepliesInv'
  BY <1>1, <1>2, <1>3, RequestGoesOn
<1>5. \A r \in feedback : r.about \in Opinions \cup LinkedCandidates
  BY DEF FeedbackInv, FeedbackTypeOK, Rows
<1>6. FeedbackTypeOK'
  BY <1>2, <1>3, <1>4, <1>5 DEF FeedbackInv, FeedbackTypeOK, FeedbackRequests, ChannelsTypeOK
<1>7. CreditGoesThrough'
  <2>1. \A g \in Handlers \ {h} : handler'[g] = handler[g]
    BY <1>2 DEF FeedbackInv, FeedbackTypeOK
  <2>2. QED
    BY <1>3, <2>1 DEF FeedbackInv, CreditGoesThrough
<1>8. QED
  BY <1>4, <1>6, <1>7 DEF FeedbackInv

LEMMA NoteKeeps ==
    ASSUME FeedbackInv, NEW h \in Handlers, NoteFeedback(h)
    PROVE  FeedbackInv'
<1> DEFINE q == IF handler[h].update = NoUpdate THEN Free ELSE [handler[h] EXCEPT !.pc = "replying"]
<1>1. handler' = [handler EXCEPT ![h] = q] /\ handler[h].pc = "noting" /\ handler[h].row \in feedback
  BY DEF NoteFeedback, FeedbackInv, RequestsInv
<1>2. /\ q \in FeedbackRequests /\ q.update = handler[h].update
      /\ (q.pc = "replying" /\ q.update \in Updates) \/ (q.pc = "idle" /\ q.update = NoUpdate)
  BY RequestTypes, FreeRequest DEF FeedbackRequests
<1> HIDE DEF q
<1>3. /\ UNCHANGED <<asked, answered, entry, link, feedback, credited, replied, readerStops, breaker, enabled>>
      /\ timeline' \subseteq timeline \cup {handler[h].row}
  BY DEF NoteFeedback
<1>4. handler' \in [Handlers -> FeedbackRequests] /\ RequestsInv' /\ RepliesInv'
  BY <1>1, <1>2, <1>3, RequestGoesOn
<1>5. FeedbackTypeOK'
  BY <1>1, <1>3, <1>4 DEF FeedbackInv, FeedbackTypeOK, FeedbackRequests, ChannelsTypeOK
<1>6. CreditGoesThrough'
  BY <1>1, <1>3, CreditStays DEF FeedbackInv, FeedbackTypeOK
<1>7. QED
  BY <1>4, <1>5, <1>6 DEF FeedbackInv

-----------------------------------------------------------------------------
(* The reply.                                                              *)

LEMMA ReplyKeeps ==
    ASSUME FeedbackInv, NEW h \in Handlers, SendReply(h)
    PROVE  FeedbackInv'
<1>1. PICK s \in {"refused", "shown", "unshown"} :
          /\ handler' = [handler EXCEPT ![h].pc = s]
          /\ replied' = [replied EXCEPT ![handler[h].update] = IF s = "shown" THEN @ + 1 ELSE @]
  <2>1. CASE IsCommand(h) /\ breaker[Telegram].holds
    <3>1. handler' = [handler EXCEPT ![h].pc = "refused"] /\ replied' = replied
      BY <2>1 DEF SendReply
    <3>2. replied = [replied EXCEPT ![handler[h].update] = @]
      BY DEF FeedbackInv, FeedbackTypeOK
    <3>3. QED
      BY <3>1, <3>2
  <2>2. CASE ~(IsCommand(h) /\ breaker[Telegram].holds)
    <3>1. PICK reached \in BOOLEAN :
              /\ replied' = [replied EXCEPT ![handler[h].update] = IF reached THEN @ + 1 ELSE @]
              /\ handler' = [handler EXCEPT ![h].pc = IF reached THEN "shown" ELSE "unshown"]
      BY <2>2 DEF SendReply
    <3>2. CASE reached
      BY <3>1, <3>2
    <3>3. CASE ~reached
      BY <3>1, <3>3
    <3>4. QED
      BY <3>2, <3>3
  <2>3. QED
    BY <2>1, <2>2
<1>2. /\ handler[h].pc = "replying"
      /\ UNCHANGED <<asked, answered, entry, link, feedback, credited, timeline, readerStops, breaker, enabled>>
  BY DEF SendReply
<1>3. /\ handler' \in [Handlers -> FeedbackRequests] /\ handler'[h].pc = s
      /\ handler'[h].update = handler[h].update
      /\ \A g \in Handlers \ {h} : handler'[g] = handler[g]
  <2>1. [handler[h] EXCEPT !.pc = s] \in FeedbackRequests
    BY RequestTypes DEF FeedbackRequests
  <2>2. handler \in [Handlers -> FeedbackRequests] /\ handler' = [handler EXCEPT ![h] = [handler[h] EXCEPT !.pc = s]]
    BY <1>1 DEF FeedbackInv, FeedbackTypeOK, FeedbackRequests
  <2>3. QED
    BY <2>1, <2>2 DEF FeedbackRequests
<1>4. /\ replied' \in [Updates -> Nat]
      /\ \A u \in Updates : replied'[u] = IF u = handler[h].update /\ s = "shown" THEN replied[u] + 1 ELSE replied[u]
  <2>1. replied \in [Updates -> Nat] /\ handler[h].update \in Updates
    BY <1>2 DEF FeedbackInv, FeedbackTypeOK, RequestsInv
  <2>2. CASE s = "shown"
    <3>1. replied' = [replied EXCEPT ![handler[h].update] = @ + 1]
      BY <1>1, <2>1, <2>2
    <3>2. QED
      BY <2>1, <2>2, <3>1
  <2>3. CASE s # "shown"
    <3>1. replied' = [replied EXCEPT ![handler[h].update] = @]
      BY <1>1, <2>1, <2>3
    <3>2. QED
      BY <2>1, <2>3, <3>1
  <2>4. QED
    BY <2>2, <2>3
<1>5. FeedbackTypeOK'
  BY <1>2, <1>3, <1>4 DEF FeedbackInv, FeedbackTypeOK, FeedbackRequests, ChannelsTypeOK
<1>6. RequestsInv'
  BY <1>2, <1>3 DEF FeedbackInv, RequestsInv
<1>7. CreditGoesThrough'
  BY <1>2, <1>3, CreditStays
<1>8. RepliesInv'
  BY <1>2, <1>3, <1>4 DEF FeedbackInv, RepliesInv, Unsettled
<1>9. QED
  BY <1>5, <1>6, <1>7, <1>8 DEF FeedbackInv

\* What the breaker makes of a reply is a breaker.
LEMMA HeardIsBreaker ==
    ASSUME FeedbackInv, NEW h \in Handlers, NEW result, ReplyHeard(h, result)
    PROVE  breaker' \in [ChannelNames -> Breakers]
<1>1. \A b \in Breakers, asks \in BOOLEAN : AfterFailure(b, asks) \in Breakers
  BY FeedbackAssumption DEF AfterFailure, Breakers
<1>2. Ready \in Breakers /\ breaker \in [ChannelNames -> Breakers] /\ Telegram \in ChannelNames
  BY FeedbackAssumption DEF Ready, Breakers, FeedbackInv, FeedbackTypeOK, ChannelsTypeOK, ChannelNames
<1>3. CASE breaker' = breaker
  BY <1>2, <1>3
<1>4. CASE breaker' = [breaker EXCEPT ![Telegram] = Ready]
  BY <1>2, <1>4
<1>5. CASE \E asks \in BOOLEAN : breaker' = [breaker EXCEPT ![Telegram] = AfterFailure(@, asks)]
  BY <1>1, <1>2, <1>5
<1>6. QED
  BY <1>3, <1>4, <1>5 DEF ReplyHeard

\* The key becomes free only when the request that has it knows that nothing
\* was shown.
LEMMA SettleKeepsFeedback ==
    ASSUME FeedbackInv, NEW h \in Handlers, SettleUpdate(h)
    PROVE  FeedbackInv'
<1> DEFINE u == handler[h].update
           mine == entry[u].status = "executing" /\ entry[u].owner = handler[h].lease
<1>1. PICK result \in Verdict(h) :
          /\ entry' = IF mine THEN [entry EXCEPT ![u].status = result] ELSE entry
          /\ IF result = "completed" \/ (result = "uncertain" /\ mine) THEN AnswerUpdate(u)
             ELSE UNCHANGED answered
          /\ ReplyHeard(h, result)
          /\ handler' = [handler EXCEPT ![h] = Free]
          /\ UNCHANGED <<asked, link, feedback, credited, timeline, replied, readerStops, enabled>>
  BY DEF SettleUpdate
<1>2. /\ handler[h].pc \in {"shown", "unshown", "refused"} /\ result \in {"completed", "uncertain", "failed"}
      /\ handler[h].pc = "shown" => result # "failed"
  BY <1>1 DEF Verdict
<1>3. u \in Updates
  BY <1>2 DEF FeedbackInv, RequestsInv
<1>4. /\ handler' \in [Handlers -> FeedbackRequests] /\ handler'[h] = Free
      /\ \A g \in Handlers \ {h} : handler'[g] = handler[g]
  BY <1>1, FreeRequest DEF FeedbackInv, FeedbackTypeOK, FeedbackRequests
<1>5. /\ entry' \in [Updates -> [status: {"absent", "executing", "completed", "failed", "uncertain"},
                                 owner: Nat, lapsed: BOOLEAN]]
      /\ \A v \in Updates : entry'[v] = entry[v] \/ (v = u /\ entry'[v].status = result)
  <2>1. CASE mine
    <3>1. entry' = [entry EXCEPT ![u].status = result]
      BY <1>1, <2>1
    <3>2. QED
      BY <1>2, <1>3, <3>1 DEF FeedbackInv, FeedbackTypeOK
  <2>2. CASE ~mine
    <3>1. entry' = entry
      BY <1>1, <2>2
    <3>2. QED
      BY <3>1 DEF FeedbackInv, FeedbackTypeOK
  <2>3. QED
    BY <2>1, <2>2
<1>6. answered' \subseteq Updates
  <2>1. answered' = answered \/ answered' = answered \cup {u}
    BY <1>1 DEF AnswerUpdate
  <2>2. QED
    BY <1>3, <2>1 DEF FeedbackInv, FeedbackTypeOK
<1>7. breaker' \in [ChannelNames -> Breakers]
  BY <1>1, HeardIsBreaker
<1>8. FeedbackTypeOK'
  BY <1>1, <1>4, <1>5, <1>6, <1>7 DEF FeedbackInv, FeedbackTypeOK, FeedbackRequests, ChannelsTypeOK
<1>9. RequestsInv'
  BY <1>1, <1>4, FreeRequest DEF FeedbackInv, RequestsInv
<1>10. CreditGoesThrough'
  BY <1>1, <1>2, <1>4, CreditStays
<1>11. RepliesInv'
  <2> SUFFICES ASSUME NEW v \in Updates
               PROVE  /\ replied'[v] \in {0, 1}
                      /\ Unsettled(v)' => replied'[v] = 0 /\ \A g \in Handlers : handler'[g].update # v
                      /\ \A g \in Handlers : handler'[g].update = v /\ replied'[v] = 1
                                                 => handler'[g].pc = "shown"
                      /\ \A f, g \in Handlers : handler'[f].update = v /\ handler'[g].update = v => f = g
    BY DEF RepliesInv
  <2>1. \A g \in Handlers : handler'[g].update = v => g # h /\ handler'[g] = handler[g]
    BY <1>4, FreeRequest, FeedbackAssumption
  <2>2. replied' = replied
    BY <1>1
  <2>3. CASE entry'[v] = entry[v]
    BY <2>1, <2>2, <2>3 DEF FeedbackInv, RepliesInv, Unsettled
  <2>4. CASE v = u /\ entry'[v].status = result
    BY <1>2, <2>1, <2>2, <2>4 DEF FeedbackInv, RepliesInv, Unsettled
  <2>5. QED
    BY <1>5, <2>3, <2>4
<1>12. QED
  BY <1>8, <1>9, <1>10, <1>11 DEF FeedbackInv

LEMMA StopKeepsFeedback == FeedbackInv /\ ReaderStop => FeedbackInv'
<1> SUFFICES ASSUME FeedbackInv, ReaderStop
             PROVE  FeedbackInv'
  OBVIOUS
<1>1. /\ handler' = [h \in Handlers |-> Free] /\ readerStops' = readerStops + 1
      /\ UNCHANGED <<asked, answered, entry, link, feedback, credited, timeline, replied, breaker, enabled>>
  BY DEF ReaderStop
<1>2. handler' \in [Handlers -> FeedbackRequests] /\ RequestsInv'
  BY <1>1, FreeRequest DEF RequestsInv
<1>3. FeedbackTypeOK' /\ readerStops' # 0
  BY <1>1, <1>2 DEF FeedbackInv, FeedbackTypeOK, FeedbackRequests, ChannelsTypeOK
<1>4. RepliesInv'
  BY <1>1, FreeRequest, FeedbackAssumption DEF FeedbackInv, RepliesInv, Unsettled
<1>5. QED
  BY <1>2, <1>3, <1>4 DEF FeedbackInv, CreditGoesThrough

LEMMA HoldKeepsFeedback == FeedbackInv /\ BreakerFreed => FeedbackInv'
<1> SUFFICES ASSUME FeedbackInv, BreakerFreed
             PROVE  FeedbackInv'
  OBVIOUS
<1>1. ChannelsTypeOK'
  BY DEF BreakerFreed, HoldEnds, FeedbackInv, FeedbackTypeOK, ChannelsTypeOK, Breakers
<1>2. FeedbackTypeOK'
  BY <1>1 DEF FeedbackInv, FeedbackTypeOK, BreakerFreed
<1>3. RequestsInv' /\ CreditGoesThrough'
  BY DEF FeedbackInv, RequestsInv, CreditGoesThrough, BreakerFreed
<1>4. RepliesInv'
  BY DEF FeedbackInv, RepliesInv, Unsettled, BreakerFreed
<1>5. QED
  BY <1>2, <1>3, <1>4 DEF FeedbackInv

LEMMA FeedbackInvInductive == FeedbackInv /\ [FeedbackNext]_readerVars => FeedbackInv'
<1> SUFFICES ASSUME FeedbackInv, [FeedbackNext]_readerVars
             PROVE  FeedbackInv'
  OBVIOUS
<1>1. CASE UNCHANGED readerVars
  <2>1. FeedbackTypeOK'
    BY <1>1 DEF FeedbackInv, FeedbackTypeOK, ChannelsTypeOK, readerVars
  <2>2. RequestsInv' /\ CreditGoesThrough'
    BY <1>1 DEF FeedbackInv, RequestsInv, CreditGoesThrough, readerVars
  <2>3. RepliesInv'
    BY <1>1 DEF FeedbackInv, RepliesInv, Unsettled, readerVars
  <2>4. QED
    BY <2>1, <2>2, <2>3 DEF FeedbackInv
<1>2. CASE FeedbackNext
  BY <1>2, DismissKeeps, LapseKeepsFeedback, LinkKeeps, ReserveKeeps, GiveKeeps, OpenKeeps, RecordKeeps,
     CreditKeeps, NoteKeeps, ReplyKeeps, SettleKeepsFeedback, StopKeepsFeedback, HoldKeepsFeedback
  DEF FeedbackNext
<1>3. QED
  BY <1>1, <1>2

LEMMA FeedbackInvHolds == FeedbackSpec => []FeedbackInv
  BY FeedbackInvInit, FeedbackInvInductive, PTL DEF FeedbackSpec

\* Requests, rows, credit and the journal of the updates keep their types.
THEOREM FeedbackTypeCorrect == FeedbackSpec => []FeedbackTypeOK
<1>1. FeedbackInv => FeedbackTypeOK
  BY DEF FeedbackInv
<1>2. QED
  BY <1>1, FeedbackInvHolds, PTL

\* An update is replied to once at most, for any number of updates, requests at
\* a time, deliveries of an update and stops.
THEOREM RepliesOnce == FeedbackSpec => []RepliedOnce
<1>1. FeedbackInv => RepliedOnce
  BY DEF FeedbackInv, RepliesInv, RepliedOnce
<1>2. QED
  BY <1>1, FeedbackInvHolds, PTL

\* Until the process stops, every row of feedback is credited or is in the
\* hands of the request that will credit it.
THEOREM CreditNotLost == FeedbackSpec => []CreditGoesThrough
<1>1. FeedbackInv => CreditGoesThrough
  BY DEF FeedbackInv
<1>2. QED
  BY <1>1, FeedbackInvHolds, PTL

=============================================================================
