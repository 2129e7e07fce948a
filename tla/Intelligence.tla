----------------------------- MODULE Intelligence -----------------------------
(***************************************************************************)
(* The intelligence pipeline from the scored evaluations of a scan to the  *)
(* push: the candidate table (IntelligenceCandidateStore) and the          *)
(* dispatcher that claims one candidate per domain and delivers it to      *)
(* every Bark target and then to every Telegram chat, each under a row of  *)
(* the action journal (module ActionJournal).  Calls of pushNext overlap:  *)
(* a tick, a manual run, and the calls a restarted process makes while     *)
(* claims of the old one are still in the table.                           *)
(*                                                                         *)
(* Candidates are numbered in the order they are inserted, which also      *)
(* orders those of one scan.  An event stands for the rows that share the  *)
(* event_key or the URL; other rows of the same source may be alike.       *)
(* A claim token is represented by the call that knows it.                 *)
(***************************************************************************)
EXTENDS Channels, FiniteSets

CONSTANTS
    MaxCandidates, \* bound on the rows of the candidate table
    Domains,       \* "ai" and "finance" in the code
    Events,        \* what a candidate is about
    Sources,       \* where candidates come from
    KeyLimit,      \* how many rows of the event ingest reads (20 in the code)
    NearLimit,     \* how many rows of the source ingest reads (100 in the code)
    Workers,       \* calls of pushNext
    NoWorker,      \* nobody knows the claim token
    Delays,        \* length of the table of retry delays (4 in the code)
    MaxFaults      \* bound on refusals, silences, crashes and edits of the channels

ASSUME IntelligenceAssumption ==
    /\ MaxCandidates \in Nat \ {0} /\ Delays \in Nat \ {0}
    /\ OpenAfter \in Nat /\ MaxFaults \in Nat
    /\ KeyLimit \in Nat \ {0} /\ NearLimit \in Nat
    /\ Domains # {} /\ Events # {} /\ Sources # {} /\ NoWorker \notin Workers

VARIABLES
    cand,      \* the candidate table, in insertion order
    journal,   \* the journal row of each candidate and target
    delivered, \* per candidate and target, how often the target took it
    worker,    \* the calls of pushNext under way
    cooling,   \* the domains whose last push is younger than the interval
    faults     \* disturbances so far

vars == <<breaker, enabled, cand, journal, delivered, worker, cooling, faults>>

Ids == 1..MaxCandidates

Statuses == {"absent", "queued", "held", "pushing", "retry_wait", "channel_blocked",
             "pushed", "failed", "delivery_unknown"}

\* due: next_attempt_at is not in the future.  old: created before the history
\* window.  stale: claimed five minutes ago or earlier.
Candidates == [status: Statuses, domain: Domains, event: Events, source: Sources,
               attempts: 0..Delays, holder: Workers \cup {NoWorker}, due: BOOLEAN, old: BOOLEAN, stale: BOOLEAN]

Outcomes == {"unlisted", "todo", "sending", "ok", "blocked", "retryable", "final"}

Calls == [pc: {"idle", "claiming", "bark", "telegram"}, domain: Domains, item: Ids,
          sent: [Targets -> Outcomes]]

RowStatuses == {"absent", "executing", "completed", "failed", "uncertain"}

Unlisted == [t \in Targets |-> "unlisted"]

Idle == [pc |-> "idle", domain |-> CHOOSE d \in Domains : TRUE, item |-> 1, sent |-> Unlisted]

Absent == [status |-> "absent", domain |-> CHOOSE d \in Domains : TRUE,
           event |-> CHOOSE e \in Events : TRUE, source |-> CHOOSE s \in Sources : TRUE,
           attempts |-> 0, holder |-> NoWorker, due |-> TRUE, old |-> FALSE, stale |-> FALSE]

Init ==
    /\ ChannelsInit
    /\ cand = [c \in Ids |-> Absent]
    /\ journal = [c \in Ids |-> [t \in Targets |-> "absent"]]
    /\ delivered = [c \in Ids |-> [t \in Targets |-> 0]]
    /\ worker = [w \in Workers |-> Idle]
    /\ cooling = {}
    /\ faults = 0

dispatchVars == <<journal, delivered, worker, cooling, faults, breaker, enabled>>

-----------------------------------------------------------------------------
(* ingest: what becomes of one evaluation of a scan.                       *)

Known == {c \in Ids : cand[c].status # "absent"}

\* The rows of a domain within the history window, held ones too.
History(d) == {c \in Known : cand[c].domain = d /\ ~cand[c].old}

\* ORDER BY created_at DESC LIMIT n.
Newest(rows, n) == {c \in rows : Cardinality({b \in rows : b > c}) < n}

SameEvent(d, e) == {c \in History(d) : cand[c].event = e}

Nearby(d, s) == Newest({c \in History(d) : cand[c].source = s}, NearLimit)

\* Mutant of Counting: a row that is being pushed is left out of the status list.
CountingButPushing(rows) == {c \in rows : cand[c].status \notin {"held", "pushing"}}

\* Which of the rows that were read keep an event from being pushed again.
Counting(rows) == {c \in rows : cand[c].status # "held"}

\* The rows of the event come before those of the source.
Prior(d, e, s, alike) ==
    LET keyed == Counting(Newest(SameEvent(d, e), KeyLimit)) IN
    IF keyed # {} THEN keyed ELSE Counting({c \in Nearby(d, s) : cand[c].event = e \/ c \in alike})

\* An update is only weighed against the first of them, and only a pushed one.
Substantive(prior) ==
    \E newest \in prior : cand[newest].status = "pushed" /\ \A b \in prior : b <= newest

\* worthy: the scores pass the thresholds; update: is_update, novelty >= 0.75;
\* alike: the rows whose headline is similar enough.
Ingest(d, e, s, worthy, update) ==
    \E c \in Ids, alike \in SUBSET Nearby(d, s) :
        /\ Known = 1..(c - 1)
        /\ LET prior == Prior(d, e, s, alike)
               eligible == worthy /\ (prior = {} \/ (update /\ Substantive(prior)))
           IN cand' = [cand EXCEPT ![c] = [Absent EXCEPT
                  !.status = IF eligible THEN "queued" ELSE "held",
                  !.domain = d, !.event = e, !.source = s]]
        /\ UNCHANGED dispatchVars

-----------------------------------------------------------------------------
(* pushNext up to the claim.                                               *)

Leave(w) == worker' = [worker EXCEPT ![w] = Idle]

\* notificationConfigured, then releaseBlocked, which knows no domains.
StartPush(w, d) ==
    /\ worker[w].pc = "idle"
    /\ enabled # {}
    /\ worker' = [worker EXCEPT ![w].pc = "claiming", ![w].domain = d]
    /\ cand' = [c \in Ids |->
           IF cand[c].status = "channel_blocked" /\ cand[c].due
           THEN [cand[c] EXCEPT !.status = "retry_wait"] ELSE cand[c]]
    /\ UNCHANGED <<journal, delivered, cooling, faults, breaker, enabled>>

InDomain(c, d) == cand[c].status # "absent" /\ cand[c].domain = d

Abandoned(c, d) == InDomain(c, d) /\ cand[c].status = "pushing" /\ cand[c].stale

\* Nobody knows whether the push of an abandoned claim went out.
SweptRow(r) ==
    [r EXCEPT !.status = "delivery_unknown", !.holder = NoWorker, !.stale = FALSE]

Swept(d) == [c \in Ids |-> IF Abandoned(c, d) THEN SweptRow(cand[c]) ELSE cand[c]]

Busy(d) == \E c \in Ids : InDomain(c, d) /\ cand[c].status = "pushing" /\ ~cand[c].stale

Claimable(d) == {c \in Ids : /\ InDomain(c, d)
                             /\ cand[c].status \in {"queued", "retry_wait"}
                             /\ cand[c].due}

MayClaim(d) == ~Busy(d) /\ d \notin cooling /\ Claimable(d) # {}

ClaimedRow(r, w) ==
    [r EXCEPT !.status = "pushing", !.holder = w, !.attempts = @ + 1, !.stale = FALSE]

\* claimNext: the sweep and the claim are one transaction.  Which of the due
\* candidates has the best score is left open.
Claim(w) ==
    LET d == worker[w].domain IN
    /\ worker[w].pc = "claiming"
    /\ MayClaim(d)
    /\ \E c \in Claimable(d) :
           /\ cand' = [Swept(d) EXCEPT ![c] = ClaimedRow(@, w)]
           /\ worker' = [worker EXCEPT ![w] =
                  [pc |-> "bark", domain |-> d, item |-> c,
                   sent |-> [t \in Targets |-> IF t \in enabled \cap BarkTargets
                                               THEN "todo" ELSE "unlisted"]]]
    /\ UNCHANGED <<journal, delivered, cooling, faults, breaker, enabled>>

ClaimNothing(w) ==
    LET d == worker[w].domain IN
    /\ worker[w].pc = "claiming"
    /\ ~MayClaim(d)
    /\ cand' = Swept(d)
    /\ Leave(w)
    /\ UNCHANGED <<journal, delivered, cooling, faults, breaker, enabled>>

-----------------------------------------------------------------------------
(* The deliveries: all of one stage run in parallel under the journal.     *)

Row(w, t) == journal[worker[w].item][t]

Result(w, t, o) == worker' = [worker EXCEPT ![w].sent[t] = o]

SetRow(w, t, s) == journal' = [journal EXCEPT ![worker[w].item][t] = s]

Todo(w, t) == worker[w].pc \in {"bark", "telegram"} /\ worker[w].sent[t] = "todo"

\* A settled row answers without a request: a receipt is replayed, an
\* uncertain outcome is an error that says nothing about retrying.
Settled(w, t) ==
    /\ Todo(w, t)
    /\ \/ Row(w, t) = "completed" /\ Result(w, t, "ok")
       \/ Row(w, t) = "uncertain" /\ Result(w, t, "final")
    /\ UNCHANGED <<cand, journal, delivered, cooling, faults, breaker, enabled>>

\* Mutant of Open: an outcome that is in doubt is tried again.
OpenOrUncertain(w, t) == Row(w, t) \in {"absent", "failed", "uncertain"}

Open(w, t) == Row(w, t) \in {"absent", "failed"}

\* The breaker refuses, or the target has been switched off since it was listed.
\* Telegram answers a chat that left the allowlist with a plain error.
NotSent(w, t) ==
    /\ Todo(w, t)
    /\ Open(w, t)
    /\ t \notin enabled \/ Holding(t)
    /\ SetRow(w, t, "failed")
    /\ Result(w, t, IF t \notin enabled THEN "final" ELSE "blocked")
    /\ UNCHANGED <<cand, delivered, cooling, faults, breaker, enabled>>

Send(w, t) ==
    /\ Todo(w, t)
    /\ Open(w, t)
    /\ t \in enabled
    /\ ~Holding(t)
    /\ SetRow(w, t, "executing")
    /\ Result(w, t, "sending")
    /\ UNCHANGED <<cand, delivered, cooling, faults, breaker, enabled>>

Disturb == faults < MaxFaults /\ faults' = faults + 1

Sending(w, t) == worker[w].sent[t] = "sending"

TakeMessage(w, t) == delivered' = [delivered EXCEPT ![worker[w].item][t] = @ + 1]

Accept(w, t) ==
    /\ Sending(w, t)
    /\ TakeMessage(w, t)
    /\ SetRow(w, t, "completed")
    /\ Result(w, t, "ok")
    /\ Success(t)
    /\ UNCHANGED <<cand, cooling, faults, enabled>>

\* An error status: 408, 429 and 5xx may be retried.  asks: with a retry_after.
Refuse(w, t, retryable, asks) ==
    /\ Sending(w, t)
    /\ asks => t \in Chats
    /\ SetRow(w, t, "failed")
    /\ Result(w, t, IF asks THEN "blocked" ELSE IF retryable THEN "retryable" ELSE "final")
    /\ Failure(t, asks)
    /\ Disturb
    /\ UNCHANGED <<cand, delivered, cooling, enabled>>

\* No trustworthy answer: the target may have taken the message or not.
Silence(w, t) ==
    /\ Sending(w, t)
    /\ TakeMessage(w, t) \/ UNCHANGED delivered
    /\ SetRow(w, t, "uncertain")
    /\ Result(w, t, "final")
    /\ Failure(t, FALSE)
    /\ Disturb
    /\ UNCHANGED <<cand, cooling, enabled>>

Over(w) == \A t \in Targets : worker[w].sent[t] \notin {"todo", "sending"}

\* The chats are listed once every Bark delivery has settled.
ListChats(w) ==
    /\ worker[w].pc = "bark"
    /\ Over(w)
    /\ worker' = [worker EXCEPT ![w].pc = "telegram",
                                ![w].sent = [t \in Targets |-> IF t \in enabled \cap Chats
                                                               THEN "todo" ELSE @[t]]]
    /\ UNCHANGED <<cand, journal, delivered, cooling, faults, breaker, enabled>>

-----------------------------------------------------------------------------
(* The end of pushNext.                                                    *)

\* The WHERE clause of complete, retry, block and fail.
HoldsClaim(w) == cand[worker[w].item].holder = w

Some(w, o) == \E t \in Targets : worker[w].sent[t] = o

\* Mutant of Succeeded: one receipt is enough.
SucceededSomewhere(w) == Some(w, "ok")

Succeeded(w) == \A t \in Targets : worker[w].sent[t] \in {"ok", "unlisted"}

Ended(w) == worker[w].pc = "telegram" /\ Over(w)

\* A failed push counts as an attempt, a blocked one does not.
SettledRow(r, s) ==
    [r EXCEPT !.status = s, !.holder = NoWorker, !.stale = FALSE,
              !.due = s \in {"pushed", "failed"},
              !.attempts = IF s = "channel_blocked" THEN @ - 1 ELSE @]

\* The row of the candidate is written if the token is still the row's;
\* otherwise the write throws and the call ends there.
Settle(w, s) ==
    /\ cand' = IF HoldsClaim(w)
               THEN [cand EXCEPT ![worker[w].item] = SettledRow(@, s)] ELSE cand
    /\ Leave(w)
    /\ UNCHANGED <<journal, delivered, faults, breaker, enabled>>

Complete(w) ==
    /\ Ended(w)
    /\ Succeeded(w)
    /\ Settle(w, "pushed")
    /\ cooling' = IF HoldsClaim(w) THEN cooling \cup {worker[w].domain} ELSE cooling

\* The earliest retry_after of the failures is still in the future.
Block(w) ==
    /\ Ended(w)
    /\ ~Succeeded(w)
    /\ Some(w, "blocked")
    /\ Settle(w, "channel_blocked")
    /\ UNCHANGED cooling

\* No retry_after, or one that has passed by now.
Retry(w) ==
    /\ Ended(w)
    /\ ~Succeeded(w)
    /\ Some(w, "retryable") \/ Some(w, "blocked")
    /\ cand[worker[w].item].attempts < Delays
    /\ Settle(w, "retry_wait")
    /\ UNCHANGED cooling

Fail(w) ==
    /\ Ended(w)
    /\ ~Succeeded(w)
    /\ \/ ~Some(w, "retryable") /\ ~Some(w, "blocked")
       \/ cand[worker[w].item].attempts >= Delays
    /\ Settle(w, "failed")
    /\ UNCHANGED cooling

-----------------------------------------------------------------------------
(* Time, the operator and crashes.                                         *)

\* Five minutes pass since the claim, the delay of a retry or block, the
\* history window of a candidate, the interval between two pushes.
Lapse(c) ==
    /\ cand[c].status = "pushing"
    /\ ~cand[c].stale
    /\ cand' = [cand EXCEPT ![c].stale = TRUE]
    /\ UNCHANGED dispatchVars

FallDue(c) ==
    /\ ~cand[c].due
    /\ cand' = [cand EXCEPT ![c].due = TRUE]
    /\ UNCHANGED dispatchVars

Age(c) ==
    /\ cand[c].status # "absent"
    /\ ~cand[c].old
    /\ cand' = [cand EXCEPT ![c].old = TRUE]
    /\ UNCHANGED dispatchVars

Cool(d) ==
    /\ d \in cooling
    /\ cooling' = cooling \ {d}
    /\ UNCHANGED <<cand, journal, delivered, worker, faults, breaker, enabled>>

Edit(t) ==
    /\ Disturb
    /\ Switch(t) \/ Rekey(t)
    /\ UNCHANGED <<cand, journal, delivered, worker, cooling>>

Forgotten(c) == [cand[c] EXCEPT !.holder = NoWorker]

\* The process of a call stops; what it sent may still arrive.
Crash(w) ==
    /\ worker[w].pc # "idle"
    /\ cand' = [c \in Ids |-> IF cand[c].holder = w THEN Forgotten(c) ELSE cand[c]]
    /\ \E S \in SUBSET {t \in Targets : Sending(w, t)} :
           delivered' = [delivered EXCEPT ![worker[w].item] =
               [t \in Targets |-> IF t \in S THEN @[t] + 1 ELSE @[t]]]
    /\ Leave(w)
    /\ Disturb
    /\ UNCHANGED <<journal, cooling, breaker, enabled>>

Deliver(w, t) ==
    \/ Settled(w, t) \/ NotSent(w, t) \/ Send(w, t)
    \/ Accept(w, t) \/ Silence(w, t)
    \/ \E retryable, asks \in BOOLEAN : Refuse(w, t, retryable, asks)

Push(w) ==
    \/ Claim(w) \/ ClaimNothing(w) \/ ListChats(w)
    \/ Complete(w) \/ Block(w) \/ Retry(w) \/ Fail(w)
    \/ \E t \in Targets : Deliver(w, t)

Time ==
    \/ \E c \in Ids : Lapse(c) \/ FallDue(c) \/ Age(c)
    \/ \E d \in Domains : Cool(d)
    \/ \E n \in ChannelNames :
           HoldEnds(n) /\ UNCHANGED <<cand, journal, delivered, worker, cooling, faults>>

Next ==
    \/ \E d \in Domains, e \in Events, s \in Sources, worthy, update \in BOOLEAN :
           Ingest(d, e, s, worthy, update)
    \/ \E w \in Workers : Push(w) \/ Crash(w) \/ \E d \in Domains : StartPush(w, d)
    \/ \E t \in Targets : Edit(t)
    \/ Time

Spec == Init /\ [][Next]_vars

-----------------------------------------------------------------------------
TypeOK ==
    /\ ChannelsTypeOK
    /\ cand \in [Ids -> Candidates]
    /\ journal \in [Ids -> [Targets -> RowStatuses]]
    /\ delivered \in [Ids -> [Targets -> Nat]]
    /\ worker \in [Workers -> Calls]
    /\ cooling \subseteq Domains
    /\ faults \in 0..MaxFaults

\* However claims are swept, retried and raced, no target is sent the same
\* candidate twice (executeEffectOnce under the keys of pushBark and of the
\* Telegram deliveries).
DeliveredOnce == \A c \in Ids, t \in Targets : delivered[c][t] <= 1

Waiting == {"queued", "pushing", "retry_wait", "channel_blocked"}

\* The evaluations of an event that were stored after b and before a.
Between(b, a) == {c \in Known : /\ b < c /\ c < a
                                /\ cand[c].domain = cand[b].domain
                                /\ cand[c].event = cand[b].event}

\* Within the history window an event has one candidate on its way to the
\* user, and an update is queued only after its predecessor has been pushed:
\* unless as many evaluations of the event lie in between as ingest looks back.
OneLivePerEvent ==
    \A a, b \in Ids :
        /\ b < a
        /\ cand[a].status \in Waiting /\ ~cand[a].old
        /\ cand[b].status \in Waiting /\ ~cand[b].old
        /\ cand[a].domain = cand[b].domain
        /\ cand[a].event = cand[b].event
        => Cardinality(Between(b, a)) >= KeyLimit

\* A candidate becomes pushed only when every target listed for that push has
\* its receipt in the journal, also when it took several attempts.
PushedWithReceipts ==
    [][\A c \in Ids :
           cand'[c].status = "pushed" /\ cand[c].status # "pushed" =>
               \A t \in Targets : worker[cand[c].holder].sent[t] # "unlisted"
                                     => journal[c][t] = "completed"]_vars

=============================================================================
