------------------------------ MODULE CodexDigests ------------------------------
(***************************************************************************)
(* Scheduled digests.  A subscription gives a scheduled Codex task a token *)
(* with which it may publish to one Telegram chat, once a calendar day.  A *)
(* task names its run by a key and may call again after any outcome, with  *)
(* the same key or with another, from several sessions at once, before and *)
(* after midnight.                                                         *)
(***************************************************************************)
EXTENDS Naturals, FiniteSets

CONSTANTS
    Subscriptions,
    Limit,  \* active subscriptions at a time
    Runs,   \* run keys
    NoRun,
    Digests,        \* what a task may write
    Days,           \* calendar days of Asia/Shanghai, 1..n
    Sessions,       \* calls that may overlap
    MaxDigestStops  \* bound on restarts of the Gateway

\* There is something to subscribe to and to write, and a first day.
ASSUME DigestAssumption ==
    /\ Subscriptions # {} /\ Digests # {} /\ 1 \in Days
    /\ NoRun \notin Runs

VARIABLES
    subscription,  \* its status
    window,        \* codex_scheduled_delivery_windows: the run that has the day
    delivery,      \* the journal row of a run
    session,       \* publish, where it awaits Telegram
    last,          \* last_run_key and last_delivery_status
    posted,        \* messages the chat got for a day
    today,
    digestStops

digestVars == <<subscription, window, delivery, session, last, posted, today, digestStops>>

NoDelivery == [status |-> "absent", digest |-> CHOOSE d \in Digests : TRUE]

NoSession == [sending |-> FALSE, sub |-> CHOOSE s \in Subscriptions : TRUE, run |-> NoRun, day |-> 1]

NoLast == [run |-> NoRun, status |-> "never"]

DigestInit ==
    /\ subscription = [s \in Subscriptions |-> "none"]
    /\ window = [s \in Subscriptions |-> [d \in Days |-> NoRun]]
    /\ delivery = [s \in Subscriptions |-> [r \in Runs |-> NoDelivery]]
    /\ session = [c \in Sessions |-> NoSession]
    /\ last = [s \in Subscriptions |-> NoLast]
    /\ posted = [s \in Subscriptions |-> [d \in Days |-> 0]]
    /\ today = 1
    /\ digestStops = 0

-----------------------------------------------------------------------------
ActiveSubscriptions == {s \in Subscriptions : subscription[s] = "active"}

\* The count and the insert are one transaction.
CreateSubscription(s) ==
    /\ subscription[s] = "none"
    /\ Cardinality(ActiveSubscriptions) < Limit
    /\ subscription' = [subscription EXCEPT ![s] = "active"]
    /\ UNCHANGED <<window, delivery, session, last, posted, today, digestStops>>

\* A call that is being sent goes on.
RevokeSubscription(s) ==
    /\ subscription[s] = "active"
    /\ subscription' = [subscription EXCEPT ![s] = "revoked"]
    /\ UNCHANGED <<window, delivery, session, last, posted, today, digestStops>>

\* Mutant of Available: a day is taken once its digest is delivered, not before.
AvailableUntilDelivered(s, r) ==
    \A q \in Runs \ {r} : window[s][today] = q => delivery[s][q].status # "completed"

Available(s, r) == window[s][today] \in {NoRun, r}

\* recordDelivery: what is older than the record on show, or would take back a
\* delivery of the same run, is left out.
RecordOutcome(s, r, status) ==
    last' = IF last[s] = [run |-> r, status |-> "delivered"] THEN last
            ELSE [last EXCEPT ![s] = [run |-> r, status |-> status]]

\* publish runs to the send in one turn: the token, the day, the journal and the
\* reservation of the day.  An earlier outcome of the run is replayed, an unknown
\* one is final, and another text under its key is refused even after a failure.
PublishDigest(c, s, r, d) ==
    /\ ~session[c].sending
    /\ subscription[s] = "active"
    /\ Available(s, r)
    /\ \/ delivery[s][r].status = "absent"
       \/ delivery[s][r] = [status |-> "failed", digest |-> d]
    /\ delivery' = [delivery EXCEPT ![s][r] = [status |-> "executing", digest |-> d]]
    /\ window' = [window EXCEPT ![s][today] = r]
    /\ session' = [session EXCEPT ![c] = [sending |-> TRUE, sub |-> s, run |-> r, day |-> today]]
    /\ UNCHANGED <<subscription, last, posted, today, digestStops>>

\* Nobody sends the run any more: the process stopped, and the lease has expired.
Orphaned(s, r) ==
    /\ delivery[s][r].status = "executing"
    /\ \A c \in Sessions : ~(session[c].sending /\ session[c].sub = s /\ session[c].run = r)

PublishOrphaned(s, r) ==
    /\ subscription[s] = "active"
    /\ Available(s, r)
    /\ Orphaned(s, r)
    /\ delivery' = [delivery EXCEPT ![s][r].status = "uncertain"]
    /\ RecordOutcome(s, r, "uncertain")
    /\ UNCHANGED <<subscription, window, session, posted, today, digestStops>>

\* A run that was delivered is not sent again; its record is made up for if it
\* is not older than the one on show.
PublishReplayed(s, r) ==
    /\ subscription[s] = "active"
    /\ Available(s, r)
    /\ delivery[s][r].status \in {"completed", "uncertain"}
    /\ RecordOutcome(s, r, IF delivery[s][r].status = "completed" THEN "delivered" ELSE "uncertain")
    /\ UNCHANGED <<subscription, window, delivery, session, posted, today, digestStops>>

PostDigest(c) == posted' = [posted EXCEPT ![session[c].sub][session[c].day] = @ + 1]

\* What sendText came to, and the record of it.
SendEnds(c, status) ==
    /\ session[c].sending
    /\ \/ status = "completed" /\ PostDigest(c)
       \/ status = "uncertain" /\ (PostDigest(c) \/ UNCHANGED posted)
       \/ status = "failed" /\ UNCHANGED posted
    /\ delivery' = [delivery EXCEPT ![session[c].sub][session[c].run].status = status]
    /\ \/ RecordOutcome(session[c].sub, session[c].run,
                 IF status = "completed" THEN "delivered" ELSE status)
       \/ UNCHANGED last   \* projection_pending
    /\ session' = [session EXCEPT ![c] = NoSession]
    /\ UNCHANGED <<subscription, window, today, digestStops>>

Midnight ==
    /\ today + 1 \in Days
    /\ today' = today + 1
    /\ UNCHANGED <<subscription, window, delivery, session, last, posted, digestStops>>

\* What was being sent may have arrived.
DigestStop ==
    /\ digestStops < MaxDigestStops
    /\ digestStops' = digestStops + 1
    /\ \/ \E c \in Sessions : session[c].sending /\ PostDigest(c)
       \/ UNCHANGED posted
    /\ session' = [c \in Sessions |-> NoSession]
    /\ UNCHANGED <<subscription, window, delivery, last, today>>

DigestNext ==
    \/ \E s \in Subscriptions :
        \/ CreateSubscription(s) \/ RevokeSubscription(s)
        \/ \E r \in Runs :
            \/ PublishOrphaned(s, r) \/ PublishReplayed(s, r)
            \/ \E c \in Sessions, d \in Digests : PublishDigest(c, s, r, d)
    \/ \E c \in Sessions, status \in {"completed", "failed", "uncertain"} : SendEnds(c, status)
    \/ Midnight \/ DigestStop

DigestSpec == DigestInit /\ [][DigestNext]_digestVars

DigestTypeOK ==
    /\ subscription \in [Subscriptions -> {"none", "active", "revoked"}]
    /\ window \in [Subscriptions -> [Days -> Runs \cup {NoRun}]]
    /\ delivery \in [Subscriptions -> [Runs ->
           [status: {"absent", "executing", "completed", "failed", "uncertain"}, digest: Digests]]]
    /\ session \in [Sessions -> [sending: BOOLEAN, sub: Subscriptions, run: Runs \cup {NoRun}, day: Days]]
    /\ last \in [Subscriptions -> [run: Runs \cup {NoRun},
                                   status: {"never", "delivered", "failed", "uncertain"}]]
    /\ today \in Days

\* docs/codex-supervisor.md promises "最多一条" a day: whatever keys the sessions
\* use, whatever fails, is in doubt or is retried past midnight, a day's window
\* yields one message at most.
OneDigestPerDay == \A s \in Subscriptions, d \in Days : posted[s][d] <= 1
=============================================================================
