------------------------------- MODULE Briefings -------------------------------
(***************************************************************************)
(* The morning briefings of the finance watch on one day.  Once a minute   *)
(* the scheduler calls runDue: it first looks for a briefing in its grace  *)
(* period, either one that is stored and not yet delivered, which is sent  *)
(* again, or one whose window nobody has claimed, which is claimed,        *)
(* written and sent; the ordinary watch gets the minutes that are left.    *)
(* Each target is sent to under a row of the action journal (module        *)
(* ActionJournal) whose key names the day, the briefing and the target.    *)
(***************************************************************************)
EXTENDS Naturals

CONSTANTS
    Kinds,          \* the briefings, in the order runDue looks at them: 1..n
    Receivers,      \* Bark targets and chats
    MaxTexts,       \* bound on the briefs the model writes
    MaxStops        \* bound on restarts of the Gateway

ASSUME BriefAssumption ==
    /\ Kinds \subseteq Nat /\ 1 \in Kinds
    /\ MaxTexts \in Nat /\ MaxStops \in Nat

VARIABLES
    phase,      \* of a briefing's window: "early", "due", "late"
    claimed,    \* windows in schedule_leases
    brief,      \* the stored brief: state, and which text
    row,        \* the journal rows of the briefings
    got,        \* texts a receiver has got for a briefing
    minute,     \* the minute's call of runDue: step, briefing, text, attempts, open and failed sends
    texts,
    scan,       \* the watch's current scan window: "open" or "claimed"
    listed,     \* receivers that are switched on
    stops

briefVars == <<phase, claimed, brief, row, got, minute, texts, scan, listed, stops>>

MinuteSteps == {"idle", "gate", "collecting", "evaluating", "storing", "sending"}

NoBrief == [state |-> "absent", text |-> 0]

NoMinute == [pc |-> "idle", kind |-> 1, text |-> 0, attempts |-> 0, todo |-> {}, flying |-> {},
             failed |-> FALSE]

BriefInit ==
    /\ phase = [k \in Kinds |-> "early"]
    /\ claimed = {}
    /\ brief = [k \in Kinds |-> NoBrief]
    /\ row = [k \in Kinds |-> [r \in Receivers |-> "absent"]]
    /\ got = [k \in Kinds |-> [r \in Receivers |-> {}]]
    /\ minute = NoMinute
    /\ texts = 0
    /\ scan = "open"
    /\ listed = Receivers
    /\ stops = 0

-----------------------------------------------------------------------------
(* runDue.                                                                 *)

Pending(k) == brief[k].state = "pending"

\* Mutant of Serves: what is pending is sent again at any time of the day.
ServesLate(k) ==
    \/ Pending(k)
    \/ phase[k] = "due" /\ k \notin claimed

Serves(k) == phase[k] = "due" /\ (Pending(k) \/ k \notin claimed)

First(k) == Serves(k) /\ \A j \in Kinds : j < k => ~Serves(j)

Idle == minute.pc = "idle"

\* The window is spent before a line of the briefing exists.
ClaimWindow(k) ==
    /\ Idle
    /\ First(k) /\ ~Pending(k)
    /\ claimed' = claimed \cup {k}
    /\ minute' = [NoMinute EXCEPT !.pc = "gate", !.kind = k]
    /\ UNCHANGED <<phase, brief, row, got, texts, scan, listed, stops>>

\* Mutant of RetryDelivery: the pending briefing is written anew.
RewriteAndRetry(k) ==
    /\ Idle
    /\ First(k) /\ Pending(k)
    /\ minute' = [NoMinute EXCEPT !.pc = "gate", !.kind = k]
    /\ UNCHANGED <<phase, claimed, brief, row, got, texts, scan, listed, stops>>

RetryDelivery(k) ==
    /\ Idle
    /\ First(k) /\ Pending(k)
    /\ minute' = [NoMinute EXCEPT !.pc = "sending", !.kind = k, !.text = brief[k].text,
                                  !.todo = listed]
    /\ UNCHANGED <<phase, claimed, brief, row, got, texts, scan, listed, stops>>

\* No briefing to serve, the member has its access: pushNext and, once a
\* window, the scan (module Intelligence).
Watch ==
    /\ Idle
    /\ \A k \in Kinds : ~Serves(k)
    /\ scan = "open"
    /\ scan' = "claimed"
    /\ UNCHANGED <<phase, claimed, brief, row, got, minute, texts, listed, stops>>

-----------------------------------------------------------------------------
(* run, for a briefing.                                                    *)

Kind == minute.kind

\* The assets' checks come before there is a brief to save: a refusal leaves none.
Gate ==
    /\ minute.pc = "gate"
    /\ minute' \in {NoMinute, [minute EXCEPT !.pc = "collecting"]}
    /\ UNCHANGED <<phase, claimed, brief, row, got, texts, scan, listed, stops>>

SaveFailure ==
    /\ brief' = [brief EXCEPT ![Kind] = [state |-> "failed", text |-> 0]]
    /\ minute' = NoMinute

\* All sources and their caches, or the market snapshot and its cache, may fail.
Collect ==
    /\ minute.pc = "collecting"
    /\ \/ SaveFailure
       \/ minute' = [minute EXCEPT !.pc = "evaluating"] /\ UNCHANGED brief
    /\ UNCHANGED <<phase, claimed, row, got, texts, scan, listed, stops>>

\* A reply must cite the collected sources only and give no advice.
Verdicts == {"grounded", "foreign_url", "advice"}

\* It is asked for a second time, and then refused for good.  With no new
\* evidence a fixed text takes the model's place.
Evaluate ==
    /\ minute.pc = "evaluating"
    /\ \E v \in Verdicts :
        \/ /\ v = "grounded"
           /\ texts < MaxTexts
           /\ texts' = texts + 1
           /\ minute' = [minute EXCEPT !.pc = "storing", !.text = texts + 1]
           /\ UNCHANGED brief
        \/ /\ v # "grounded" /\ minute.attempts = 0
           /\ minute' = [minute EXCEPT !.attempts = 1]
           /\ UNCHANGED <<brief, texts>>
        \/ /\ v # "grounded" /\ minute.attempts = 1
           /\ SaveFailure
           /\ UNCHANGED texts
    /\ UNCHANGED <<phase, claimed, row, got, scan, listed, stops>>

\* The brief is stored as pending before the first send; with nobody to
\* notify it is complete at once.
Store ==
    /\ minute.pc = "storing"
    /\ brief' = [brief EXCEPT ![Kind] =
           [state |-> IF listed = {} THEN "completed" ELSE "pending", text |-> minute.text]]
    /\ minute' = IF listed = {} THEN NoMinute
                 ELSE [minute EXCEPT !.pc = "sending", !.todo = listed]
    /\ UNCHANGED <<phase, claimed, row, got, texts, scan, listed, stops>>

-----------------------------------------------------------------------------
(* pushDirect: every receiver under its row of the journal.                *)

Due(r) == minute.pc = "sending" /\ r \in minute.todo

\* A receipt is replayed; a row in doubt, or left executing, is an error.
Replay(r) ==
    /\ Due(r)
    /\ row[Kind][r] \in {"completed", "uncertain", "executing"}
    /\ minute' = [minute EXCEPT !.todo = @ \ {r}, !.failed = @ \/ row[Kind][r] # "completed"]
    /\ \/ row[Kind][r] = "executing" /\ row' = [row EXCEPT ![Kind][r] = "uncertain"]
       \/ UNCHANGED row
    /\ UNCHANGED <<phase, claimed, brief, got, texts, scan, listed, stops>>

Post(r) ==
    /\ Due(r)
    /\ row[Kind][r] \in {"absent", "failed"}
    /\ row' = [row EXCEPT ![Kind][r] = "executing"]
    /\ minute' = [minute EXCEPT !.todo = @ \ {r}, !.flying = @ \cup {r}]
    /\ UNCHANGED <<phase, claimed, brief, got, texts, scan, listed, stops>>

Takes(r) == got' = [got EXCEPT ![Kind][r] = @ \cup {minute.text}]

\* Accepted, refused, or no answer that says which.
Answer(r, status) ==
    /\ r \in minute.flying
    /\ row' = [row EXCEPT ![Kind][r] = status]
    /\ minute' = [minute EXCEPT !.flying = @ \ {r}, !.failed = @ \/ status # "completed"]
    /\ \/ status # "failed" /\ Takes(r)
       \/ status # "completed" /\ UNCHANGED got
    /\ UNCHANGED <<phase, claimed, brief, texts, scan, listed, stops>>

\* One failure keeps the brief pending, with its error.
CloseDelivery ==
    /\ minute.pc = "sending" /\ minute.todo = {} /\ minute.flying = {}
    /\ brief' = IF minute.failed THEN brief ELSE [brief EXCEPT ![Kind].state = "completed"]
    /\ minute' = NoMinute
    /\ UNCHANGED <<phase, claimed, row, got, texts, scan, listed, stops>>

-----------------------------------------------------------------------------
Advance(k) ==
    /\ phase[k] # "late"
    /\ phase' = [phase EXCEPT ![k] = IF @ = "early" THEN "due" ELSE "late"]
    /\ UNCHANGED <<claimed, brief, row, got, minute, texts, scan, listed, stops>>

\* Windows are read off the clock: one that nobody claimed is gone.
NewWindow ==
    /\ scan' = "open"
    /\ UNCHANGED <<phase, claimed, brief, row, got, minute, texts, listed, stops>>

Relist(r) ==
    /\ listed' = IF r \in listed THEN listed \ {r} ELSE listed \cup {r}
    /\ UNCHANGED <<phase, claimed, brief, row, got, minute, texts, scan, stops>>

\* What was being sent may still arrive.
Stop ==
    /\ ~Idle
    /\ stops < MaxStops
    /\ stops' = stops + 1
    /\ \E S \in SUBSET minute.flying :
           got' = [got EXCEPT ![Kind] =
               [r \in Receivers |-> IF r \in S THEN @[r] \cup {minute.text} ELSE @[r]]]
    /\ minute' = NoMinute
    /\ UNCHANGED <<phase, claimed, brief, row, texts, scan, listed>>

Serve ==
    \/ \E k \in Kinds : ClaimWindow(k) \/ RetryDelivery(k)
    \/ Watch
    \/ Gate \/ Collect \/ Evaluate \/ Store
    \/ \E r \in Receivers :
        \/ Replay(r) \/ Post(r)
        \/ \E status \in {"completed", "failed", "uncertain"} : Answer(r, status)
    \/ CloseDelivery

BriefNext ==
    \/ Serve
    \/ \E k \in Kinds : Advance(k)
    \/ NewWindow
    \/ \E r \in Receivers : Relist(r)
    \/ Stop

BriefSpec == BriefInit /\ [][BriefNext]_briefVars

\* The scheduler calls runDue every minute and its calls end.
BriefFairness == WF_briefVars(Serve)

-----------------------------------------------------------------------------
BriefTypeOK ==
    /\ phase \in [Kinds -> {"early", "due", "late"}]
    /\ claimed \subseteq Kinds
    /\ brief \in [Kinds -> [state: {"absent", "pending", "completed", "failed"}, text: 0..MaxTexts]]
    /\ row \in [Kinds -> [Receivers -> {"absent", "executing", "completed", "failed", "uncertain"}]]
    /\ got \in [Kinds -> [Receivers -> SUBSET (1..MaxTexts)]]
    /\ minute \in [pc: MinuteSteps, kind: Kinds, text: 0..MaxTexts, attempts: 0..1,
                   todo: SUBSET Receivers, flying: SUBSET Receivers, failed: BOOLEAN]
    /\ texts \in 0..MaxTexts
    /\ scan \in {"open", "claimed"}
    /\ listed \subseteq Receivers
    /\ stops \in 0..MaxStops

\* "同一份晨报": whatever fails, is retried or is interrupted, all receivers of
\* a day's briefing get one and the same text.  The journal would not see a
\* second text: the hash of a request leaves the body out.
OneTextForAll ==
    \A k \in Kinds, r, q \in Receivers :
        \A a \in got[k][r], b \in got[k][q] : a = b

\* A briefing that can never be delivered holds up the watch in its grace
\* period only, in which window after window may pass.  Outside of all grace
\* periods the watch gets to claim a window, however the briefings ended.
Quiet == \A k \in Kinds : phase[k] # "due"

WatchGoesOn == scan = "open" /\ Quiet ~> scan = "claimed" \/ ~Quiet

=============================================================================
