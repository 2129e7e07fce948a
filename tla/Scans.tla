-------------------------------- MODULE Scans --------------------------------
(***************************************************************************)
(* Scans of the two intelligence services: claim a window, collect the     *)
(* sources, hold back what was evaluated before, let the member evaluate   *)
(* the rest, and put what it cites into the candidate pool or push it at   *)
(* once.  A scan awaits its sources, the model and the channels, so a      *)
(* scheduled one, a manual one and those of another process overlap.       *)
(*                                                                         *)
(* A source grows: its version v shows the entries 1..v.  The AI service   *)
(* reads plain feeds, which are fetched every time and kept nowhere, and   *)
(* AI HOT, which publishes a fingerprint and is fetched only when it       *)
(* differs from the one of the cached copy.  The finance service fetches   *)
(* all of its sources every time and caches each of them.                  *)
(***************************************************************************)
EXTENDS Naturals, FiniteSets

CONSTANTS
    AiSources,      \* sources of the AI watch
    HotSource,      \* AI HOT, the one that publishes a fingerprint
    FinanceSources, \* sources of the finance watch
    OffTopic,       \* entries outside the scope of the watch, or of the markets it follows
    Windows,        \* windows of the schedule
    Scanners,       \* scans under way at the same time
    CollectLimit,   \* entries a scan collects (20 of the AI watch, 60 of the finance watch)
    NovelLimit,     \* entries a finance scan offers to the model (24)
    MaxMessages,    \* messages of a direct brief (5)
    MaxVersion      \* bound on the versions of each source

ASSUME ScansAssumption ==
    /\ AiSources \cap FinanceSources = {}
    /\ HotSource \in AiSources
    /\ MaxVersion \in [AiSources \cup FinanceSources -> Nat]

VARIABLES
    domain,    \* the service looked at: the two share no row of a table
    version,    \* what a source publishes now
    copy,       \* the cached copy of a source; a finance one ages after 48 hours
    health,     \* the source health ledgers
    leased,    \* the schedule_leases rows
    scanning,       \* what each scan is doing
    briefs,     \* the brief each scan has saved last
    evaluated   \* the entries with a candidate inside the history window

scanVars == <<domain, version, copy, health, leased, scanning, briefs, evaluated>>

Services == {"ai", "finance"}

Sources == AiSources \cup FinanceSources

Enabled == IF domain = "ai" THEN AiSources ELSE FinanceSources

Cached == {HotSource} \cup FinanceSources

Entries == UNION {{src} \X (1..MaxVersion[src]) : src \in Enabled}

NoCopy == [print |-> 0, items |-> 0, aged |-> FALSE]

\* held: the copy read at the start; print: the fingerprint read; items: what
\* was collected; began: ghost, the version published when collecting began.
NoBatch == [pc |-> "none", held |-> NoCopy, print |-> 0, items |-> 0, warned |-> FALSE, began |-> 0]

NoScan == [pc |-> "idle", manual |-> FALSE, direct |-> FALSE, batch |-> [src \in Enabled |-> NoBatch],
           offered |-> {}, attempt |-> 0, left |-> 0]

ScansInit ==
    /\ domain \in Services
    /\ version = [src \in Enabled |-> 1]
    /\ copy = [src \in Enabled |-> NoCopy]
    /\ health = [src \in Enabled |-> "unknown"]
    /\ leased = {}
    /\ scanning = [s \in Scanners |-> NoScan]
    /\ briefs = [s \in Scanners |-> "none"]
    /\ evaluated = {}

Publish(src) ==
    /\ version[src] < MaxVersion[src]
    /\ version' = [version EXCEPT ![src] = @ + 1]
    /\ UNCHANGED <<domain, copy, health, leased, scanning, briefs, evaluated>>

AgeCopy(src) ==
    /\ domain = "finance" /\ copy[src].items > 0
    /\ copy' = [copy EXCEPT ![src].aged = TRUE]
    /\ UNCHANGED <<domain, version, health, leased, scanning, briefs, evaluated>>

-----------------------------------------------------------------------------
(* Beginning and ending.                                                   *)

BeginScan(s, manual, direct) ==
    /\ scanning[s].pc = "idle"
    /\ scanning' = [scanning EXCEPT ![s] = [NoScan EXCEPT !.pc = "starting", !.manual = manual, !.direct = direct]]
    /\ briefs' = [briefs EXCEPT ![s] = "none"]

\* runDue: the first to insert the row of a window scans it.
ScanDue(s, w) ==
    /\ w \notin leased
    /\ leased' = leased \cup {w}
    /\ BeginScan(s, FALSE, FALSE)
    /\ UNCHANGED <<domain, version, copy, health, evaluated>>

\* Somebody asks for a scan, for the pool or to be pushed at once.
ScanManually(s) ==
    /\ \E direct \in BOOLEAN : BeginScan(s, TRUE, direct)
    /\ UNCHANGED <<domain, version, copy, health, leased, evaluated>>

\* The brief is saved, as completed or, in the catch block, as failed.
EndScan(s, status) ==
    /\ scanning' = [scanning EXCEPT ![s] = NoScan]
    /\ briefs' = [briefs EXCEPT ![s] = status]

\* A member that is inactive or lacks a tool is refused before there is a
\* brief; a dossier that cannot be read fails it.
RefuseScan(s) ==
    /\ scanning[s].pc = "starting"
    /\ \E status \in {"none", "failed"} : EndScan(s, status)
    /\ UNCHANGED <<domain, version, copy, health, leased, evaluated>>

\* A manual finance scan takes the window of the hour, free or not.
OpenSources(s) ==
    /\ scanning[s].pc = "starting"
    /\ scanning' = [scanning EXCEPT ![s].pc = "collecting", ![s].manual = FALSE, ![s].batch = [src \in Enabled |->
           [NoBatch EXCEPT !.pc = "waiting", !.held = IF src = HotSource THEN copy[src] ELSE NoCopy,
                               !.began = version[src]]]]
    /\ \E w \in Windows :
           leased' = IF domain = "finance" /\ scanning[s].manual THEN leased \cup {w} ELSE leased
    /\ UNCHANGED <<domain, version, copy, health, briefs, evaluated>>

-----------------------------------------------------------------------------
(* Collecting: every source for itself.                                    *)

SetBatch(s, src, b) == scanning' = [scanning EXCEPT ![s].batch[src] = b]

Settled(b, n, warned) ==
    [NoBatch EXCEPT !.pc = "settled", !.items = n, !.warned = warned, !.began = b.began]

Unchanged(b, print) == b.held.items > 0 /\ b.held.print = print

\* Mutant of ReadFingerprint: the fingerprint is stored before the items it stands for.
StoreFingerprint(s, src) ==
    LET b == scanning[s].batch[src] IN
    /\ b.pc = "waiting" /\ src = HotSource
    /\ IF Unchanged(b, version[src])
       THEN SetBatch(s, src, Settled(b, b.held.items, FALSE)) /\ UNCHANGED copy
       ELSE /\ SetBatch(s, src, [b EXCEPT !.pc = "fetching", !.print = version[src]])
            /\ copy' = [copy EXCEPT ![src].print = version[src]]
    /\ health' = [health EXCEPT ![src] = IF Unchanged(b, version[src]) THEN "ready" ELSE @]
    /\ UNCHANGED <<domain, version, leased, briefs, evaluated>>

ReadFingerprint(s, src) ==
    LET b == scanning[s].batch[src] IN
    /\ b.pc = "waiting" /\ src = HotSource
    /\ SetBatch(s, src, IF Unchanged(b, version[src])
                        THEN Settled(b, b.held.items, FALSE)
                        ELSE [b EXCEPT !.pc = "fetching", !.print = version[src]])
    /\ health' = [health EXCEPT ![src] = IF Unchanged(b, version[src]) THEN "ready" ELSE @]
    /\ UNCHANGED <<domain, version, copy, leased, briefs, evaluated>>

\* The source answers; the answer is on its way.  A page of a plain feed in
\* which nothing is recognised is an empty feed, which no warning reports.
AnswerFetch(s, src) ==
    LET b == scanning[s].batch[src] IN
    /\ b.pc = IF src = HotSource THEN "fetching" ELSE "waiting"
    /\ \E n \in {version[src]} \cup (IF src \in Cached THEN {} ELSE {0}) :
           SetBatch(s, src, [b EXCEPT !.pc = "answered", !.items = n])
    /\ UNCHANGED <<domain, version, copy, health, leased, briefs, evaluated>>

\* A copy is written over whatever another scan left there, newer or older.
StoreItems(s, src) ==
    LET b == scanning[s].batch[src] IN
    /\ b.pc = "answered"
    /\ SetBatch(s, src, Settled(b, b.items, FALSE))
    /\ copy' = IF src \in Cached
               THEN [copy EXCEPT ![src] = [print |-> b.print, items |-> b.items, aged |-> FALSE]]
               ELSE copy
    /\ health' = [health EXCEPT ![src] = "ready"]
    /\ UNCHANGED <<domain, version, leased, briefs, evaluated>>

\* AI HOT falls back on the copy read at the start, and its ledger says
\* "ready"; any other source of the AI watch is left out of the scan.
HotFallsBack(b) == b.held.items > 0

\* A finance source falls back on the copy stored now, unless it is older than
\* 48 hours, and on nothing otherwise; its ledger says "degraded" either way.
FinanceFallback(src) == IF copy[src].aged THEN 0 ELSE copy[src].items

\* The source cannot be reached, or what it answers cannot be used.
SourceFails(s, src) ==
    LET b == scanning[s].batch[src]
        reuse == src = HotSource /\ HotFallsBack(b)
    IN
    /\ b.pc \in {"waiting", "fetching", "answered"}
    /\ SetBatch(s, src, CASE src \in FinanceSources -> Settled(b, FinanceFallback(src), TRUE)
                          [] reuse -> Settled(b, b.held.items, TRUE)
                          [] OTHER -> [NoBatch EXCEPT !.pc = "rejected"])
    /\ health' = [health EXCEPT ![src] = IF reuse THEN "ready" ELSE "degraded"]
    /\ UNCHANGED <<domain, version, copy, leased, briefs, evaluated>>

-----------------------------------------------------------------------------
(* Evaluating.                                                             *)

\* The sources take turns until the limit is reached; which entries of a set
\* are within it is left open.
Within(limit, S) ==
    {T \in SUBSET S : Cardinality(T) = IF Cardinality(S) < limit THEN Cardinality(S) ELSE limit}

Collected(s) ==
    {e \in Entries \ OffTopic :
        scanning[s].batch[e[1]].pc = "settled" /\ e[2] <= scanning[s].batch[e[1]].items}

\* An AI scan fails when every source was rejected, a finance scan when
\* nothing at all was collected.
NothingCollected(s) ==
    IF domain = "ai"
    THEN \A src \in AiSources : scanning[s].batch[src].pc = "rejected"
    ELSE Collected(s) = {}

\* A direct brief goes out message by message, a summary before its items; a
\* finance brief is saved first, as pending.  The others feed the pool with a
\* candidate for every evaluation, in one transaction.  With no channel
\* configured a direct brief is only saved.
Deliver(s, cited) ==
    \/ /\ scanning[s].direct
       /\ \E n \in 1..(Cardinality(cited) + 1) :
              /\ n <= MaxMessages
              /\ scanning' = [scanning EXCEPT ![s] = [NoScan EXCEPT !.pc = "pushing", !.left = n]]
       /\ briefs' = [briefs EXCEPT ![s] = IF domain = "finance" THEN "pending" ELSE @]
       /\ UNCHANGED evaluated
    \/ /\ scanning[s].direct
       /\ EndScan(s, "completed")
       /\ UNCHANGED evaluated
    \/ /\ ~scanning[s].direct
       /\ EndScan(s, "completed")
       /\ evaluated' = evaluated \cup cited

\* filterNovelEvidence.  With nothing novel the brief of the AI watch is
\* complete; the finance watch goes on with an evaluation of nothing.
FilterNovelEvidence(s) ==
    /\ scanning[s].pc = "collecting"
    /\ \A src \in Enabled : scanning[s].batch[src].pc \in {"settled", "rejected"}
    /\ IF NothingCollected(s)
       THEN EndScan(s, "failed") /\ UNCHANGED evaluated
       ELSE \E kept \in Within(CollectLimit, Collected(s)) :
            LET novel == kept \ evaluated IN
            \/ /\ novel = {} /\ domain = "ai"
               /\ EndScan(s, "completed")
               /\ UNCHANGED evaluated
            \/ /\ novel = {} /\ domain = "finance"
               /\ Deliver(s, {})
            \/ /\ novel # {}
               /\ \E offered \in (IF domain = "ai" THEN {novel} ELSE Within(NovelLimit, novel)) :
                      scanning' = [scanning EXCEPT ![s] = [NoScan EXCEPT !.pc = "asking", !.direct = scanning[s].direct,
                                                                 !.offered = offered]]
               /\ UNCHANGED <<briefs, evaluated>>
    /\ UNCHANGED <<domain, version, copy, health, leased>>

\* An answer that cites only what was offered, and gives no advice.
AcceptAnswer(s) ==
    /\ scanning[s].pc = "asking"
    /\ \E cited \in SUBSET scanning[s].offered \ {{}} : Deliver(s, cited)
    /\ UNCHANGED <<domain, version, copy, health, leased>>

\* An answer that cites something else, or advises, is asked for once more.
CorrectAnswer(s) ==
    /\ scanning[s].pc = "asking" /\ scanning[s].attempt = 0
    /\ scanning' = [scanning EXCEPT ![s].attempt = 1]
    /\ UNCHANGED <<domain, version, copy, health, leased, briefs, evaluated>>

\* The second bad answer, a malformed one, a provider that fails, a candidate
\* store that fails.
RefuseAnswer(s) ==
    /\ scanning[s].pc = "asking"
    /\ EndScan(s, "failed")
    /\ UNCHANGED <<domain, version, copy, health, leased, evaluated>>

\* pushDirect: every target and chat has its own key in the action journal; a
\* message one of them did not take ends the brief.
PushMessage(s) ==
    /\ scanning[s].pc = "pushing"
    /\ \/ /\ scanning[s].left > 1
          /\ scanning' = [scanning EXCEPT ![s].left = @ - 1]
          /\ UNCHANGED briefs
       \/ /\ scanning[s].left = 1
          /\ EndScan(s, "completed")
       \/ EndScan(s, "failed")
    /\ UNCHANGED <<domain, version, copy, health, leased, evaluated>>

\* The history window of an entry passes and its candidate no longer counts.
ForgetEntry(e) ==
    /\ e \in evaluated
    /\ evaluated' = evaluated \ {e}
    /\ UNCHANGED <<domain, version, copy, health, leased, scanning, briefs>>

\* The scans end as they are: their windows stay claimed, and a brief that was
\* saved as pending stays so.
ScanStop ==
    /\ scanning' = [s \in Scanners |-> NoScan]
    /\ UNCHANGED <<domain, version, copy, health, leased, briefs, evaluated>>

ScansNext ==
    \/ \E src \in Enabled : Publish(src) \/ AgeCopy(src)
    \/ \E e \in Entries : ForgetEntry(e)
    \/ \E s \in Scanners, src \in Enabled :
        ReadFingerprint(s, src) \/ AnswerFetch(s, src) \/ StoreItems(s, src) \/ SourceFails(s, src)
    \/ \E s \in Scanners, w \in Windows : ScanDue(s, w)
    \/ \E s \in Scanners :
        \/ ScanManually(s) \/ RefuseScan(s) \/ OpenSources(s) \/ FilterNovelEvidence(s)
        \/ AcceptAnswer(s) \/ CorrectAnswer(s) \/ RefuseAnswer(s) \/ PushMessage(s)
    \/ ScanStop

ScansSpec == ScansInit /\ [][ScansNext]_scanVars

Copies == [print: Nat, items: Nat, aged: BOOLEAN]

Batches == [pc: {"none", "waiting", "fetching", "answered", "settled", "rejected"}, held: Copies,
            print: Nat, items: Nat, warned: BOOLEAN, began: Nat]

ScanRecords == [pc: {"idle", "starting", "collecting", "asking", "pushing"}, manual: BOOLEAN,
                direct: BOOLEAN, batch: [Enabled -> Batches], offered: SUBSET (Sources \X Nat),
                attempt: {0, 1}, left: Nat]

ScansTypeOK ==
    /\ domain \in Services
    /\ version \in [Enabled -> Nat]
    /\ copy \in [Enabled -> Copies]
    /\ health \in [Enabled -> {"unknown", "ready", "degraded"}]
    /\ leased \subseteq Windows
    /\ scanning \in [Scanners -> ScanRecords]
    /\ briefs \in [Scanners -> {"none", "pending", "completed", "failed"}]
    /\ evaluated \subseteq Sources \X Nat

\* A source that settles without a warning gives the member everything it showed
\* when the scan began, whichever copies other scans store, late or early, newer
\* over older or older over newer, and whatever the source publishes between its
\* fingerprint and its items.
QuietScanIsCurrent ==
    \A s \in Scanners, src \in Cached \cap Enabled :
        LET b == scanning[s].batch[src] IN
        b.pc = "settled" /\ ~b.warned => b.items >= b.began
=============================================================================
