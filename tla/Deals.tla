--------------------------------- MODULE Deals ---------------------------------
(***************************************************************************)
(* The deals watch: once in an hour it collects the public list, freezes a *)
(* window of a few new deals and sends it to every target through the      *)
(* action journal.  A window that failed is sent again, the same deals     *)
(* under the same key, before anything else is collected; what was not     *)
(* chosen is skipped when a window goes out.                               *)
(***************************************************************************)
EXTENDS Naturals, FiniteSets

CONSTANTS
    Deals,          \* deals of the public list
    DealTargets,    \* notification targets of the domain
    DealLimit,      \* deals in a window (5 in the code)
    LastHour,       \* bound on the hours
    MaxDealStops    \* bound on the stops of the process

ASSUME DealsAssumption ==
    DealLimit \in Nat /\ LastHour \in Nat \ {0} /\ MaxDealStops \in Nat

VARIABLES
    hour,      \* the current hour in Shanghai
    deal,      \* the deal_items rows
    digest,    \* the deal_delivery_windows rows with their items
    post,      \* the journal row of a window and a target
    watch,     \* what the run under way is doing
    seen,      \* ghost: how often a target showed a deal
    dealStops

DealHours == 1..LastHour

dealVars == <<hour, deal, digest, post, watch, seen, dealStops>>

Resting == [pc |-> "idle", hour |-> 1, result |-> [t \in DealTargets |-> "none"]]

NoDigest == [status |-> "absent", items |-> {}]

\* Deals of the old worker are imported as delivered; it had shown them.
DealsInit ==
    /\ hour = 1
    /\ deal \in [Deals -> {"absent", "delivered"}]
    /\ digest = [h \in DealHours |-> NoDigest]
    /\ post = [h \in DealHours |-> [t \in DealTargets |-> "absent"]]
    /\ watch = Resting
    /\ seen = [d \in Deals |-> [t \in DealTargets |-> IF deal[d] = "delivered" THEN 1 ELSE 0]]
    /\ dealStops = 0

PassHour ==
    /\ hour + 1 \in DealHours
    /\ hour' = hour + 1
    /\ UNCHANGED <<deal, digest, post, watch, seen, dealStops>>

-----------------------------------------------------------------------------
(* runDue: the window of this hour, an older one to retry, or a new one.   *)

Retryable == {h \in DealHours : digest[h].status \in {"pending", "failed"}}

Done(h) == digest[h].status \in {"completed", "uncertain", "skipped_empty"}

RetryWindow ==
    /\ watch.pc = "idle" /\ ~Done(hour)
    /\ \E h \in Retryable :
        /\ \A g \in Retryable : h <= g
        /\ watch' = [Resting EXCEPT !.pc = "sending", !.hour = h]
    /\ UNCHANGED <<hour, deal, digest, post, seen, dealStops>>

StartCollect ==
    /\ watch.pc = "idle" /\ ~Done(hour) /\ Retryable = {}
    /\ watch' = [Resting EXCEPT !.pc = "collecting", !.hour = hour]
    /\ UNCHANGED <<hour, deal, digest, post, seen, dealStops>>

\* A deal already known, in whatever status, is ignored.
StoreCollected(found) ==
    /\ watch.pc = "collecting"
    /\ deal' = [d \in Deals |-> IF d \in found /\ deal[d] = "absent" THEN "pending" ELSE deal[d]]
    /\ watch' = [watch EXCEPT !.pc = "collected"]
    /\ UNCHANGED <<hour, digest, post, seen, dealStops>>

CollectFails ==
    /\ watch.pc = "collecting"
    /\ watch' = Resting
    /\ UNCHANGED <<hour, deal, digest, post, seen, dealStops>>

PendingDeals == {d \in Deals : deal[d] = "pending"}

CreateWindow(chosen) ==
    LET h == watch.hour IN
    /\ watch.pc = "collected"
    /\ chosen \subseteq PendingDeals
    /\ Cardinality(chosen) = IF Cardinality(PendingDeals) < DealLimit THEN Cardinality(PendingDeals) ELSE DealLimit
    /\ digest' = [digest EXCEPT ![h] = [status |-> IF chosen = {} THEN "skipped_empty" ELSE "pending",
                                        items |-> chosen]]
    /\ watch' = IF chosen = {} THEN Resting ELSE [watch EXCEPT !.pc = "sending"]
    /\ UNCHANGED <<hour, deal, post, seen, dealStops>>

-----------------------------------------------------------------------------
(* The dispatcher sends to all targets at the same time.                   *)

Outcome(t, result) == watch' = [watch EXCEPT !.result[t] = result]

\* The key has its row: its outcome stands, a lease that is alive refuses.
ReplayPost(t) ==
    LET p == post[watch.hour][t] IN
    /\ watch.pc = "sending" /\ watch.result[t] = "none"
    /\ p # "absent" /\ p # "failed"
    /\ Outcome(t, IF p = "executing" THEN "failed" ELSE p)
    /\ UNCHANGED <<hour, deal, digest, post, seen, dealStops>>

\* Mutant of MarkAbandonedPost: the row stays as the stop left it.
RefuseAbandonedPost(t) ==
    /\ watch.pc = "sending" /\ watch.result[t] = "none"
    /\ post[watch.hour][t] = "executing"
    /\ Outcome(t, "failed")
    /\ UNCHANGED <<hour, deal, digest, post, seen, dealStops>>

\* The lease of a row that a stop left executing ran out: it is in doubt.
MarkAbandonedPost(t) ==
    /\ watch.pc = "sending" /\ watch.result[t] = "none"
    /\ post[watch.hour][t] = "executing"
    /\ post' = [post EXCEPT ![watch.hour][t] = "uncertain"]
    /\ Outcome(t, "uncertain")
    /\ UNCHANGED <<hour, deal, digest, seen, dealStops>>

SendDigest(t, reached) ==
    /\ watch.pc = "sending" /\ watch.result[t] = "none"
    /\ post[watch.hour][t] \in {"absent", "failed"}
    /\ post' = [post EXCEPT ![watch.hour][t] = "executing"]
    /\ seen' = IF reached
               THEN [d \in Deals |-> IF d \in digest[watch.hour].items THEN [seen[d] EXCEPT ![t] = @ + 1]
                                     ELSE seen[d]]
               ELSE seen
    /\ Outcome(t, IF reached THEN "reached" ELSE "lost")
    /\ UNCHANGED <<hour, deal, digest, dealStops>>

\* A receipt or silence after it arrived, a refusal or silence otherwise.
SettleDigest(t, result) ==
    /\ \/ watch.result[t] = "reached" /\ result \in {"completed", "uncertain"}
       \/ watch.result[t] = "lost" /\ result \in {"failed", "uncertain"}
    /\ post' = [post EXCEPT ![watch.hour][t] = result]
    /\ Outcome(t, result)
    /\ UNCHANGED <<hour, deal, digest, seen, dealStops>>

Results == {watch.result[t] : t \in DealTargets}

\* Nothing is done when all targets refused or some did: the window is retried.
Aggregate ==
    IF "uncertain" \in Results THEN "uncertain"
    ELSE IF "failed" \in Results THEN "failed" ELSE "completed"

\* Mutant of Marked: deals of an uncertain window wait for another one.
MarkedIfCompleted(d, status, chosen) ==
    IF deal[d] # "pending" \/ status # "completed" THEN deal[d]
    ELSE IF d \in chosen THEN "delivered" ELSE "skipped"

Marked(d, status, chosen) ==
    IF deal[d] # "pending" \/ status = "failed" THEN deal[d]
    ELSE IF d \notin chosen THEN "skipped"
    ELSE IF status = "completed" THEN "delivered" ELSE "uncertain"

RecordDelivery ==
    LET h == watch.hour IN
    /\ watch.pc = "sending"
    /\ Results \subseteq {"completed", "failed", "uncertain"}
    /\ digest' = [digest EXCEPT ![h].status = Aggregate]
    /\ deal' = [d \in Deals |-> Marked(d, Aggregate, digest[h].items)]
    /\ watch' = Resting
    /\ UNCHANGED <<hour, post, seen, dealStops>>

DealStop ==
    /\ dealStops < MaxDealStops
    /\ dealStops' = dealStops + 1
    /\ watch' = Resting
    /\ UNCHANGED <<hour, deal, digest, post, seen>>

Dispatch(t) ==
    \/ ReplayPost(t) \/ MarkAbandonedPost(t)
    \/ \E reached \in BOOLEAN : SendDigest(t, reached)
    \/ \E result \in {"completed", "failed", "uncertain"} : SettleDigest(t, result)

DealsNext ==
    \/ PassHour \/ RetryWindow \/ StartCollect \/ CollectFails \/ RecordDelivery \/ DealStop
    \/ \E found \in SUBSET Deals \ {{}} : StoreCollected(found)
    \/ \E chosen \in SUBSET Deals : CreateWindow(chosen)
    \/ \E t \in DealTargets : Dispatch(t)

DealsSpec == DealsInit /\ [][DealsNext]_dealVars

\* The runner calls runDue every minute and its requests end.  A lease runs
\* out: the calls with a key cannot find it alive for ever.
DealsFairness ==
    /\ WF_dealVars(RetryWindow \/ RecordDelivery \/ \E t \in DealTargets : Dispatch(t))
    /\ SF_dealVars(\E t \in DealTargets : MarkAbandonedPost(t))

DealsTypeOK ==
    /\ hour \in DealHours
    /\ deal \in [Deals -> {"absent", "pending", "delivered", "uncertain", "skipped"}]
    /\ digest \in [DealHours -> [status: {"absent", "pending", "completed", "failed", "uncertain",
                                        "skipped_empty"}, items: SUBSET Deals]]
    /\ post \in [DealHours -> [DealTargets -> {"absent", "executing", "completed", "failed", "uncertain"}]]
    /\ watch.pc \in {"idle", "collecting", "collected", "sending"}

\* docs/deals.md: the source_id decides what is new, an uncertain window is not
\* sent again and a failed one only with the same deals.  So no target ever
\* shows a deal twice, in one window or in two, restarts included.
DealShownOnce == \A d \in Deals, t \in DealTargets : seen[d][t] <= 1

\* A post that a stop left executing keeps its window from being settled only
\* until the lease runs out: the window is taken up again in each minute, also
\* in a later hour, and ends uncertain at the latest, whatever the others do.
Abandoned(h) == watch.pc = "idle" /\ \E t \in DealTargets : post[h][t] = "executing"

AbandonedWindowSettles == \A h \in DealHours : Abandoned(h) ~> Done(h)
=============================================================================
