------------------------------ MODULE Reminders ------------------------------
(***************************************************************************)
(* reminder.watch: every minute the recurring runner asks ReminderService  *)
(* to expire, list and remind.  A run awaits every dispatch, so operators, *)
(* time and restarts come between its steps; it keeps working with the     *)
(* clock and the list it took at its start.                                *)
(*                                                                         *)
(* Time is an index into Times, the moments <<day, hour>> of the instance. *)
(* A window is <<item, day, slot>>, the digest of a day being the window   *)
(* of the pseudo-item Digest.                                              *)
(***************************************************************************)
EXTENDS Integers, Sequences

CONSTANTS
    Items,       \* reminder items
    Deadline,    \* deadline_local_date of each item, as a day number
    Importance,  \* 1, 3 or 5
    Times,       \* the moments at which runs may start, in order
    Targets,     \* notification targets
    Adapters,    \* those whose channel has an adapter
    Runs,        \* runs of the service, of which one may be under way
    Digest, NoWindow, NoRun,
    MaxEvents    \* bound on faults and on what the operator does

ASSUME ReminderAssumption ==
    /\ Digest \notin Items
    /\ Deadline \in [Items -> Nat]
    /\ Importance \in [Items -> {1, 3, 5}]
    /\ Times \in Seq(Nat \X (0..23))
    /\ Len(Times) > 0
    /\ MaxEvents \in Nat

VARIABLES
    now,      \* the current moment
    item,     \* reminder_items: the status of each
    window,   \* reminder_delivery_windows: status and recorded result
    running,  \* the runner's flag against overlapping runs
    run,      \* what each run is doing
    row, call, delivered,  \* of NotificationDispatch
    events    \* faults and operator changes so far

-----------------------------------------------------------------------------
(* When something is due.                                                  *)

Day(n) == Times[n][1]
Hour(n) == Times[n][2]

\* ESCALATION_SLOTS: the hours of an item whose deadline is so many days away.
EscalationSlots(importance, remaining) ==
    CASE remaining \in {2, 3} ->
             (CASE importance = 1 -> {10}
                [] importance = 3 -> {10, 18}
                [] importance = 5 -> {10, 14, 20})
      [] remaining = 1 ->
             (CASE importance = 1 -> {10, 18}
                [] importance = 3 -> {10, 14, 20}
                [] importance = 5 -> {8, 12, 16, 20})
      [] remaining = 0 ->
             (CASE importance = 1 -> {9, 14, 20}
                [] importance = 3 -> {8, 12, 16, 20}
                [] importance = 5 -> {8, 10, 12, 14, 16, 18, 20, 22})
      [] OTHER -> {}

Remaining(i, n) == Deadline[i] - Day(n)

PassedSlots(i, n) ==
    {s \in EscalationSlots(Importance[i], Remaining(i, n)) : s <= Hour(n)}

\* dueEscalationSlot: the latest slot only, earlier ones are not made up for.
EscalationWindow(i, n) ==
    <<i, Day(n), CHOOSE s \in PassedSlots(i, n) : \A u \in PassedSlots(i, n) : u <= s>>

DigestWindow(n) == <<Digest, Day(n), 10>>

\* The windows that a run started at moment n with these active items goes through.
Agenda(active, n) ==
    {EscalationWindow(i, n) : i \in {j \in active : PassedSlots(j, n) # {}}}
    \cup (IF Hour(n) >= 10 THEN {DigestWindow(n)} ELSE {})

Windows == UNION {Agenda(Items, n) : n \in DOMAIN Times}

Escalations == {w \in Windows : w[1] \in Items}

\* The repository's list order; ids are random, so ties fall either way.
ListedBefore(i, j) ==
    \/ Deadline[i] < Deadline[j]
    \/ Deadline[i] = Deadline[j] /\ Importance[i] > Importance[j]

\* The digest is sent first, then the items in list order.
ComesFirst(w, todo) ==
    w[1] # Digest =>
        \A v \in todo : v[1] # Digest /\ ~ListedBefore(v[1], w[1])

-----------------------------------------------------------------------------

Dispatch == INSTANCE NotificationDispatch
                WITH Keys <- Windows, Bodies <- SUBSET Items, Callers <- Runs,
                     NoKey <- NoWindow, NoBody <- {}, NoCaller <- NoRun

vars == <<now, item, window, running, run, row, call, delivered, events>>

ItemStatuses == {"absent", "active", "completed", "expired"}

WindowStatuses == {"absent", "completed", "failed", "uncertain", "skipped_empty"}

NoResult == [t \in Targets |-> "none"]

\* pc: examining (choosing the next window), resolving (awaiting the target
\* policy), waiting (awaiting the answers of the targets).
RunStates == [pc: {"idle", "examining", "resolving", "waiting"},
              todo: SUBSET Windows, window: Windows \cup {NoWindow},
              listed: SUBSET Items]

IdleRun == [pc |-> "idle", todo |-> {}, window |-> NoWindow, listed |-> {}]

Init ==
    /\ now = 1
    /\ item \in [Items -> {"absent", "active"}]
    /\ window = [w \in Windows |-> [status |-> "absent", told |-> NoResult]]
    /\ running = FALSE
    /\ run = [r \in Runs |-> IdleRun]
    /\ events = 0
    /\ Dispatch!DispatchInit

Event == events < MaxEvents /\ events' = events + 1

-----------------------------------------------------------------------------
(* The run.                                                                *)

StartRun(r) ==
    LET expired == {i \in Items : item[i] = "active" /\ Deadline[i] < Day(now)}
        active == {i \in Items : item[i] = "active"} \ expired
    IN /\ run[r].pc = "idle"
       /\ item' = [i \in Items |-> IF i \in expired THEN "expired" ELSE item[i]]
       /\ run' = [run EXCEPT ![r] = [pc |-> "examining", todo |-> Agenda(active, now),
                                     window |-> NoWindow,
                                     listed |-> {i \in active : Remaining(i, now) > 3}]]
       /\ running' = TRUE
       /\ UNCHANGED <<now, window, row, call, delivered, events>>

Tick(r) == ~running /\ StartRun(r)

\* Mutants of IsTerminal: an uncertain window is tried again, a failed one is not.
TerminalUnlessUncertain(w) == window[w].status \notin {"absent", "failed", "uncertain"}

TerminalOnceRecorded(w) == window[w].status # "absent"

IsTerminal(w) == window[w].status \notin {"absent", "failed"}

AtHead(r, w) ==
    /\ run[r].pc = "examining"
    /\ w \in run[r].todo
    /\ ComesFirst(w, run[r].todo)

GoOn(r, w) ==
    run' = [run EXCEPT ![r].pc = "examining", ![r].todo = @ \ {w}, ![r].window = NoWindow]

\* recordDelivery: a terminal window keeps its record.
RecordDelivery(w, status, told) ==
    window' = [window EXCEPT ![w] =
                  IF @.status \in {"completed", "uncertain", "skipped_empty"} THEN @
                  ELSE [status |-> status, told |-> told]]

SkipExisting(r, w) ==
    /\ AtHead(r, w)
    /\ IsTerminal(w)
    /\ GoOn(r, w)
    /\ UNCHANGED <<now, item, window, running, row, call, delivered, events>>

EmptyDigest(r, w) == w[1] = Digest /\ run[r].listed = {}

SkipEmpty(r, w) ==
    /\ AtHead(r, w)
    /\ ~IsTerminal(w)
    /\ EmptyDigest(r, w)
    /\ RecordDelivery(w, "skipped_empty", NoResult)
    /\ GoOn(r, w)
    /\ UNCHANGED <<now, item, running, row, call, delivered, events>>

StartDispatch(r, w) ==
    /\ AtHead(r, w)
    /\ ~IsTerminal(w)
    /\ ~EmptyDigest(r, w)
    /\ run' = [run EXCEPT ![r].pc = "resolving", ![r].window = w]
    /\ UNCHANGED <<now, item, window, running, row, call, delivered, events>>

\* The payload: the digest lists the items of the run, an escalation its item,
\* whose text never changes.
Body(r) == IF run[r].window[1] = Digest THEN run[r].listed ELSE {run[r].window[1]}

\* The policy answers.  Its configuration is read anew each time, so a target
\* may have been taken out of it.
Resolve(r, resolved) ==
    /\ run[r].pc = "resolving"
    /\ resolved # {}
    /\ IF resolved = Targets THEN UNCHANGED events ELSE Event
    /\ Dispatch!Reserve(r, run[r].window, Body(r), resolved)
    /\ run' = [run EXCEPT ![r].pc = "waiting"]
    /\ UNCHANGED <<now, item, window, running>>

\* No target is configured, or the policy throws.
NotDispatched(r) ==
    /\ run[r].pc = "resolving"
    /\ Event
    /\ RecordDelivery(run[r].window, "failed", NoResult)
    /\ GoOn(r, run[r].window)
    /\ UNCHANGED <<now, item, running, row, call, delivered>>

DeliveryStatus(r) ==
    LET s == Dispatch!AggregateStatus(r)
    IN IF s \in {"completed", "uncertain"} THEN s ELSE "failed"

Record(r) ==
    /\ run[r].pc = "waiting"
    /\ Dispatch!Return(r)
    /\ RecordDelivery(run[r].window, DeliveryStatus(r), call[r].result)
    /\ GoOn(r, run[r].window)
    /\ UNCHANGED <<now, item, running, events>>

\* The record of the result cannot be written; the catch block writes failed.
RecordAsFailed(r) ==
    /\ run[r].pc = "waiting"
    /\ Event
    /\ Dispatch!Return(r)
    /\ RecordDelivery(run[r].window, "failed", NoResult)
    /\ GoOn(r, run[r].window)
    /\ UNCHANGED <<now, item, running>>

EndRun(r) ==
    /\ run' = [run EXCEPT ![r] = IdleRun]
    /\ running' = FALSE

\* Neither record can be written: the run ends with an error.
RecordThrows(r) ==
    /\ run[r].pc = "waiting"
    /\ Event
    /\ Dispatch!Return(r)
    /\ EndRun(r)
    /\ UNCHANGED <<now, item, window>>

Finish(r) ==
    /\ run[r].pc = "examining"
    /\ run[r].todo = {}
    /\ EndRun(r)
    /\ UNCHANGED <<now, item, window, row, call, delivered, events>>

-----------------------------------------------------------------------------
(* Everything that comes between.                                          *)

Service == <<now, item, window, running, run>>

Answered(r, w, t) == Dispatch!Accept(r, w, t) /\ UNCHANGED <<Service, events>>

Fault(r, w, t) ==
    /\ Event
    /\ \/ Dispatch!Reject(r, w, t)
       \/ Dispatch!LoseAnswer(r, w, t)
       \/ Dispatch!ReceiptUnrecorded(r, w, t)
       \/ Dispatch!FailureUnrecorded(r, w, t)
    /\ UNCHANGED Service

LeaseLapses(w, t) == Dispatch!Lapse(w, t) /\ UNCHANGED <<Service, events>>

\* The gateway restarts: the runner clears the flag it finds.
Restart ==
    /\ Event
    /\ Dispatch!Abandon
    /\ run' = [r \in Runs |-> IdleRun]
    /\ running' = FALSE
    /\ UNCHANGED <<now, item, window>>

Pass ==
    /\ now < Len(Times)
    /\ now' = now + 1
    /\ UNCHANGED <<item, window, running, run, row, call, delivered, events>>

Operate(i, from, to) ==
    /\ Event
    /\ item[i] \in from
    /\ item' = [item EXCEPT ![i] = to]
    /\ UNCHANGED <<now, window, running, run, row, call, delivered>>

Create(i) == Operate(i, {"absent"}, "active")
Complete(i) == Operate(i, {"active", "expired"}, "completed")
Reopen(i) == Operate(i, {"completed", "expired"}, "active")

RunStep(r) ==
    \/ Tick(r)
    \/ \E w \in run[r].todo : SkipExisting(r, w) \/ SkipEmpty(r, w) \/ StartDispatch(r, w)
    \/ \E resolved \in SUBSET Targets : Resolve(r, resolved)
    \/ NotDispatched(r)
    \/ Record(r) \/ RecordAsFailed(r) \/ RecordThrows(r)
    \/ Finish(r)

Next ==
    \/ \E r \in Runs : RunStep(r)
    \/ \E r \in Runs, w \in Windows, t \in Targets : Answered(r, w, t) \/ Fault(r, w, t)
    \/ \E w \in Windows, t \in Targets : LeaseLapses(w, t)
    \/ \E i \in Items : Create(i) \/ Complete(i) \/ Reopen(i)
    \/ Restart
    \/ Pass

Spec == Init /\ [][Next]_vars

\* The runner's timer fires, a run goes on when what it awaits has answered,
\* leases run out, and a target that does not fail accepts.
Fairness ==
    /\ WF_vars(\E r \in Runs : RunStep(r))
    /\ \A w \in Windows, t \in Targets :
           WF_vars(LeaseLapses(w, t)) /\ WF_vars(\E r \in Runs : Answered(r, w, t))

FairSpec == Spec /\ Fairness

-----------------------------------------------------------------------------

TypeOK ==
    /\ now \in DOMAIN Times
    /\ item \in [Items -> ItemStatuses]
    /\ window \in [Windows -> [status: WindowStatuses, told: [Targets -> Dispatch!Results]]]
    /\ running \in BOOLEAN
    /\ run \in [Runs -> RunStates]
    /\ events \in 0..MaxEvents
    /\ Dispatch!DispatchTypeOK

\* Whatever crashes, lost answers and retries there are, no target gets the
\* message of a window twice.
DeliveredOnce == \A w \in Windows, t \in Targets : delivered[w][t] <= 1

IsFinal(w) == window[w].status \in {"completed", "uncertain", "skipped_empty"}

Active(r) == run[r].pc # "idle"

\* Why a run may trust the list it took: it is the only one, so nothing it has
\* on its list expires, and the window it is sending is not settled elsewhere.
RunInv ==
    /\ \A r \in Runs : Active(r) => running
    /\ \A r, q \in Runs : Active(r) /\ Active(q) => r = q
    /\ \A r \in Runs : run[r].pc \in {"resolving", "waiting"} =>
           run[r].window \in run[r].todo /\ ~IsFinal(run[r].window)
    /\ \A r \in Runs, w \in Windows :
           Active(r) /\ w \in run[r].todo /\ w[1] # Digest => item[w[1]] # "expired"

\* A window that is completed, uncertain or skipped is never sent again, not
\* even to a target that had refused it.
FinalWindowQuiet ==
    [][\A w \in Windows, t \in Targets :
        IsFinal(w) => (row'[w][t].status = "executing" => row[w][t].status = "executing")]_vars

\* An expired item is never reminded, although a run sends what it listed long
\* before.
ExpiredNeverReminded ==
    [][\A w \in Escalations, t \in Targets :
        item[w[1]] = "expired"
            => (row'[w][t].status = "executing" => row[w][t].status = "executing")]_vars

\* An escalation that failed is tried again, and settled, unless its time
\* passes or the operator closes the item first.
EscalationSettles ==
    \A w \in Escalations :
        window[w].status = "failed"
            ~> \/ window[w].status # "failed"
               \/ item[w[1]] # "active"
               \/ w \notin Agenda(Items, now)

\* docs/reminders.md: a target that failed is tried again with the same key.
RetryIsServed ==
    [][\A r \in Runs, t \in Targets :
        LET failed == row[run[r].window][t].status = "failed" IN
        run[r].pc = "resolving" /\ run'[r].pc = "waiting" /\ failed =>
            call'[r].result[t] \in {"none", "sending"}]_vars
=============================================================================
