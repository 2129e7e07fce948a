--------------------------- MODULE CodexSupervisor ---------------------------
(***************************************************************************)
(* The supervision of one Codex thread: the row of codex_threads, the      *)
(* directives queued for it, the reconcile-and-dispatch cycle, the HTTP    *)
(* handlers of the operator, the App Server with its notifications, and    *)
(* what may go wrong between them.                                         *)
(*                                                                         *)
(* JavaScript runs one handler at a time up to its next await, so a step   *)
(* below is the code between two awaits; everything else may happen there. *)
(* The other managed threads appear only through the awaits of their own   *)
(* reconciliation, between the page read (Snapshot) and the decision.      *)
(*                                                                         *)
(* Revisions: every write to the row bumps its revision, so all that       *)
(* matters is whether the revision a handler holds is still the current    *)
(* one; current names the handlers that hold it.                           *)
(***************************************************************************)
EXTENDS Naturals, Sequences, FiniteSets, SequencesExt

CONSTANTS
    Slots,        \* bound: directives of the thread kept at a time
    Turns,        \* bound: turn ids, reused once nothing mentions them
    NoTurn,
    NoSlot,
    MaxInfra,     \* INFRASTRUCTURE_BACKOFF_MS.length
    MaxStrategy,  \* limit of alternative strategies
    MaxAttempts,  \* MAX_DELIVERY_ATTEMPTS
    MaxInbox,     \* bound: notifications on their way
    Goals,        \* goal statuses the App Server reports
    Outcomes,     \* turn statuses it reports
    Events,       \* the disturbances considered
    MaxEvents     \* bound: how many of them happen

Phases == {"observed", "aligning", "executing", "waiting_decision", "waiting_approval",
           "retry_wait", "paused", "verifying", "completed", "failed"}

TerminalPhases == {"observed", "paused", "completed", "failed"}

Kinds == {"continue", "verify", "instruct", "steer", "answer"}

AllEvents == {"manage", "operator", "instruct", "stop", "ask", "desktop", "turn", "systemError",
              "limit", "workplace", "contention", "expiry", "rpc", "unknown", "disconnect", "crash"}

ASSUME SupervisorAssumption ==
    /\ NoTurn \notin Turns /\ NoSlot \notin Slots
    /\ MaxInfra \in Nat /\ MaxStrategy \in Nat /\ MaxAttempts \in Nat \ {0} /\ MaxInbox \in Nat
    /\ Goals \subseteq {"none", "active", "paused", "blocked", "complete"}
    /\ Outcomes \subseteq {"completed", "failed", "interrupted"}
    /\ Events \subseteq AllEvents /\ MaxEvents \in Nat

VARIABLES
    thread,     \* the row of codex_threads
    current,    \* the handlers that hold its current revision
    directive,  \* the rows of codex_directives
    ask,        \* the open interaction of the thread; bound: one at a time
    cycle,      \* where the supervisor's cycle awaits
    op,         \* the operator request that awaits
    pair,       \* the thread's leases as this process knows them
    link,       \* connected to the App Server
    server,     \* the turn the App Server runs
    inbox,      \* its notifications, in the order they will be read
    events      \* how many disturbances have happened

vars == <<thread, current, directive, ask, cycle, op, pair, link, server, inbox, events>>

TurnOrNone == Turns \cup {NoTurn}

\* limit: deadline, budget, usage, paginated history or a missing workplace;
\* cooling: next_action_at (or the 5 second cooldown) lies in the future.
Threads == [mode: {"observed", "managed"}, phase: Phases,
            goal: {"none", "active", "paused", "blocked", "complete"}, limit: BOOLEAN,
            turn: TurnOrNone, last: {"none", "inProgress", "completed", "failed", "interrupted"},
            timeout: {"none", "pending", "due"}, cooling: BOOLEAN,
            infra: 0..MaxInfra + 1, strategy: 0..MaxStrategy,
            app: {"active", "idle", "systemError"}]

\* due: available_at of a queued row, or lease_expires_at of a leased one, has
\* passed.  sent: a request that may have taken effect left the process.  A row
\* that is completed, failed or cancelled is settled, and its slot is reused.
Directives == [kind: Kinds, status: {"queued", "leased", "uncertain", "settled"},
               attempts: 0..MaxAttempts, due: BOOLEAN, sent: BOOLEAN, target: TurnOrNone]

Settled == [kind |-> "continue", status |-> "settled", attempts |-> 0,
            due |-> TRUE, sent |-> FALSE, target |-> NoTurn]

Queued(k, t) == [kind |-> k, status |-> "queued", attempts |-> 0,
                 due |-> TRUE, sent |-> FALSE, target |-> t]

\* Interactions that wait for an answer: an approval or a question of the App
\* Server, or a choice raised by the agent or by the supervisor itself.
ServerAsks == {"approval", "question"}

Asks == ServerAsks \cup {"none", "choice"}

Pcs == {"idle", "seen", "renewing", "pausing", "aligning",
        "dispatch", "preparing", "resuming", "sending", "answered", "accepted"}

Decisions == {"none", "wait_active", "wait_decision", "raise_decision", "wait_approval", "pause",
              "fail", "complete", "retry_infrastructure", "align", "continue",
              "continue_alternative", "verify"}

Idle == [pc |-> "idle", plan |-> [a \in Asks |-> "none"], infra |-> 0, strategy |-> 0,
         left |-> 0, slot |-> NoSlot, turn |-> NoTurn]

Init ==
    /\ thread = [mode |-> "observed", phase |-> "observed", goal |-> "none", limit |-> FALSE,
                 turn |-> NoTurn, last |-> "none", timeout |-> "none", cooling |-> FALSE,
                 infra |-> 0, strategy |-> 0, app |-> "idle"]
    /\ current = {}
    /\ directive = [d \in Slots |-> Settled]
    /\ ask = "none"
    /\ cycle = Idle
    /\ op = "none"
    /\ pair = "none"
    /\ link = FALSE
    /\ server = NoTurn
    /\ inbox = << >>
    /\ events = 0

-----------------------------------------------------------------------------
(* The database.                                                           *)

Holders == {"cycle", "op"}

\* updateControl, manage, unmanage, observe and updateAppStatus all end here.
Write(t) == thread' = t /\ current' = {}

Fresh(holder) == holder \in current

Hold(holder) == current' = current \cup {holder}

Drop(holder) == current' = current \ {holder}

Pending(d) == directive[d].status \in {"queued", "leased"}

HasPending == \E d \in Slots : Pending(d)

\* One slot is kept for the continuation that an alignment is about to queue.
Room == Cardinality({d \in Slots : ~Pending(d)}) > (IF cycle.pc = "aligning" THEN 1 ELSE 0)

Enqueue(d, k, t) == ~Pending(d) /\ directive' = [directive EXCEPT ![d] = Queued(k, t)]

CancelQueued == [d \in Slots |-> IF directive[d].status = "queued" THEN Settled ELSE directive[d]]

\* Mutant of ExpiredUncertain: an expired delivery is tried again.
ExpiredRequeued ==
    [d \in Slots |-> IF directive[d].status = "leased" /\ directive[d].due
                     THEN [directive[d] EXCEPT !.status = "queued"] ELSE directive[d]]

ExpiredUncertain ==
    [d \in Slots |-> IF directive[d].status = "leased" /\ directive[d].due
                     THEN [directive[d] EXCEPT !.status = "uncertain"] ELSE directive[d]]

-----------------------------------------------------------------------------
(* evaluateCodexThread: the first rule whose condition holds decides.      *)

\* Mutant of Verified: the phase alone counts.
VerifyingIsEnough(t) == t.phase = "verifying"

\* The verification turn has ended well.
Verified(t) == t.phase = "verifying" /\ t.last = "completed"

Rules(t, a) ==
    << <<t.mode # "managed" \/ t.phase \in TerminalPhases, "none">>,
       <<t.limit, "pause">>,
       <<a = "approval", "wait_approval">>,
       <<a \in {"question", "choice"} \/ t.goal = "paused", "wait_decision">>,
       <<t.goal = "blocked", "raise_decision">>,
       <<t.last = "interrupted", "pause">>,
       <<t.timeout = "due", "pause">>,
       <<t.turn # NoTurn, "wait_active">>,
       <<t.phase = "retry_wait" /\ t.cooling, "none">>,
       <<t.app = "systemError" /\ t.infra < MaxInfra, "retry_infrastructure">>,
       <<t.app = "systemError", "fail">>,
       <<t.phase = "retry_wait", "align">>,
       <<t.app = "active", "wait_active">>,
       <<t.phase = "aligning" \/ t.goal = "none", "align">>,
       <<t.goal = "complete" /\ Verified(t), "complete">>,
       <<t.goal = "complete", "verify">>,
       <<t.last = "failed" /\ t.strategy < MaxStrategy, "continue_alternative">>,
       <<t.last = "failed", "fail">>,
       <<t.cooling, "none">>,
       <<TRUE, "continue">> >>

Decide(t, a) == SelectInSeq(Rules(t, a), LAMBDA r : r[1])

evaluateCodexThread(t, a) == Rules(t, a)[Decide(t, a)][2]

-----------------------------------------------------------------------------
(* cycle and reconcileThread.                                              *)

CycleAt(pc) == cycle.pc = pc

Goto(pc) == cycle' = [cycle EXCEPT !.pc = pc]

\* The decision is taken; only an alignment still needs the page.
Await(pc) == cycle' = [Idle EXCEPT !.pc = pc, !.strategy = IF pc = "aligning" THEN cycle.strategy ELSE 0]

\* Reconciled: the cycle goes on to dispatch up to two directives.
ToDispatch == cycle' = [Idle EXCEPT !.pc = "dispatch", !.left = 2]

\* A handler throws: the rest of the cycle, dispatching included, is skipped.
Abort == cycle' = Idle

\* applyDefaultedSuggestions: an expired suggestion is answered by default.
ApplyDefaultedSuggestion ==
    /\ link /\ CycleAt("idle")
    /\ ask = "choice"
    /\ ask' = "none"
    /\ \E d \in Slots : Enqueue(d, "answer", NoTurn)
    /\ Write([thread EXCEPT !.phase = "executing"])
    /\ UNCHANGED <<cycle, op, pair, link, server, inbox>>

\* applyExpired: any other interaction of the agent just ends.
ExpireInteraction ==
    /\ link /\ CycleAt("idle")
    /\ ask = "choice"
    /\ ask' = "none"
    /\ UNCHANGED <<thread, current, directive, cycle, op, pair, link, server, inbox>>

\* cycle up to the page read in reconcileAll; the plan is what
\* evaluateCodexThread will say of the page for each open interaction.
Snapshot ==
    /\ link /\ CycleAt("idle")
    /\ directive' = ExpiredUncertain
    /\ IF thread.mode = "managed"
       THEN /\ cycle' = [Idle EXCEPT !.pc = "seen",
                                     !.plan = [a \in Asks |-> evaluateCodexThread(thread, a)],
                                     !.infra = thread.infra, !.strategy = thread.strategy]
            /\ Hold("cycle")
       ELSE ToDispatch /\ UNCHANGED current
    /\ UNCHANGED <<thread, ask, op, pair, link, server, inbox>>

\* Mutant of Decided: hasPending forgets the leased rows.
DecidedWhenNoneQueued(actions) ==
    /\ CycleAt("seen")
    /\ cycle.plan[ask] \in actions
    /\ (\E d \in Slots : directive[d].status = "queued") =>
           cycle.plan[ask] \in {"pause", "fail", "complete"}

Decided(actions) ==
    /\ CycleAt("seen")
    /\ cycle.plan[ask] \in actions
    /\ HasPending => cycle.plan[ask] \in {"pause", "fail", "complete"}

\* Mutant of Defer: a thread with a pending directive ends the cycle.
DeferWithoutDispatch ==
    /\ CycleAt("seen")
    /\ HasPending /\ cycle.plan[ask] \notin {"pause", "fail", "complete"}
    /\ Abort
    /\ Drop("cycle")
    /\ UNCHANGED <<thread, directive, ask, op, pair, link, server, inbox>>

Defer ==
    /\ CycleAt("seen")
    /\ HasPending /\ cycle.plan[ask] \notin {"pause", "fail", "complete"}
    /\ ToDispatch
    /\ Drop("cycle")
    /\ UNCHANGED <<thread, directive, ask, op, pair, link, server, inbox>>

NothingToDo ==
    /\ Decided({"none"})
    /\ ToDispatch
    /\ Drop("cycle")
    /\ UNCHANGED <<thread, directive, ask, op, pair, link, server, inbox>>

WaitActive ==
    /\ Decided({"wait_active"})
    /\ Await("renewing")
    /\ Drop("cycle")
    /\ UNCHANGED <<thread, directive, ask, op, pair, link, server, inbox>>

\* What ensureLease makes of the pair; a known one is only renewed.
Ensured == IF pair = "none" THEN {"held"} ELSE {pair} \ {"stale"}

RenewActiveLease ==
    /\ CycleAt("renewing")
    /\ pair' \in Ensured \cup {pair}
    /\ ToDispatch
    /\ UNCHANGED <<thread, current, directive, ask, op, link, server, inbox>>

\* Mutant of WaitPhase: the action of the decision is written as its phase.
WaitPhaseFromAction == cycle.plan[ask]

WaitPhase == IF cycle.plan[ask] = "wait_approval" THEN "waiting_approval" ELSE "waiting_decision"

\* The interaction is raised even if the transition then meets a new revision.
Wait ==
    /\ Decided({"wait_decision", "raise_decision", "wait_approval"})
    /\ ask' = IF cycle.plan[ask] = "raise_decision" THEN "choice" ELSE ask
    /\ IF Fresh("cycle")
       THEN Write([thread EXCEPT !.phase = WaitPhase]) /\ ToDispatch
       ELSE UNCHANGED <<thread, current>> /\ Abort
    /\ UNCHANGED <<directive, op, pair, link, server, inbox>>

BeginPause ==
    /\ Decided({"pause"})
    /\ Await("pausing")
    /\ Drop("cycle")
    /\ UNCHANGED <<thread, directive, ask, op, pair, link, server, inbox>>

\* After the attempt to pause the goal, successful or not.
Pause ==
    /\ CycleAt("pausing")
    /\ directive' = CancelQueued
    /\ Write([thread EXCEPT !.phase = "paused", !.goal = "paused"])
    /\ pair' = "none"
    /\ ToDispatch
    /\ UNCHANGED <<ask, op, link, server, inbox>>

\* fail and complete: written only over the row that was judged.
Finish ==
    /\ Decided({"fail", "complete"})
    /\ IF Fresh("cycle")
       THEN /\ Write([thread EXCEPT !.phase = IF cycle.plan[ask] = "fail"
                                              THEN "failed" ELSE "completed"])
            /\ pair' = "none"
            /\ ToDispatch
       ELSE UNCHANGED <<thread, current, pair>> /\ Abort
    /\ UNCHANGED <<directive, ask, op, link, server, inbox>>

\* Mutant of ScheduleRetry: the last retry is not made.
ScheduleRetryEarly(retries) ==
    IF retries + 1 < MaxInfra
    THEN /\ Write([thread EXCEPT !.phase = "retry_wait", !.infra = retries + 1, !.cooling = TRUE])
         /\ UNCHANGED pair
    ELSE /\ Write([thread EXCEPT !.phase = "failed", !.infra = MaxInfra + 1])
         /\ pair' = "none"

\* scheduleInfrastructureRetry, given the retries counted so far.  Resuming a
\* failed thread keeps them; the bound stops the count one past the limit.
ScheduleRetry(retries) ==
    IF retries < MaxInfra
    THEN /\ Write([thread EXCEPT !.phase = "retry_wait", !.infra = retries + 1, !.cooling = TRUE])
         /\ UNCHANGED pair
    ELSE /\ Write([thread EXCEPT !.phase = "failed", !.infra = MaxInfra + 1])
         /\ pair' = "none"

RetryInfrastructure ==
    /\ Decided({"retry_infrastructure"})
    /\ ScheduleRetry(cycle.infra)
    /\ ToDispatch
    /\ UNCHANGED <<directive, ask, op, link, server, inbox>>

BeginAlign ==
    /\ Decided({"align"})
    /\ Await("aligning")
    /\ Drop("cycle")
    /\ UNCHANGED <<thread, directive, ask, op, pair, link, server, inbox>>

Align ==
    /\ CycleAt("aligning") /\ link
    /\ \E d \in Slots : Enqueue(d, "continue", NoTurn)
    /\ Write([thread EXCEPT !.phase = "executing", !.goal = "active", !.last = "none",
                            !.infra = 0, !.cooling = FALSE, !.strategy = cycle.strategy])
    /\ ToDispatch
    /\ UNCHANGED <<ask, op, pair, link, server, inbox>>

AlignFails ==
    /\ CycleAt("aligning")
    /\ ScheduleRetry(thread.infra)
    /\ ToDispatch
    /\ UNCHANGED <<directive, ask, op, link, server, inbox>>

QueueDirective ==
    /\ Decided({"continue", "continue_alternative", "verify"})
    /\ LET action == cycle.plan[ask] IN
       /\ \E d \in Slots : Enqueue(d, IF action = "verify" THEN "verify" ELSE "continue", NoTurn)
       /\ Write([thread EXCEPT !.phase = IF action = "verify" THEN "verifying" ELSE "executing",
                               !.strategy = IF action = "continue_alternative"
                                            THEN cycle.strategy + 1 ELSE cycle.strategy,
                               !.last = "none"])
    /\ ToDispatch
    /\ UNCHANGED <<ask, op, pair, link, server, inbox>>

-----------------------------------------------------------------------------
(* The directive dispatcher.                                               *)

\* The directive the cycle is delivering.
Mine == directive[cycle.slot]

Settle(record) == directive' = [directive EXCEPT ![cycle.slot] = record]

\* One of the two deliveries of this cycle is over.
NextDelivery == cycle' = [Idle EXCEPT !.pc = "dispatch", !.left = cycle.left - 1]

\* leaseNext looks at the mode of the thread and not at its phase.
Leasable(d) ==
    thread.mode = "managed" /\ directive[d].status = "queued" /\ directive[d].due

LeaseNext(d) ==
    /\ CycleAt("dispatch") /\ cycle.left > 0
    /\ Leasable(d)
    /\ directive' = [directive EXCEPT ![d].status = "leased", ![d].due = FALSE,
                                      ![d].attempts = IF @ < MaxAttempts THEN @ + 1 ELSE @]
    /\ cycle' = [cycle EXCEPT !.pc = "preparing", !.slot = d]
    /\ Hold("cycle")
    /\ UNCHANGED <<thread, ask, op, pair, link, server, inbox>>

EndCycle ==
    /\ CycleAt("dispatch")
    /\ cycle.left = 0 \/ ~\E d \in Slots : Leasable(d)
    /\ cycle' = Idle
    /\ UNCHANGED <<thread, current, directive, ask, op, pair, link, server, inbox>>

\* The Workplace was unregistered: the directive has failed already when the
\* transition meets a new revision.
WorkplaceGone ==
    /\ CycleAt("preparing")
    /\ Settle(Settled)
    /\ IF Fresh("cycle")
       THEN Write([thread EXCEPT !.phase = "paused", !.cooling = FALSE]) /\ NextDelivery
       ELSE UNCHANGED <<thread, current>> /\ Abort
    /\ UNCHANGED <<ask, op, pair, link, server, inbox>>

EnsureLease ==
    /\ CycleAt("preparing")
    /\ pair' \in Ensured
    /\ Goto("resuming")
    /\ Drop("cycle")
    /\ UNCHANGED <<thread, directive, ask, op, link, server, inbox>>

\* Another thread or process holds the worktree or the last place, or the
\* known pair has been lost: tried again in five seconds.
LeaseRefused ==
    /\ CycleAt("preparing")
    /\ pair # "held"
    /\ Settle([Mine EXCEPT !.status = "queued", !.due = FALSE])
    /\ NextDelivery
    /\ Drop("cycle")
    /\ UNCHANGED <<thread, ask, op, pair, link, server, inbox>>

\* thread/resume answered: turn/start or turn/steer leaves without another look.
SendDirective ==
    /\ CycleAt("resuming") /\ link
    /\ Settle([Mine EXCEPT !.sent = TRUE])
    /\ Goto("sending")
    /\ UNCHANGED <<thread, current, ask, op, pair, link, server, inbox>>

\* The catch block of a request without an answer; the pair is not released.
MarkUncertain ==
    /\ Settle([Mine EXCEPT !.status = "uncertain"])
    /\ Write([thread EXCEPT !.phase = "paused", !.cooling = FALSE])
    /\ NextDelivery

\* onDisconnected: the requests of the App Server need manual attention now,
\* and notifications on their way are lost.
ConnectionLost ==
    /\ link' = FALSE
    /\ inbox' = << >>
    /\ ask' = IF ask \in ServerAsks THEN "none" ELSE ask

\* The connection is closed between thread/resume and the request.
SendFails ==
    /\ CycleAt("resuming") /\ link
    /\ MarkUncertain
    /\ ConnectionLost
    /\ UNCHANGED <<op, pair, server>>

\* Mutant of KnownFailure: the thread keeps its leases.
KnownFailureKeepsPair ==
    /\ IF Mine.attempts < MaxAttempts
       THEN /\ Settle([Mine EXCEPT !.status = "queued", !.due = FALSE, !.sent = FALSE])
            /\ Write([thread EXCEPT !.phase = "retry_wait", !.cooling = TRUE])
       ELSE /\ Settle(Settled)
            /\ Write([thread EXCEPT !.phase = "paused", !.cooling = FALSE])
    /\ NextDelivery
    /\ UNCHANGED <<ask, op, pair, link, server, inbox>>

\* handleKnownFailure: nothing was delivered.
KnownFailure ==
    /\ IF Mine.attempts < MaxAttempts
       THEN /\ Settle([Mine EXCEPT !.status = "queued", !.due = FALSE, !.sent = FALSE])
            /\ Write([thread EXCEPT !.phase = "retry_wait", !.cooling = TRUE])
       ELSE /\ Settle(Settled)
            /\ Write([thread EXCEPT !.phase = "paused", !.cooling = FALSE])
    /\ pair' = "none"
    /\ NextDelivery
    /\ UNCHANGED <<ask, op, link, server, inbox>>

PreparationFails ==
    /\ CycleAt("resuming")
    /\ KnownFailure

\* The App Server (external) answers turn/start with a new turn ...
Unused(t) ==
    /\ t # server /\ t # thread.turn /\ t # cycle.turn
    /\ \A d \in Slots : directive[d].target # t
    /\ \A i \in DOMAIN inbox : inbox[i].turn # t

Frame(type, t, status) == [type |-> type, turn |-> t, status |-> status]

Listening == link /\ Len(inbox) < MaxInbox

StartAccepted(t) ==
    /\ CycleAt("sending") /\ link /\ Len(inbox) + 2 <= MaxInbox
    /\ Mine.kind # "steer"
    /\ Unused(t)
    /\ server' = t
    /\ inbox' = inbox \o <<Frame("response", t, "inProgress"), Frame("started", t, "inProgress")>>
    /\ cycle' = [cycle EXCEPT !.pc = "answered", !.turn = t]
    /\ UNCHANGED <<thread, current, directive, ask, op, pair, link>>

\* ... and turn/steer only if the expected turn is the one that runs.
SteerAccepted ==
    /\ CycleAt("sending") /\ Listening
    /\ Mine.kind = "steer" /\ Mine.target = server
    /\ inbox' = Append(inbox, Frame("response", server, "inProgress"))
    /\ cycle' = [cycle EXCEPT !.pc = "answered", !.turn = server]
    /\ UNCHANGED <<thread, current, directive, ask, op, pair, link, server>>

\* What was announced before the refusal has been read before it.
DeliveryRefused ==
    /\ CycleAt("sending") /\ link /\ inbox = << >>
    /\ KnownFailure

\* No answer: a timeout, a closed connection or a malformed response, before
\* or after the App Server acted on the request.
DeliveryUnknown ==
    /\ cycle.pc \in {"sending", "answered"}
    /\ MarkUncertain
    /\ UNCHANGED <<ask, op, pair, link, server, inbox>>

\* The App Server starts the turn over a connection that is gone.
StartUnseen(t) ==
    /\ CycleAt("sending") /\ ~link
    /\ Mine.kind # "steer"
    /\ Unused(t)
    /\ server' = t
    /\ MarkUncertain
    /\ UNCHANGED <<ask, op, pair, link, inbox>>

\* The response resolves a promise.  The frames of the same chunk are handled
\* before the dispatcher goes on; nothing else is.
HandleResponse ==
    /\ link /\ inbox # << >> /\ Head(inbox).type = "response"
    /\ IF CycleAt("answered") /\ Head(inbox).turn = cycle.turn THEN Goto("accepted") ELSE UNCHANGED cycle
    /\ inbox' = Tail(inbox)
    /\ UNCHANGED <<thread, current, directive, ask, op, pair, link, server>>

DeliverySettled ==
    /\ CycleAt("accepted")
    /\ Settle(Settled)
    /\ Write([thread EXCEPT !.phase = IF Mine.kind = "verify" THEN "verifying" ELSE "executing",
                            !.turn = cycle.turn, !.last = "inProgress",
                            !.timeout = "pending", !.cooling = TRUE])
    /\ NextDelivery
    /\ UNCHANGED <<ask, op, pair, link, server, inbox>>

-----------------------------------------------------------------------------
(* Notifications.                                                          *)

Heard(type) == link /\ inbox # << >> /\ Head(inbox).type = type

\* Notifications about a thread that is not managed are ignored.
Patch(t) == IF thread.mode = "managed" THEN Write(t) ELSE UNCHANGED <<thread, current>>

HandleTurnStarted ==
    /\ Heard("started")
    /\ Patch([thread EXCEPT !.turn = Head(inbox).turn, !.last = "inProgress", !.timeout = "pending"])
    /\ inbox' = Tail(inbox)
    /\ UNCHANGED <<directive, ask, cycle, op, pair, link, server>>

\* Mutant of HandleTurnCompleted: the turn that ended is still tracked.
TurnCompletedStillTracked ==
    /\ Heard("completed")
    /\ Patch([thread EXCEPT !.last = Head(inbox).status, !.timeout = "none"])
    /\ pair' = IF thread.mode = "managed" THEN "none" ELSE pair
    /\ inbox' = Tail(inbox)
    /\ UNCHANGED <<directive, ask, cycle, op, link, server>>

\* Whatever turn it was that ended, none is taken to run any more.
HandleTurnCompleted ==
    /\ Heard("completed")
    /\ Patch([thread EXCEPT !.turn = NoTurn, !.last = Head(inbox).status, !.timeout = "none"])
    /\ pair' = IF thread.mode = "managed" THEN "none" ELSE pair
    /\ inbox' = Tail(inbox)
    /\ UNCHANGED <<directive, ask, cycle, op, link, server>>

HandleGoalUpdated(g) ==
    /\ link /\ thread.mode = "managed"
    /\ thread.goal # g
    /\ Write([thread EXCEPT !.goal = g])
    /\ UNCHANGED <<directive, ask, cycle, op, pair, link, server, inbox>>

\* thread/status/changed, or observe during a scan: the revision moves on even
\* if the status is the same, as the time of the update is not.  Given the old
\* status this is also thread/tokenUsage/updated below the budget.
UpdateAppStatus(s) ==
    /\ link
    /\ Write([thread EXCEPT !.app = s])
    /\ UNCHANGED <<directive, ask, cycle, op, pair, link, server, inbox>>

-----------------------------------------------------------------------------
(* The operator.  A request that does not await is one step.               *)

\* Manage with the current revision; a current one changes nothing.
ManageThread ==
    /\ link
    /\ Write([thread EXCEPT !.mode = "managed", !.phase = "aligning", !.goal = "none",
                            !.limit = FALSE, !.infra = 0, !.strategy = 0, !.cooling = FALSE])
    /\ UNCHANGED <<directive, ask, cycle, op, pair, link, server, inbox>>

BeginOp(kind) ==
    /\ link /\ op = "none"
    /\ op' = kind
    /\ Hold("op")

\* The revision the operator saw is compared only when the goal is paused.
BeginPauseThread ==
    /\ \/ BeginOp("pause")
       \/ link /\ op = "none" /\ op' = "pause" /\ UNCHANGED current
    /\ UNCHANGED <<thread, directive, ask, cycle, pair, link, server, inbox>>

\* The queue is emptied before the revision is compared.
PauseThread ==
    /\ op = "pause" /\ link
    /\ op' = "none"
    /\ directive' = CancelQueued
    /\ IF Fresh("op")
       THEN /\ Write([thread EXCEPT !.phase = "paused", !.goal = "paused", !.cooling = FALSE])
            /\ pair' = "none"
       ELSE Drop("op") /\ UNCHANGED <<thread, pair>>
    /\ UNCHANGED <<ask, cycle, link, server, inbox>>

BeginResumeThread ==
    /\ thread.mode = "managed"
    /\ BeginOp("resume")
    /\ UNCHANGED <<thread, directive, ask, cycle, pair, link, server, inbox>>

ResumeThread ==
    /\ op = "resume" /\ link
    /\ op' = "none"
    /\ IF Fresh("op")
       THEN Write([thread EXCEPT !.phase = "aligning", !.goal = "active", !.last = "none",
                                 !.cooling = FALSE])
       ELSE Drop("op") /\ UNCHANGED thread
    /\ UNCHANGED <<directive, ask, cycle, pair, link, server, inbox>>

OpFails ==
    /\ op # "none"
    /\ op' = "none"
    /\ Drop("op")
    /\ UNCHANGED <<thread, directive, ask, cycle, pair, link, server, inbox>>

\* unmanage compares the revision after the queue and the lease are gone.
StopManaging(latest) ==
    /\ directive' = CancelQueued
    /\ pair' = "none"
    /\ IF latest
       THEN Write([thread EXCEPT !.mode = "observed", !.phase = "observed", !.turn = NoTurn,
                                 !.timeout = "none", !.cooling = FALSE])
       ELSE UNCHANGED <<thread, current>>
    /\ UNCHANGED <<ask, cycle, op, link, server, inbox>>

SendInstruction(d) ==
    /\ link
    /\ thread.mode = "managed"
    /\ Room
    /\ Enqueue(d, IF thread.turn = NoTurn THEN "instruct" ELSE "steer", thread.turn)
    /\ UNCHANGED <<thread, current, ask, cycle, op, pair, link, server, inbox>>

\* An answer other than pause or resume: neither mode nor phase is looked at.
AnswerChoice(d) ==
    /\ link
    /\ ask = "choice"
    /\ ask' = "none"
    /\ Room
    /\ Enqueue(d, "answer", NoTurn)
    /\ Write([thread EXCEPT !.phase = "executing"])
    /\ UNCHANGED <<cycle, op, pair, link, server, inbox>>

AnswerPauseOrResume ==
    /\ ask = "choice"
    /\ ask' = "none"
    /\ \/ BeginOp("pause")
       \/ thread.mode = "managed" /\ BeginOp("resume")
    /\ UNCHANGED <<thread, directive, cycle, pair, link, server, inbox>>

\* The answer goes to the App Server, or the request of a former connection
\* needs manual attention; the phase is left to the next cycle.
AnswerServerInteraction ==
    /\ link
    /\ ask \in ServerAsks
    /\ ask' = "none"
    /\ UNCHANGED <<thread, current, directive, cycle, op, pair, link, server, inbox>>

-----------------------------------------------------------------------------
(* The App Server and its other users (external), time and failures.       *)

TurnEnds(status) ==
    /\ server # NoTurn
    /\ link => Listening
    /\ server' = NoTurn
    /\ inbox' = IF link THEN Append(inbox, Frame("completed", server, status)) ELSE inbox
    /\ UNCHANGED <<thread, current, directive, ask, cycle, op, pair, link>>

DesktopTurn(t) ==
    /\ server = NoTurn /\ Unused(t)
    /\ link => Listening
    /\ server' = t
    /\ inbox' = IF link THEN Append(inbox, Frame("started", t, "inProgress")) ELSE inbox
    /\ UNCHANGED <<thread, current, directive, ask, cycle, op, pair, link>>

\* The agent of the tracked turn raises an interaction: the phase stays.
RaiseAgentInteraction ==
    /\ ask = "none"
    /\ thread.turn # NoTurn /\ thread.turn = server
    /\ ask' = "choice"
    /\ UNCHANGED <<thread, current, directive, cycle, op, pair, link, server, inbox>>

\* Any turn that runs may need an approval or an answer; the waiting phase is
\* written over whatever phase a managed thread is in.
HandleServerRequest(a) ==
    /\ link /\ server # NoTurn
    /\ thread.mode = "managed"
    /\ ask = "none"
    /\ ask' = a
    /\ Write([thread EXCEPT !.phase = IF a = "approval" THEN "waiting_approval"
                                                       ELSE "waiting_decision"])
    /\ UNCHANGED <<directive, cycle, op, pair, link, server, inbox>>

LimitReached ==
    /\ thread.mode = "managed" /\ ~thread.limit
    /\ Write([thread EXCEPT !.limit = TRUE])
    /\ UNCHANGED <<directive, ask, cycle, op, pair, link, server, inbox>>

\* Time alone changes no revision.
TurnTimeout ==
    /\ thread.timeout = "pending"
    /\ thread' = [thread EXCEPT !.timeout = "due"]
    /\ UNCHANGED <<current, directive, ask, cycle, op, pair, link, server, inbox>>

CooldownElapsed ==
    /\ thread.cooling
    /\ thread' = [thread EXCEPT !.cooling = FALSE]
    /\ UNCHANGED <<current, directive, ask, cycle, op, pair, link, server, inbox>>

\* available_at is reached, or the lease of a directive nobody delivers ends.
DirectiveDue(d) ==
    /\ Pending(d) /\ ~directive[d].due
    /\ directive[d].status = "leased" =>
           ~(cycle.slot = d /\ cycle.pc \in {"preparing", "resuming", "sending", "answered", "accepted"})
    /\ directive' = [directive EXCEPT ![d].due = TRUE]
    /\ UNCHANGED <<thread, current, ask, cycle, op, pair, link, server, inbox>>

LeaseExpires ==
    /\ pair = "held"
    /\ pair' = "stale"
    /\ UNCHANGED <<thread, current, directive, ask, cycle, op, link, server, inbox>>

\* The runner connects, and scans, only between two cycles.
Connect ==
    /\ ~link /\ CycleAt("idle")
    /\ link' = TRUE
    /\ UNCHANGED <<thread, current, directive, ask, cycle, op, pair, server, inbox>>

Disconnect ==
    /\ link
    /\ ConnectionLost
    /\ UNCHANGED <<thread, current, directive, cycle, op, pair, server>>

\* The Gateway restarts: what it awaited, its connection and leasePairs are gone.
Crash ==
    /\ cycle' = Idle /\ op' = "none" /\ pair' = "none"
    /\ link' = FALSE /\ inbox' = << >>
    /\ current' = {}
    /\ UNCHANGED <<thread, directive, ask, server>>

-----------------------------------------------------------------------------
Reconcile ==
    \/ Snapshot \/ Defer \/ NothingToDo \/ WaitActive \/ RenewActiveLease \/ Wait
    \/ BeginPause \/ Pause \/ Finish \/ RetryInfrastructure
    \/ BeginAlign \/ Align \/ QueueDirective

Deliver ==
    \/ EndCycle \/ EnsureLease \/ SendDirective
    \/ pair = "stale" /\ LeaseRefused
    \/ \E d \in Slots : LeaseNext(d)

\* What the App Server answers to a delivery that goes well, or to a steer
\* that comes too late.
Answer ==
    \/ SteerAccepted
    \/ CycleAt("sending") /\ Mine.kind = "steer" /\ Mine.target # server /\ DeliveryRefused
    \/ \E t \in Turns : StartAccepted(t)

\* What a request without a connection ends in.
Fail == AlignFails \/ PreparationFails \/ OpFails

Lose == DeliveryUnknown \/ \E t \in Turns : StartUnseen(t)

Hear == HandleResponse \/ HandleTurnStarted \/ HandleTurnCompleted

Operate == PauseThread \/ ResumeThread \/ AnswerServerInteraction

Elapse == TurnTimeout \/ CooldownElapsed \/ \E d \in Slots : DirectiveDue(d)

Observe ==
    LET status == IF server = NoTurn THEN "idle" ELSE "active" IN
    thread.app # status /\ UpdateAppStatus(status)

\* The steps of a system that is left alone.
Progress ==
    \/ Reconcile \/ Deliver \/ Answer \/ Operate \/ Elapse \/ Observe \/ Connect
    \/ ~link /\ (Fail \/ Lose)
    \/ TurnEnds("completed")

May(event) == event \in Events

\* Requests of the operator, other users of the App Server, and failures.
Disturb ==
    \/ May("manage") /\ ManageThread
    \/ May("operator") /\ (BeginPauseThread \/ BeginResumeThread)
    \/ May("instruct") /\ \E d \in Slots : SendInstruction(d)
    \/ May("stop") /\ \E latest \in BOOLEAN : StopManaging(latest)
    \/ May("ask") /\ \/ ApplyDefaultedSuggestion \/ ExpireInteraction \/ AnswerPauseOrResume
                     \/ RaiseAgentInteraction
                     \/ \E d \in Slots : AnswerChoice(d)
                     \/ \E a \in ServerAsks : HandleServerRequest(a)
    \/ May("desktop") /\ \E t \in Turns : DesktopTurn(t)
    \/ May("turn") /\ \E o \in Outcomes : TurnEnds(o)
    \/ \E g \in Goals : HandleGoalUpdated(g)
    \/ May("systemError") /\ UpdateAppStatus("systemError")
    \/ May("desktop") /\ current # {} /\ UpdateAppStatus(thread.app)
    \/ May("limit") /\ LimitReached
    \/ May("workplace") /\ WorkplaceGone
    \/ May("contention") /\ LeaseRefused
    \/ May("expiry") /\ LeaseExpires
    \/ May("rpc") /\ (Fail \/ DeliveryRefused)
    \/ May("unknown") /\ Lose
    \/ May("disconnect") /\ (Disconnect \/ SendFails)
    \/ May("crash") /\ Crash

Next ==
    \/ (DeliverySettled \/ Hear) /\ UNCHANGED events
    \/ ~CycleAt("accepted") /\ Progress /\ UNCHANGED events
    \/ ~CycleAt("accepted") /\ events < MaxEvents /\ Disturb /\ events' = events + 1

Spec == Init /\ [][Next]_vars

(***************************************************************************)
(* Fairness: the runner keeps cycling and every request of the cycle is    *)
(* answered, or rejected when the connection closes; notifications are     *)
(* read; time passes; the runner reconnects and scans.  Nothing is assumed *)
(* of the operator, and a turn may run for ever.                           *)
(***************************************************************************)
Left(A) == ~CycleAt("accepted") /\ A /\ UNCHANGED events

CycleStep ==
    \/ DeliverySettled /\ UNCHANGED events
    \/ Left(Reconcile \/ Deliver \/ Answer \/ (~link /\ (Fail \/ Lose)))

Fairness ==
    /\ WF_vars(CycleStep)
    /\ WF_vars(Hear /\ UNCHANGED events)
    /\ WF_vars(Left(TurnTimeout))
    /\ WF_vars(Left(CooldownElapsed))
    /\ \A d \in Slots : WF_vars(Left(DirectiveDue(d)))
    /\ WF_vars(Left(Observe))
    /\ WF_vars(Left(Connect))

FairSpec == Spec /\ Fairness

-----------------------------------------------------------------------------
(* Properties.                                                             *)

\* Every variable keeps to the values the tables and the handlers allow.
TypeOK ==
    /\ thread \in Threads
    /\ current \subseteq Holders
    /\ directive \in [Slots -> Directives]
    /\ ask \in Asks
    /\ cycle \in [pc: Pcs, plan: [Asks -> Decisions], infra: 0..MaxInfra + 1,
                  strategy: 0..MaxStrategy, left: 0..2, slot: Slots \cup {NoSlot},
                  turn: TurnOrNone]
    /\ op \in {"none", "pause", "resume"}
    /\ pair \in {"none", "held", "stale"}
    /\ link \in BOOLEAN
    /\ server \in TurnOrNone
    /\ events \in 0..MaxEvents
    /\ inbox \in Seq([type: {"response", "started", "completed"}, turn: Turns,
                      status: {"inProgress", "completed", "failed", "interrupted"}])

\* A directive whose request may have taken effect is never queued again:
\* what was sent is settled by an answer, or it stays uncertain, whatever is
\* disconnected, restarted or retried in between.
NoReplay == \A d \in Slots : directive[d].status = "queued" => ~directive[d].sent

\* The supervisor itself never has two directives under way, however its
\* cycle, its restarts and the operator's requests interleave.
OneSupervisorDirective ==
    \A d, e \in Slots :
        /\ Pending(d) /\ Pending(e)
        /\ directive[d].kind \in {"continue", "verify"}
        /\ directive[e].kind \in {"continue", "verify"}
        => d = e

\* The verdict is true of the row it is written to, not only of the page the
\* cycle read before it awaited: a thread is completed only if its goal is
\* complete, it was verifying, its last turn completed and none runs.
CompletionJustified ==
    [][thread.phase # "completed" /\ thread'.phase = "completed" =>
           /\ thread.mode = "managed" /\ thread.phase = "verifying"
           /\ thread.goal = "complete" /\ thread.last = "completed"
           /\ thread.turn = NoTurn /\ ask = "none"]_vars

\* The supervisor gives up only when a limit is used up: the retries of the
\* infrastructure, or the alternative strategies after one more failed turn.
FailureExhausted ==
    [][thread.phase # "failed" /\ thread'.phase = "failed" =>
           \/ thread.infra >= MaxInfra
           \/ thread.last = "failed" /\ thread.strategy = MaxStrategy /\ thread.turn = NoTurn]_vars

\* A pending directive of a managed thread is delivered, given up, cancelled
\* or left in doubt; being leased and put back is none of these.
Ends(d) == ~Pending(d) \/ thread.mode = "observed"

\* A delivery is refused again and again for a lost pair the process remembers,
\* while no turn is tracked whose end would release it.
RefusedForOldPair == CycleAt("preparing") /\ pair = "stale" /\ thread.turn = NoTurn

\* What leaves a pair behind that has no tracked turn: a delivery in doubt, or
\* a lease taken for a thread that is active with the turn of another client.
PairWithoutTurn ==
    \/ \E d \in Slots : directive[d].status = "uncertain"
    \/ CycleAt("renewing") /\ thread.turn = NoTurn

\* A directive is not put back for ever when leases are refused, run out or
\* are lost with a crash.  The one thing that keeps it in the queue is an old
\* pair that nothing releases, and only PairWithoutTurn leaves such a pair.
DirectiveLeavesQueue ==
    /\ \A d \in Slots : Pending(d) ~> Ends(d) \/ RefusedForOldPair
    /\ []~PairWithoutTurn => \A d \in Slots : Pending(d) ~> Ends(d)

\* A thread under supervision does not idle: a turn comes to run, or the
\* supervisor stops in a phase that says what it waits for, or it is refused
\* its leases for an old pair.
SupervisionActs ==
    thread.phase \in {"aligning", "executing", "verifying", "retry_wait"} ~>
        \/ server # NoTurn
        \/ thread.mode = "observed" \/ RefusedForOldPair
        \/ thread.phase \in {"waiting_decision", "waiting_approval", "paused", "completed", "failed"}

-----------------------------------------------------------------------------
(* What the documentation says and the code does not keep.                 *)

\* docs/codex-supervisor.md:85: a pause holds back the turns after it.
NoTurnAfterPause ==
    [][CycleAt("resuming") /\ cycle'.pc = "sending" /\ Mine.kind \in {"continue", "verify"} =>
           thread.phase # "paused"]_vars

\* docs/codex-supervisor.md:18: success needs an independent verification
\* turn, so not one that still waits to be delivered.
VerifiedBeforeCompletion ==
    [][thread.phase # "completed" /\ thread'.phase = "completed" =>
           ~\E d \in Slots : Pending(d) /\ directive[d].kind = "verify"]_vars

=============================================================================
