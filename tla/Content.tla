-------------------------------- MODULE Content --------------------------------
(***************************************************************************)
(* One work of the content studio: commissioned by the operator or by the  *)
(* rhythm, written by two members in the background, illustrated, copied   *)
(* by the user and, when the rhythm made it, announced as a draft.  Its    *)
(* record is one document that every actor reads as a whole and writes     *)
(* back as a whole: the runner while it writes, a repeated illustration    *)
(* for as long as the image takes, a copy in between.                      *)
(***************************************************************************)
EXTENDS Naturals, FiniteSets

CONSTANTS
    Members,      \* the members assigned to the work
    Redraws,      \* calls of retryIllustration that may overlap
    MaxCopies,    \* bound on the uses of the copy button
    MaxAttempts,  \* bound on dispatches of the draft
    MaxRestarts   \* bound on restarts of the Gateway

ASSUME ContentAssumption ==
    MaxCopies \in Nat /\ MaxAttempts \in Nat \ {0} /\ MaxRestarts \in Nat

VARIABLES
    work,         \* the record: status, copies, picture
    trigger,      \* "none", "web" or "scheduled"
    envelope,     \* specialist_tasks: "absent", "queued", "running", "completed", "failed"
    runner,       \* where execute is
    redraw,       \* retryIllustration: step and copy of the record
    uses,         \* how often the copy button was pressed, for UsesCounted
    overlapping,  \* how often while an illustration was being redrawn
    adopting,     \* members whose credit markCopied is about to write
    credit,       \* rows of member_events for the adoption
    note,         \* the notification: status, attempts, due for a retry
    dispatching,  \* "none", "runner" or "tick": who waits for the dispatcher
    restarts

counts == <<uses, overlapping>>

contentVars == <<work, trigger, envelope, runner, redraw, uses, overlapping, adopting, credit,
                 note, dispatching, restarts>>

Active == {"queued", "researching", "drafting", "reviewing"}

WorkStatuses == Active \cup {"absent", "ready", "failed"}

Pictures == {"none", "pending", "working", "ready", "failed"}

Works == [status: WorkStatuses, copies: 0..MaxCopies, picture: Pictures,
          old: BOOLEAN]   \* last updated before the cutover

NoWork == [status |-> "absent", copies |-> 0, picture |-> "none", old |-> FALSE]

NoRedraw == [pc |-> "idle", copy |-> NoWork]

\* The database may hold a scheduled work from before drafts were announced.
OldWork == [status |-> "ready", copies |-> 0, picture |-> "none", old |-> TRUE]

ContentInit ==
    /\ \/ work = NoWork /\ trigger = "none" /\ envelope = "absent"
       \/ work = OldWork /\ trigger = "scheduled" /\ envelope = "completed"
    /\ runner = "none"
    /\ redraw = [r \in Redraws |-> NoRedraw]
    /\ uses = 0 /\ overlapping = 0
    /\ adopting = {}
    /\ credit = [m \in Members |-> 0]
    /\ note = [status |-> "absent", attempts |-> 0, due |-> FALSE]
    /\ dispatching = "none"
    /\ restarts = 0

-----------------------------------------------------------------------------
(* enqueue and execute.                                                    *)

\* dueInput stores the next window before any model works; a work that is
\* active holds the rhythm back.
CreateQueued(t) ==
    /\ work.status = "absent"
    /\ work' = [NoWork EXCEPT !.status = "queued", !.picture = "pending"]
    /\ trigger' = t
    /\ runner' = "creating"
    /\ UNCHANGED <<envelope, redraw, counts, adopting, credit, note, dispatching, restarts>>

OpenEnvelope ==
    /\ runner \in {"creating", "announcing"}
    /\ envelope' = IF runner = "creating" THEN "queued" ELSE "running"
    /\ runner' = IF runner = "creating" THEN "announcing" ELSE "writing"
    /\ UNCHANGED <<work, trigger, redraw, counts, adopting, credit, note, dispatching, restarts>>

Stages == [queued |-> {"researching"}, researching |-> {"drafting"},
           drafting |-> {"reviewing"}, reviewing |-> {"drafting"}]

\* What the checks make of a member's reply; "invalid" is after one correction.
Verdicts == {"accepted", "changes_requested", "invalid"}

\* One stage of the collaboration.  Only a review can ask for changes, and it
\* does so once: a second time the work fails.
Collaborate ==
    /\ runner = "writing"
    /\ work.status \in Active
    /\ \E v \in Verdicts :
        \/ /\ v = (IF work.status = "reviewing" THEN "changes_requested" ELSE "accepted")
           /\ \E s \in Stages[work.status] : work' = [work EXCEPT !.status = s]
           /\ runner' = runner
        \/ /\ v = "accepted" /\ work.status = "reviewing"
           /\ runner' = "drawing"
           /\ UNCHANGED work
        \/ /\ v = "invalid" \/ (v = "changes_requested" /\ work.status = "reviewing")
           /\ work' = [work EXCEPT !.status = "failed"]
           /\ runner' = "closing"
    /\ UNCHANGED <<trigger, envelope, redraw, counts, adopting, credit, note, dispatching, restarts>>

\* A failed illustration leaves the text as it is.
Illustrate ==
    /\ runner = "drawing"
    /\ \E p \in {"ready", "failed"} : work' = [work EXCEPT !.status = "ready", !.picture = p]
    /\ runner' = "closing"
    /\ UNCHANGED <<trigger, envelope, redraw, counts, adopting, credit, note, dispatching, restarts>>

CloseEnvelope ==
    /\ runner = "closing"
    /\ envelope' = IF work.status = "ready" THEN "completed" ELSE "failed"
    /\ runner' = IF work.status = "ready" /\ trigger = "scheduled" THEN "notifying" ELSE "none"
    /\ UNCHANGED <<work, trigger, redraw, counts, adopting, credit, note, dispatching, restarts>>

Begin(who) ==
    /\ note' = [status |-> "pending", attempts |-> note.attempts + 1, due |-> FALSE]
    /\ dispatching' = who

\* In the same turn as the envelope's update: only a stop comes in between.
NotifyScheduled ==
    /\ runner = "notifying"
    /\ runner' = "none"
    /\ Begin("runner")
    /\ UNCHANGED <<work, trigger, envelope, redraw, counts, adopting, credit, restarts>>

-----------------------------------------------------------------------------
(* The user.                                                               *)

\* The count is saved before the members are credited.
MarkCopied ==
    /\ work.status = "ready"
    /\ uses < MaxCopies
    /\ work' = [work EXCEPT !.copies = @ + 1, !.old = FALSE]
    /\ uses' = uses + 1
    /\ overlapping' = IF \E r \in Redraws : redraw[r].pc = "drawing"
                      THEN overlapping + 1 ELSE overlapping
    /\ adopting' = IF work.copies = 0 THEN Members ELSE adopting
    /\ UNCHANGED <<trigger, envelope, runner, redraw, credit, note, dispatching, restarts>>

\* Mutant of Remember: member_events has no unique index over the source.
RememberAgain(m) ==
    /\ m \in adopting
    /\ adopting' = adopting \ {m}
    /\ credit' = [credit EXCEPT ![m] = @ + 1]
    /\ UNCHANGED <<work, trigger, envelope, runner, redraw, counts, note, dispatching, restarts>>

\* INSERT OR IGNORE under a source id that names the work and the member.
Remember(m) ==
    /\ m \in adopting
    /\ adopting' = adopting \ {m}
    /\ credit' = [credit EXCEPT ![m] = IF @ = 0 THEN 1 ELSE @]
    /\ UNCHANGED <<work, trigger, envelope, runner, redraw, counts, note, dispatching, restarts>>

\* Mutant of RetryIllustration: the record is built anew, without its count.
RetryIllustrationAnew(r) ==
    /\ work.status = "ready"
    /\ redraw[r].pc = "idle"
    /\ work' = [work EXCEPT !.picture = "pending"]
    /\ redraw' = [redraw EXCEPT ![r] = [pc |-> "drawing",
                                        copy |-> [work EXCEPT !.picture = "pending",
                                                              !.copies = 0]]]
    /\ UNCHANGED <<trigger, envelope, runner, counts, adopting, credit, note, dispatching, restarts>>

\* The record is read here and written back, copies and all, by every save below.
RetryIllustration(r) ==
    /\ work.status = "ready"
    /\ redraw[r].pc = "idle"
    /\ work' = [work EXCEPT !.picture = "pending"]
    /\ redraw' = [redraw EXCEPT ![r] = [pc |-> "drawing",
                                        copy |-> [work EXCEPT !.picture = "pending"]]]
    /\ UNCHANGED <<trigger, envelope, runner, counts, adopting, credit, note, dispatching, restarts>>

Redraw(r, p) ==
    /\ redraw[r].pc = "drawing"
    /\ work' = [redraw[r].copy EXCEPT !.picture = p]
    /\ redraw' = [redraw EXCEPT ![r] = IF p = "working" THEN [@ EXCEPT !.copy.picture = p]
                                       ELSE NoRedraw]
    /\ UNCHANGED <<trigger, envelope, runner, counts, adopting, credit, note, dispatching, restarts>>

-----------------------------------------------------------------------------
(* The draft's notification.                                               *)

\* Mutant of NoteDue: an outcome in doubt is due again.
NoteDueInDoubt ==
    note.status \in {"absent", "uncertain"} \/ (note.status = "failed" /\ note.due)

NoteDue == note.status = "absent" \/ (note.status = "failed" /\ note.due)

\* A tick: drafts of before the cutover are put away, the others dispatched.
\* A tick waits for its dispatch, the runner's is pending and so not due.
RetryNotification ==
    /\ dispatching # "tick" /\ runner # "notifying"
    /\ trigger = "scheduled" /\ envelope = "completed" /\ work.status = "ready"
    /\ NoteDue
    /\ note.attempts < MaxAttempts
    /\ IF note.status = "absent" /\ work.old
       THEN note' = [note EXCEPT !.status = "suppressed"] /\ UNCHANGED dispatching
       ELSE Begin("tick")
    /\ UNCHANGED <<work, trigger, envelope, runner, redraw, counts, adopting, credit, restarts>>

\* What module NotificationDispatch answers; no target counts as a failure.
FinishNotification(s) ==
    /\ dispatching # "none"
    /\ note' = [note EXCEPT !.status = s]
    /\ dispatching' = "none"
    /\ UNCHANGED <<work, trigger, envelope, runner, redraw, counts, adopting, credit, restarts>>

RetryFallsDue ==
    /\ note.status = "failed" /\ ~note.due
    /\ note' = [note EXCEPT !.due = TRUE]
    /\ UNCHANGED <<work, trigger, envelope, runner, redraw, counts, adopting, credit, dispatching, restarts>>

-----------------------------------------------------------------------------
\* recoverInterrupted fails an active work and reconcileInterrupted its open
\* envelope; both run before the Gateway answers.
Restart ==
    /\ restarts < MaxRestarts
    /\ restarts' = restarts + 1
    /\ runner' = "none" /\ dispatching' = "none" /\ adopting' = {}
    /\ redraw' = [r \in Redraws |-> NoRedraw]
    /\ IF work.status \in Active
       THEN /\ work' = [work EXCEPT !.status = "failed"]
            /\ envelope' = IF envelope \in {"queued", "running"} THEN "failed" ELSE envelope
       ELSE UNCHANGED <<work, envelope>>
    /\ UNCHANGED <<trigger, counts, credit, note>>

ContentNext ==
    \/ \E t \in {"web", "scheduled"} : CreateQueued(t)
    \/ OpenEnvelope \/ Collaborate \/ Illustrate \/ CloseEnvelope \/ NotifyScheduled
    \/ MarkCopied
    \/ \E m \in Members : Remember(m)
    \/ \E r \in Redraws :
        \/ RetryIllustration(r)
        \/ \E p \in {"working", "ready", "failed"} : Redraw(r, p)
    \/ RetryNotification
    \/ \E s \in {"completed", "uncertain", "failed"} : FinishNotification(s)
    \/ RetryFallsDue
    \/ Restart

ContentSpec == ContentInit /\ [][ContentNext]_contentVars

-----------------------------------------------------------------------------
ContentTypeOK ==
    /\ work \in Works
    /\ trigger \in {"none", "web", "scheduled"}
    /\ envelope \in {"absent", "queued", "running", "completed", "failed"}
    /\ runner \in {"none", "creating", "announcing", "writing", "drawing", "closing", "notifying"}
    /\ redraw \in [Redraws -> [pc: {"idle", "drawing"}, copy: Works]]
    /\ adopting \subseteq Members
    /\ uses \in 0..MaxCopies /\ overlapping \in 0..MaxCopies
    /\ credit \in [Members -> {0, 1}]
    /\ note \in [status: {"absent", "pending", "completed", "uncertain", "failed", "suppressed"},
                 attempts: 0..MaxAttempts, due: BOOLEAN]
    /\ dispatching \in {"none", "runner", "tick"}
    /\ restarts \in 0..MaxRestarts

\* Every use of the copy button is counted, except that a redraw may write back
\* a record from before the uses that were made while it drew.
UsesCounted == work.copies <= uses /\ work.copies >= uses - overlapping

\* "uncertain 永不自动重放": whatever restarts and ticks follow, a notification
\* that was delivered, is in doubt or was put away stays as it is.
NoteStands ==
    [][note.status \in {"completed", "uncertain", "suppressed"} => note' = note]_contentVars

=============================================================================
