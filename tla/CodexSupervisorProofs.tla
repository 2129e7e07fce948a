------------------------ MODULE CodexSupervisorProofs ------------------------
(***************************************************************************)
(* What the supervision of a thread never does to its directives, proved   *)
(* for any number of slots, turns, attempts and disturbances: a directive  *)
(* that may have taken effect is not queued again, and the supervisor has  *)
(* one directive under way at a time.  The invariant says where the cycle  *)
(* stands: the directive it delivers is leased, unsent until the request   *)
(* leaves, and no other continuation is pending while a goal is aligned.   *)
(*                                                                         *)
(* The second part proves the types of the state and that a thread is      *)
(* completed or given up only for cause.  Its invariant is about the plan  *)
(* of a page: while the row is the one that was read, the row still        *)
(* justifies the verdict in the plan.                                      *)
(***************************************************************************)
EXTENDS CodexSupervisor, TLAPS, WellFoundedInduction

CycleFields == {"pc", "plan", "infra", "strategy", "left", "slot", "turn"}

DirectiveFields == {"kind", "status", "attempts", "due", "sent", "target"}

\* The shape of the two records; their other fields may hold anything.
Shape ==
    /\ DOMAIN cycle = CycleFields
    /\ DOMAIN directive = Slots
    /\ \A d \in Slots : DOMAIN directive[d] = DirectiveFields

Delivering == {"preparing", "resuming", "sending", "answered", "accepted"}

DeliveryLeased ==
    cycle.pc \in Delivering => cycle.slot \in Slots /\ directive[cycle.slot].status = "leased"

UnsentBefore ==
    cycle.pc \in {"preparing", "resuming"} => ~directive[cycle.slot].sent

BySupervisor(d) == Pending(d) /\ directive[d].kind \in {"continue", "verify"}

AloneWhileAligning == CycleAt("aligning") => ~\E d \in Slots : BySupervisor(d)

SupervisorInv ==
    /\ Shape
    /\ DeliveryLeased
    /\ UnsentBefore
    /\ AloneWhileAligning
    /\ NoReplay
    /\ OneSupervisorDirective

LEMMA InitInv == Init => SupervisorInv
  BY DEF Init, SupervisorInv, Shape, DeliveryLeased, UnsentBefore, AloneWhileAligning, NoReplay,
         OneSupervisorDirective, BySupervisor, Pending, CycleAt, Settled, Idle, CycleFields,
         DirectiveFields, Delivering

-----------------------------------------------------------------------------
(* Three ways in which a step leaves the invariant alone.                  *)

\* Neither the directives nor the place of the cycle change.
LEMMA Untouched == ASSUME SupervisorInv, UNCHANGED <<directive, cycle>> PROVE SupervisorInv'
  BY DEF SupervisorInv, Shape, DeliveryLeased, UnsentBefore, AloneWhileAligning, NoReplay,
         OneSupervisorDirective, BySupervisor, Pending, CycleAt

\* The cycle delivers nothing and aligns nothing after the step.
Resting == DOMAIN cycle = CycleFields /\ cycle.pc \notin Delivering \cup {"aligning"}

\* Row d is pending after the step only if it was, as what it was.
Fewer(d) ==
    /\ DOMAIN directive'[d] = DirectiveFields
    /\ directive'[d].status \in {"queued", "leased"} =>
           /\ directive'[d].status = directive[d].status
           /\ directive'[d].kind = directive[d].kind
           /\ directive'[d].sent = directive[d].sent

LEMMA FewerPending ==
    ASSUME SupervisorInv, DOMAIN directive' = Slots, \A d \in Slots : Fewer(d)
    PROVE  /\ NoReplay' /\ OneSupervisorDirective'
           /\ \A d \in Slots : BySupervisor(d)' => BySupervisor(d)
  BY DEF SupervisorInv, NoReplay, OneSupervisorDirective, BySupervisor, Pending, Fewer

LEMMA RestingStep ==
    ASSUME SupervisorInv, DOMAIN directive' = Slots, \A d \in Slots : Fewer(d), Resting'
    PROVE  SupervisorInv'
  <1>1. Shape'
    BY DEF Shape, Resting, Fewer
  <1>2. (DeliveryLeased /\ UnsentBefore /\ AloneWhileAligning)'
    BY DEF Resting, DeliveryLeased, UnsentBefore, AloneWhileAligning, CycleAt, Delivering
  <1> QED BY <1>1, <1>2, FewerPending DEF SupervisorInv

LEMMA SameRows ==
    ASSUME SupervisorInv, directive' = directive
    PROVE  DOMAIN directive' = Slots /\ \A d \in Slots : Fewer(d)
  BY DEF SupervisorInv, Shape, Fewer

\* The cycle stays where it is while rows it does not deliver are closed.
LEMMA AsideStep ==
    ASSUME SupervisorInv, UNCHANGED cycle, DOMAIN directive' = Slots, \A d \in Slots : Fewer(d),
           \A d \in Slots : directive[d].status = "leased" =>
               directive'[d].status = "leased" /\ directive'[d].sent = directive[d].sent
    PROVE  SupervisorInv'
  <1>1. Shape'
    BY DEF SupervisorInv, Shape, Fewer
  <1>2. DeliveryLeased' /\ UnsentBefore'
    BY DEF SupervisorInv, DeliveryLeased, UnsentBefore, Delivering
  <1>3. AloneWhileAligning'
    BY FewerPending DEF SupervisorInv, AloneWhileAligning, CycleAt
  <1> QED BY <1>1, <1>2, <1>3, FewerPending DEF SupervisorInv

-----------------------------------------------------------------------------
(* Where the cycle goes.                                                   *)

LEMMA ToDispatchRests == ToDispatch => Resting'
  BY DEF ToDispatch, Idle, Resting, CycleFields, Delivering

LEMMA AbortRests == Abort => Resting'
  BY DEF Abort, Idle, Resting, CycleFields, Delivering

LEMMA NextDeliveryRests == NextDelivery => Resting'
  BY DEF NextDelivery, Idle, Resting, CycleFields, Delivering

LEMMA AwaitRests ==
    ASSUME NEW pc, pc \notin Delivering \cup {"aligning"}, Await(pc) PROVE Resting'
  BY DEF Await, Idle, Resting, CycleFields

LEMMA CancelQueuedFewer ==
    ASSUME SupervisorInv, directive' = CancelQueued
    PROVE  /\ DOMAIN directive' = Slots /\ \A d \in Slots : Fewer(d)
           /\ \A d \in Slots : directive[d].status = "leased" => directive'[d] = directive[d]
  BY DEF SupervisorInv, Shape, CancelQueued, Fewer, Settled, DirectiveFields

LEMMA ExpiredUncertainFewer ==
    ASSUME SupervisorInv, directive' = ExpiredUncertain
    PROVE  DOMAIN directive' = Slots /\ \A d \in Slots : Fewer(d)
  BY DEF SupervisorInv, Shape, ExpiredUncertain, Fewer, DirectiveFields

LEMMA SettledFewer ==
    ASSUME SupervisorInv, Settle(Settled)
    PROVE  DOMAIN directive' = Slots /\ \A d \in Slots : Fewer(d)
  BY DEF SupervisorInv, Shape, Settle, Fewer, Settled, DirectiveFields

LEMMA MarkUncertainFewer ==
    ASSUME SupervisorInv, MarkUncertain
    PROVE  DOMAIN directive' = Slots /\ \A d \in Slots : Fewer(d)
  BY DEF SupervisorInv, Shape, MarkUncertain, Settle, Mine, Fewer, DirectiveFields

-----------------------------------------------------------------------------
(* The steps of the cycle that decide.                                     *)

Deciding ==
    \/ Snapshot \/ Defer \/ NothingToDo \/ WaitActive \/ RenewActiveLease \/ Wait
    \/ BeginPause \/ Pause \/ Finish \/ RetryInfrastructure \/ AlignFails \/ EndCycle \/ Crash

LEMMA DecidingStep == SupervisorInv /\ Deciding => SupervisorInv'
  <1> SUFFICES ASSUME SupervisorInv, Deciding PROVE SupervisorInv'
    OBVIOUS
  <1>1. CASE Snapshot
    <2>1. Resting'
      <3>1. CASE thread.mode = "managed"
        BY <1>1, <3>1 DEF Snapshot, Idle, Resting, CycleFields, Delivering
      <3>2. CASE thread.mode # "managed"
        BY <1>1, <3>2, ToDispatchRests DEF Snapshot
      <3> QED BY <3>1, <3>2
    <2> QED BY <1>1, <2>1, ExpiredUncertainFewer, RestingStep DEF Snapshot
  <1>2. CASE Pause
    BY <1>2, CancelQueuedFewer, ToDispatchRests, RestingStep DEF Pause
  <1>3. CASE Defer \/ NothingToDo \/ RenewActiveLease \/ RetryInfrastructure \/ AlignFails
    BY <1>3, SameRows, ToDispatchRests, RestingStep
       DEF Defer, NothingToDo, RenewActiveLease, RetryInfrastructure, AlignFails
  <1>4. CASE Wait \/ Finish
    BY <1>4, SameRows, ToDispatchRests, AbortRests, RestingStep DEF Wait, Finish
  <1>5. CASE WaitActive \/ BeginPause
    <2>1. Await("renewing") \/ Await("pausing")
      BY <1>5 DEF WaitActive, BeginPause
    <2>2. Resting'
      BY <2>1, AwaitRests DEF Delivering
    <2> QED BY <1>5, <2>2, SameRows, RestingStep DEF WaitActive, BeginPause
  <1>6. CASE EndCycle \/ Crash
    BY <1>6, SameRows, AbortRests, RestingStep DEF EndCycle, Crash, Abort
  <1> QED BY <1>1, <1>2, <1>3, <1>4, <1>5, <1>6 DEF Deciding

\* An alignment begins only when nothing is pending.
LEMMA BeginAlignStep == SupervisorInv /\ BeginAlign => SupervisorInv'
  <1> SUFFICES ASSUME SupervisorInv, BeginAlign PROVE SupervisorInv'
    OBVIOUS
  <1>1. directive' = directive /\ cycle.plan[ask] = "align"
    BY DEF BeginAlign, Decided
  <1>2. ~HasPending
    BY <1>1 DEF BeginAlign, Decided
  <1>3. DOMAIN cycle' = CycleFields /\ cycle'.pc = "aligning"
    BY DEF BeginAlign, Await, Idle, CycleFields
  <1>4. AloneWhileAligning'
    BY <1>1, <1>2 DEF AloneWhileAligning, BySupervisor, Pending, HasPending
  <1>5. (DeliveryLeased /\ UnsentBefore)'
    BY <1>3 DEF DeliveryLeased, UnsentBefore, Delivering
  <1> QED BY <1>1, <1>3, <1>4, <1>5
          DEF SupervisorInv, Shape, NoReplay, OneSupervisorDirective, BySupervisor, Pending

-----------------------------------------------------------------------------
(* What is added to the queue.                                             *)

\* An operator's directive is added while the cycle does anything at all: the
\* row it takes is not the one that is delivered.
LEMMA EnqueueOther ==
    ASSUME SupervisorInv, NEW d \in Slots, NEW k, NEW t, k \notin {"continue", "verify"},
           Enqueue(d, k, t), UNCHANGED cycle
    PROVE  SupervisorInv'
  <1>1. /\ DOMAIN directive' = Slots
        /\ directive'[d] = Queued(k, t)
        /\ \A e \in Slots \ {d} : directive'[e] = directive[e]
        /\ ~Pending(d)
    BY DEF Enqueue, SupervisorInv, Shape
  <1>2. Shape'
    BY <1>1 DEF SupervisorInv, Shape, Queued, DirectiveFields
  <1>3. DeliveryLeased' /\ UnsentBefore'
    BY <1>1 DEF SupervisorInv, DeliveryLeased, UnsentBefore, Pending, Delivering
  <1>4. NoReplay'
    BY <1>1 DEF SupervisorInv, NoReplay, Queued
  <1>5. \A e \in Slots : BySupervisor(e)' => BySupervisor(e)
    BY <1>1 DEF BySupervisor, Pending, Queued
  <1>6. OneSupervisorDirective' /\ AloneWhileAligning'
    BY <1>5 DEF SupervisorInv, OneSupervisorDirective, AloneWhileAligning, BySupervisor, CycleAt
  <1> QED BY <1>2, <1>3, <1>4, <1>6 DEF SupervisorInv

\* The supervisor's own directive is added when it has none.
LEMMA EnqueueOwn ==
    ASSUME SupervisorInv, NEW d \in Slots, NEW k, NEW t, Enqueue(d, k, t), ToDispatch,
           ~\E e \in Slots : BySupervisor(e)
    PROVE  SupervisorInv'
  <1>1. /\ DOMAIN directive' = Slots
        /\ directive'[d] = Queued(k, t)
        /\ \A e \in Slots \ {d} : directive'[e] = directive[e]
    BY DEF Enqueue, SupervisorInv, Shape
  <1>2. Resting'
    BY ToDispatchRests
  <1>3. Shape'
    BY <1>1, <1>2 DEF SupervisorInv, Shape, Queued, DirectiveFields, Resting
  <1>4. (DeliveryLeased /\ UnsentBefore /\ AloneWhileAligning)'
    BY <1>2 DEF Resting, DeliveryLeased, UnsentBefore, AloneWhileAligning, CycleAt, Delivering
  <1>5. NoReplay'
    BY <1>1 DEF SupervisorInv, NoReplay, Queued
  <1>6. \A e \in Slots \ {d} : ~BySupervisor(e)'
    BY <1>1 DEF BySupervisor, Pending
  <1>7. OneSupervisorDirective'
    BY <1>6 DEF OneSupervisorDirective, BySupervisor
  <1> QED BY <1>3, <1>4, <1>5, <1>7 DEF SupervisorInv

LEMMA EnqueueStep ==
    SupervisorInv /\ (Align \/ QueueDirective \/ ApplyDefaultedSuggestion) => SupervisorInv'
  <1> SUFFICES ASSUME SupervisorInv, Align \/ QueueDirective \/ ApplyDefaultedSuggestion
               PROVE  SupervisorInv'
    OBVIOUS
  <1>1. CASE Align
    BY <1>1, EnqueueOwn DEF Align, SupervisorInv, AloneWhileAligning
  <1>2. CASE QueueDirective
    <2>1. cycle.plan[ask] \in {"continue", "continue_alternative", "verify"}
      BY <1>2 DEF QueueDirective, Decided
    <2>2. ~HasPending
      BY <1>2, <2>1 DEF QueueDirective, Decided
    <2>3. ~\E e \in Slots : BySupervisor(e)
      BY <2>2 DEF HasPending, BySupervisor
    <2>4. PICK d \in Slots :
              Enqueue(d, IF cycle.plan[ask] = "verify" THEN "verify" ELSE "continue", NoTurn)
      BY <1>2 DEF QueueDirective
    <2> QED BY <1>2, <2>3, <2>4, EnqueueOwn DEF QueueDirective
  <1>3. CASE ApplyDefaultedSuggestion
    BY <1>3, EnqueueOther DEF ApplyDefaultedSuggestion
  <1> QED BY <1>1, <1>2, <1>3

-----------------------------------------------------------------------------
(* The delivery of one directive.                                          *)

LEMMA LeaseNextStep == ASSUME SupervisorInv, NEW d \in Slots, LeaseNext(d) PROVE SupervisorInv'
  <1>1. directive[d].status = "queued" /\ ~directive[d].sent
    BY DEF LeaseNext, Leasable, SupervisorInv, NoReplay
  <1>2. /\ DOMAIN directive' = Slots
        /\ DOMAIN directive'[d] = DirectiveFields
        /\ directive'[d].status = "leased"
        /\ directive'[d].kind = directive[d].kind
        /\ directive'[d].sent = directive[d].sent
        /\ \A e \in Slots \ {d} : directive'[e] = directive[e]
    BY DEF LeaseNext, SupervisorInv, Shape, DirectiveFields
  <1>3. DOMAIN cycle' = CycleFields /\ cycle'.pc = "preparing" /\ cycle'.slot = d
    BY DEF LeaseNext, SupervisorInv, Shape, CycleFields
  <1>4. Shape'
    BY <1>2, <1>3 DEF SupervisorInv, Shape
  <1>5. (DeliveryLeased /\ UnsentBefore /\ AloneWhileAligning)'
    BY <1>1, <1>2, <1>3 DEF DeliveryLeased, UnsentBefore, AloneWhileAligning, CycleAt
  <1>6. NoReplay'
    BY <1>2 DEF SupervisorInv, NoReplay
  <1>7. \A e \in Slots : BySupervisor(e)' => BySupervisor(e)
    BY <1>1, <1>2 DEF BySupervisor, Pending
  <1>8. OneSupervisorDirective'
    BY <1>7 DEF SupervisorInv, OneSupervisorDirective, BySupervisor
  <1> QED BY <1>4, <1>5, <1>6, <1>8 DEF SupervisorInv

\* The row being delivered goes back to the queue, unsent.
LEMMA RequeueStep ==
    ASSUME SupervisorInv, cycle.slot \in Slots, directive[cycle.slot].status = "leased",
           NEW r, Settle(r), DOMAIN r = DirectiveFields, r.status = "queued", ~r.sent,
           r.kind = Mine.kind, Resting'
    PROVE  SupervisorInv'
  <1>1. /\ DOMAIN directive' = Slots
        /\ directive'[cycle.slot] = r
        /\ \A e \in Slots \ {cycle.slot} : directive'[e] = directive[e]
    BY DEF Settle, SupervisorInv, Shape
  <1>2. Shape'
    BY <1>1 DEF SupervisorInv, Shape, Resting
  <1>3. (DeliveryLeased /\ UnsentBefore /\ AloneWhileAligning)'
    BY DEF Resting, DeliveryLeased, UnsentBefore, AloneWhileAligning, CycleAt, Delivering
  <1>4. NoReplay'
    BY <1>1 DEF SupervisorInv, NoReplay
  <1>5. \A e \in Slots : BySupervisor(e)' => BySupervisor(e)
    BY <1>1 DEF BySupervisor, Pending, Mine
  <1>6. OneSupervisorDirective'
    BY <1>5 DEF SupervisorInv, OneSupervisorDirective, BySupervisor
  <1> QED BY <1>2, <1>3, <1>4, <1>6 DEF SupervisorInv

LEMMA LeaseRefusedStep == SupervisorInv /\ LeaseRefused => SupervisorInv'
  <1> SUFFICES ASSUME SupervisorInv, LeaseRefused PROVE SupervisorInv'
    OBVIOUS
  <1> DEFINE r == [Mine EXCEPT !.status = "queued", !.due = FALSE]
  <1>1. cycle.slot \in Slots /\ Mine.status = "leased" /\ ~Mine.sent
    BY DEF LeaseRefused, CycleAt, SupervisorInv, DeliveryLeased, UnsentBefore, Delivering, Mine
  <1>2. DOMAIN Mine = DirectiveFields
    BY <1>1 DEF SupervisorInv, Shape, Mine
  <1>3. DOMAIN r = DirectiveFields /\ r.status = "queued" /\ ~r.sent /\ r.kind = Mine.kind
    BY <1>1, <1>2 DEF DirectiveFields
  <1>4. Settle(r) /\ Resting'
    BY NextDeliveryRests DEF LeaseRefused
  <1> QED BY <1>1, <1>3, <1>4, RequeueStep DEF Mine

LEMMA KnownFailureStep ==
    ASSUME SupervisorInv, cycle.pc \in Delivering, KnownFailure PROVE SupervisorInv'
  <1> DEFINE r == [Mine EXCEPT !.status = "queued", !.due = FALSE, !.sent = FALSE]
  <1>1. cycle.slot \in Slots /\ Mine.status = "leased"
    BY DEF SupervisorInv, DeliveryLeased, Mine
  <1>2. DOMAIN Mine = DirectiveFields
    BY <1>1 DEF SupervisorInv, Shape, Mine
  <1>3. DOMAIN r = DirectiveFields /\ r.status = "queued" /\ ~r.sent /\ r.kind = Mine.kind
    BY <1>2 DEF DirectiveFields
  <1>4. Resting'
    BY NextDeliveryRests DEF KnownFailure
  <1>5. CASE Mine.attempts < MaxAttempts
    BY <1>1, <1>3, <1>4, <1>5, RequeueStep DEF KnownFailure, Mine
  <1>6. CASE ~(Mine.attempts < MaxAttempts)
    BY <1>4, <1>6, SettledFewer, RestingStep DEF KnownFailure
  <1> QED BY <1>5, <1>6

\* The steps after which the delivery is over, its row settled or uncertain.
LEMMA OverStep ==
    SupervisorInv /\ (\/ WorkplaceGone \/ SendFails \/ DeliveryUnknown \/ DeliverySettled
                      \/ \E t \in Turns : StartUnseen(t)) => SupervisorInv'
  <1> SUFFICES ASSUME SupervisorInv,
                      \/ WorkplaceGone \/ SendFails \/ DeliveryUnknown \/ DeliverySettled
                      \/ \E t \in Turns : StartUnseen(t)
               PROVE  SupervisorInv'
    OBVIOUS
  <1>1. CASE WorkplaceGone
    BY <1>1, SettledFewer, NextDeliveryRests, AbortRests, RestingStep DEF WorkplaceGone
  <1>2. CASE DeliverySettled
    BY <1>2, SettledFewer, NextDeliveryRests, RestingStep DEF DeliverySettled
  <1>3. CASE MarkUncertain
    BY <1>3, MarkUncertainFewer, NextDeliveryRests, RestingStep DEF MarkUncertain
  <1> QED BY <1>1, <1>2, <1>3 DEF SendFails, DeliveryUnknown, StartUnseen

\* The delivery goes one step further; only SendDirective touches its row.
LEMMA FurtherStep ==
    ASSUME SupervisorInv, cycle.pc \in Delivering, DOMAIN cycle' = CycleFields,
           cycle'.slot = cycle.slot, cycle'.pc \in Delivering \ {"preparing"},
           directive' = directive,
           cycle'.pc = "resuming" => cycle.pc = "preparing"
    PROVE  SupervisorInv'
  <1>1. Shape' /\ DeliveryLeased' /\ UnsentBefore'
    BY DEF SupervisorInv, Shape, DeliveryLeased, UnsentBefore, Delivering
  <1>2. AloneWhileAligning'
    BY DEF AloneWhileAligning, CycleAt, Delivering
  <1> QED BY <1>1, <1>2, SameRows, FewerPending DEF SupervisorInv

LEMMA SendDirectiveStep == SupervisorInv /\ SendDirective => SupervisorInv'
  <1> SUFFICES ASSUME SupervisorInv, SendDirective PROVE SupervisorInv'
    OBVIOUS
  <1>1. cycle.slot \in Slots /\ Mine.status = "leased"
    BY DEF SendDirective, CycleAt, SupervisorInv, DeliveryLeased, Delivering, Mine
  <1>2. /\ DOMAIN directive' = Slots
        /\ DOMAIN directive'[cycle.slot] = DirectiveFields
        /\ directive'[cycle.slot].status = "leased"
        /\ directive'[cycle.slot].kind = directive[cycle.slot].kind
        /\ \A e \in Slots \ {cycle.slot} : directive'[e] = directive[e]
    BY <1>1 DEF SendDirective, Settle, Mine, SupervisorInv, Shape, DirectiveFields
  <1>3. DOMAIN cycle' = CycleFields /\ cycle'.pc = "sending" /\ cycle'.slot = cycle.slot
    BY DEF SendDirective, Goto, SupervisorInv, Shape, CycleFields
  <1>4. Shape'
    BY <1>2, <1>3 DEF SupervisorInv, Shape
  <1>5. (DeliveryLeased /\ UnsentBefore /\ AloneWhileAligning)'
    BY <1>1, <1>2, <1>3 DEF DeliveryLeased, UnsentBefore, AloneWhileAligning, CycleAt
  <1>6. NoReplay'
    BY <1>2 DEF SupervisorInv, NoReplay
  <1>7. \A e \in Slots : BySupervisor(e)' => BySupervisor(e)
    BY <1>1, <1>2 DEF BySupervisor, Pending, Mine
  <1>8. OneSupervisorDirective'
    BY <1>7 DEF SupervisorInv, OneSupervisorDirective, BySupervisor
  <1> QED BY <1>4, <1>5, <1>6, <1>8 DEF SupervisorInv

LEMMA DeliverStep ==
    ASSUME SupervisorInv,
           \/ EnsureLease \/ LeaseRefused \/ SendDirective \/ PreparationFails \/ DeliveryRefused
           \/ WorkplaceGone \/ SendFails \/ DeliveryUnknown \/ DeliverySettled \/ SteerAccepted
           \/ HandleResponse
           \/ \E t \in Turns : StartAccepted(t) \/ StartUnseen(t)
           \/ \E d \in Slots : LeaseNext(d)
    PROVE  SupervisorInv'
  <1>1. CASE EnsureLease
    <2>1. cycle.pc = "preparing" /\ directive' = directive
      BY <1>1 DEF EnsureLease, CycleAt
    <2>2. DOMAIN cycle' = CycleFields /\ cycle'.pc = "resuming" /\ cycle'.slot = cycle.slot
      BY <1>1 DEF EnsureLease, Goto, SupervisorInv, Shape, CycleFields
    <2> QED BY <2>1, <2>2, FurtherStep DEF Delivering
  <1>2. CASE SteerAccepted \/ \E t \in Turns : StartAccepted(t)
    <2>1. cycle.pc = "sending" /\ directive' = directive
      BY <1>2 DEF SteerAccepted, StartAccepted, CycleAt
    <2>2. DOMAIN cycle' = CycleFields /\ cycle'.pc = "answered" /\ cycle'.slot = cycle.slot
      BY <1>2 DEF SteerAccepted, StartAccepted, SupervisorInv, Shape, CycleFields
    <2> QED BY <2>1, <2>2, FurtherStep DEF Delivering
  <1>3. CASE HandleResponse
    <2>1. CASE UNCHANGED cycle
      BY <1>3, <2>1, Untouched DEF HandleResponse
    <2>2. CASE ~UNCHANGED cycle
      <3>1. cycle.pc = "answered" /\ directive' = directive /\ Goto("accepted")
        BY <1>3, <2>2 DEF HandleResponse, CycleAt
      <3>2. DOMAIN cycle' = CycleFields /\ cycle'.pc = "accepted" /\ cycle'.slot = cycle.slot
        BY <3>1 DEF Goto, SupervisorInv, Shape, CycleFields
      <3> QED BY <3>1, <3>2, FurtherStep DEF Delivering
    <2> QED BY <2>1, <2>2
  <1>4. CASE PreparationFails \/ DeliveryRefused
    BY <1>4, KnownFailureStep DEF PreparationFails, DeliveryRefused, CycleAt, Delivering
  <1> QED BY <1>1, <1>2, <1>3, <1>4, LeaseNextStep, LeaseRefusedStep, SendDirectiveStep, OverStep

-----------------------------------------------------------------------------
(* Everybody else.                                                         *)

\* Notifications, requests and the passing of time that leave the queue and
\* the cycle alone.
Elsewhere ==
    \/ HandleTurnStarted \/ HandleTurnCompleted \/ \E g \in Goals : HandleGoalUpdated(g)
    \/ \E s : UpdateAppStatus(s)
    \/ ManageThread \/ BeginPauseThread \/ BeginResumeThread \/ ResumeThread \/ OpFails
    \/ AnswerPauseOrResume \/ AnswerServerInteraction \/ ExpireInteraction \/ RaiseAgentInteraction
    \/ \E a \in ServerAsks : HandleServerRequest(a)
    \/ TurnEnds("completed") \/ \E o \in Outcomes : TurnEnds(o)
    \/ \E t \in Turns : DesktopTurn(t)
    \/ LimitReached \/ TurnTimeout \/ CooldownElapsed \/ LeaseExpires \/ Connect \/ Disconnect

LEMMA ElsewhereStep == SupervisorInv /\ Elsewhere => SupervisorInv'
  <1>1. Elsewhere => UNCHANGED <<directive, cycle>>
    BY DEF Elsewhere, HandleTurnStarted, HandleTurnCompleted, HandleGoalUpdated, UpdateAppStatus,
           ManageThread, BeginPauseThread, BeginResumeThread, ResumeThread, OpFails,
           AnswerPauseOrResume, AnswerServerInteraction, ExpireInteraction,
           RaiseAgentInteraction, HandleServerRequest, TurnEnds, DesktopTurn,
           LimitReached, TurnTimeout, CooldownElapsed, LeaseExpires, Connect, Disconnect
  <1> QED BY <1>1, Untouched

\* Cancelling what is queued and letting time pass do not touch the delivery.
LEMMA AsideSteps ==
    ASSUME SupervisorInv,
           \/ PauseThread \/ \E latest \in BOOLEAN : StopManaging(latest)
           \/ \E d \in Slots : DirectiveDue(d)
    PROVE  SupervisorInv'
  <1>1. CASE PauseThread \/ \E latest \in BOOLEAN : StopManaging(latest)
    BY <1>1, CancelQueuedFewer, AsideStep DEF PauseThread, StopManaging
  <1>2. CASE \E d \in Slots : DirectiveDue(d)
    <2>1. PICK d \in Slots : DirectiveDue(d)
      BY <1>2
    <2>2. /\ DOMAIN directive' = Slots
          /\ \A e \in Slots : /\ DOMAIN directive'[e] = DirectiveFields
                             /\ directive'[e].status = directive[e].status
                             /\ directive'[e].kind = directive[e].kind
                             /\ directive'[e].sent = directive[e].sent
      BY <2>1 DEF DirectiveDue, SupervisorInv, Shape, DirectiveFields
    <2> QED BY <2>1, <2>2, AsideStep DEF DirectiveDue, Fewer
  <1> QED BY <1>1, <1>2

LEMMA InstructionStep ==
    SupervisorInv /\ (\E d \in Slots : SendInstruction(d) \/ AnswerChoice(d)) => SupervisorInv'
  <1> SUFFICES ASSUME SupervisorInv, NEW d \in Slots, SendInstruction(d) \/ AnswerChoice(d)
               PROVE  SupervisorInv'
    OBVIOUS
  <1>1. CASE SendInstruction(d)
    BY <1>1, EnqueueOther DEF SendInstruction
  <1>2. CASE AnswerChoice(d)
    BY <1>2, EnqueueOther DEF AnswerChoice
  <1> QED BY <1>1, <1>2

LEMMA ProgressStep == SupervisorInv /\ Progress => SupervisorInv'
  <1> SUFFICES ASSUME SupervisorInv, Progress PROVE SupervisorInv'
    OBVIOUS
  <1>1. CASE Reconcile \/ Deliver \/ Answer
    BY <1>1, DecidingStep, BeginAlignStep, EnqueueStep, DeliverStep
       DEF Reconcile, Deliver, Answer, Deciding
  <1>2. CASE Operate \/ Elapse \/ Observe \/ Connect \/ TurnEnds("completed")
    BY <1>2, ElsewhereStep, AsideSteps DEF Operate, Elapse, Observe, Elsewhere
  <1>3. CASE Fail \/ Lose
    BY <1>3, DecidingStep, DeliverStep, ElsewhereStep DEF Fail, Lose, Deciding, Elsewhere
  <1> QED BY <1>1, <1>2, <1>3 DEF Progress

LEMMA DisturbStep == SupervisorInv /\ Disturb => SupervisorInv'
  <1> SUFFICES ASSUME SupervisorInv, Disturb PROVE SupervisorInv'
    OBVIOUS
  <1>1. CASE Elsewhere
    BY <1>1, ElsewhereStep
  <1>2. CASE \/ \E d \in Slots : SendInstruction(d) \/ AnswerChoice(d)
             \/ \E latest \in BOOLEAN : StopManaging(latest)
    BY <1>2, InstructionStep, AsideSteps
  <1>3. CASE ApplyDefaultedSuggestion \/ AlignFails \/ Crash
    BY <1>3, EnqueueStep, DecidingStep DEF Deciding
  <1>4. CASE WorkplaceGone \/ LeaseRefused \/ PreparationFails \/ DeliveryRefused \/ Lose \/ SendFails
    BY <1>4, DeliverStep DEF Lose
  <1> QED BY <1>1, <1>2, <1>3, <1>4 DEF Disturb, Fail, Elsewhere

LEMMA NextInv == SupervisorInv /\ [Next]_vars => SupervisorInv'
  <1> SUFFICES ASSUME SupervisorInv, [Next]_vars PROVE SupervisorInv'
    OBVIOUS
  <1>1. CASE UNCHANGED vars
    BY <1>1, Untouched DEF vars
  <1>2. CASE DeliverySettled \/ Hear
    BY <1>2, DeliverStep, ElsewhereStep DEF Hear, Elsewhere
  <1> QED BY <1>1, <1>2, ProgressStep, DisturbStep DEF Next

-----------------------------------------------------------------------------
(* The theorems.                                                           *)

\* The inductive invariant of the cycle and its queue.
LEMMA SupervisorInvariant == Spec => []SupervisorInv
  BY InitInv, NextInv, PTL DEF Spec

\* A directive whose request may have taken effect is never queued again,
\* whatever is retried, disconnected or restarted.
THEOREM NeverReplayed == Spec => []NoReplay
  <1>1. SupervisorInv => NoReplay
    BY DEF SupervisorInv
  <1> QED BY <1>1, SupervisorInvariant, PTL

\* The supervisor has at most one directive of its own under way.
THEOREM NeverTwoOwnDirectives == Spec => []OneSupervisorDirective
  <1>1. SupervisorInv => OneSupervisorDirective
    BY DEF SupervisorInv
  <1> QED BY <1>1, SupervisorInvariant, PTL

-----------------------------------------------------------------------------
(* The verdicts: what evaluateCodexThread says of a row and a question.    *)

\* A set of naturals that is not empty has a least element.
LEMMA LeastExists ==
    ASSUME NEW S \in SUBSET Nat, S # {}
    PROVE  \E s \in S : \A x \in S : s <= x
<1>1. PICK s \in S : \A x \in S : ~(<<x, s>> \in OpToRel(<, Nat))
  BY WFMin, NatLessThanWellFounded, Zenon
<1>2. \A x \in S : ~(x < s)
  BY <1>1 DEF OpToRel
<1>3. QED
  BY <1>2

\* The rule that decides holds, and none before it does.
LEMMA FirstRule ==
    ASSUME NEW t, NEW a
    PROVE  /\ Decide(t, a) \in 1..20
           /\ Rules(t, a)[Decide(t, a)][1]
           /\ \A j \in 1..20 : j < Decide(t, a) => ~Rules(t, a)[j][1]
<1> DEFINE R == Rules(t, a)
           I == {i \in 1..Len(R) : R[i][1]}
<1>1. I = {i \in 1..20 : R[i][1]} /\ R[20][1]
  <2>1. Len(R) = 20 /\ R[20][1]
    BY DEF Rules
  <2>2. QED
    BY <2>1
<1>2. Decide(t, a) = IF I # {} THEN Min(I) ELSE 0
  BY DEF Decide, SelectInSeq
<1> HIDE DEF R
<1>3. 20 \in I
  BY <1>1
<1>4. Decide(t, a) = CHOOSE x \in I : \A y \in I : x =< y
  BY <1>2, <1>3 DEF Min
<1>5. \E s \in I : \A x \in I : s <= x
  <2>1. I \in SUBSET Nat /\ I # {}
    BY <1>1, <1>3
  <2> HIDE DEF I
  <2>2. QED
    BY <2>1, LeastExists
<1>6. Decide(t, a) \in I /\ \A y \in I : Decide(t, a) =< y
  BY <1>4, <1>5
<1>7. Decide(t, a) \in 1..20 /\ R[Decide(t, a)][1] /\ \A j \in 1..20 : R[j][1] => Decide(t, a) =< j
  BY <1>1, <1>6
<1>8. \A j \in 1..20 : j < Decide(t, a) => ~R[j][1]
  BY <1>7
<1>9. QED
  BY <1>7, <1>8, Zenon DEF R

LEMMA Decisive ==
    ASSUME NEW t, NEW a \in Asks
    PROVE  /\ evaluateCodexThread(t, a) \in Decisions
           /\ evaluateCodexThread(t, a) = "complete" =>
                  /\ t.mode = "managed" /\ t.goal = "complete" /\ t.turn = NoTurn
                  /\ Verified(t) /\ a = "none"
           /\ evaluateCodexThread(t, a) = "fail" =>
                  \/ ~(t.infra < MaxInfra)
                  \/ t.last = "failed" /\ ~(t.strategy < MaxStrategy) /\ t.turn = NoTurn
           /\ evaluateCodexThread(t, a) = "retry_infrastructure" => t.infra < MaxInfra
           /\ evaluateCodexThread(t, a) = "continue_alternative" => t.strategy < MaxStrategy
<1> DEFINE D == Decide(t, a)
<1>1. /\ D \in 1..20
      /\ Rules(t, a)[D][1]
      /\ \A j \in 1..20 : j < D => ~Rules(t, a)[j][1]
  BY FirstRule
<1> HIDE DEF D
<1>2. evaluateCodexThread(t, a) = Rules(t, a)[D][2]
  BY DEF evaluateCodexThread, D
<1>3. QED
  BY <1>1, <1>2, SMTT(60) DEF Rules, Decisions, Asks, ServerAsks
-----------------------------------------------------------------------------
(* The invariant of types and verdicts.                                    *)

Frames == [type: {"response", "started", "completed"}, turn: Turns,
           status: {"inProgress", "completed", "failed", "interrupted"}]

CycleTypes == [pc: Pcs, plan: [Asks -> Decisions], infra: 0..MaxInfra + 1,
               strategy: 0..MaxStrategy, left: 0..2, slot: Slots \cup {NoSlot},
               turn: TurnOrNone]

\* TypeOK but for the count of disturbances, which only Next touches.
BodyOK ==
    /\ thread \in Threads
    /\ current \subseteq Holders
    /\ directive \in [Slots -> Directives]
    /\ ask \in Asks
    /\ cycle \in CycleTypes
    /\ op \in {"none", "pause", "resume"}
    /\ pair \in {"none", "held", "stale"}
    /\ link \in BOOLEAN
    /\ server \in TurnOrNone
    /\ inbox \in Seq(Frames)

Completes(t) == t.mode = "managed" /\ t.goal = "complete" /\ t.turn = NoTurn /\ Verified(t)

GivesUp(t) ==
    \/ t.infra >= MaxInfra
    \/ t.last = "failed" /\ t.strategy = MaxStrategy /\ t.turn = NoTurn

\* What the plan of the page still says of the row, if the row is the one that
\* was read; the counters are those of the page in any case.
PlanInv ==
    CycleAt("seen") => \A a \in Asks :
        /\ cycle.plan[a] = "retry_infrastructure" => cycle.infra < MaxInfra
        /\ cycle.plan[a] = "continue_alternative" => cycle.strategy < MaxStrategy
        /\ cycle.plan[a] = "complete" /\ Fresh("cycle") => Completes(thread) /\ a = "none"
        /\ cycle.plan[a] = "fail" /\ Fresh("cycle") => GivesUp(thread)

LeftInv == cycle.pc \in Delivering => cycle.left >= 1

SteerInv == \A d \in Slots : directive[d].kind = "steer" => directive[d].target \in Turns

TypesInv == BodyOK /\ PlanInv /\ LeftInv /\ SteerInv

\* What a step may write into the row as the end of the supervision.
Judged ==
    /\ thread.phase # "completed" /\ thread'.phase = "completed" => Completes(thread) /\ ask = "none"
    /\ thread.phase # "failed" /\ thread'.phase = "failed" => GivesUp(thread)

-----------------------------------------------------------------------------
(* Where the cycle and the queue go.                                       *)

LEMMA CycleMoves ==
    ASSUME TypesInv
    PROVE  /\ Idle \in CycleTypes /\ Idle.pc = "idle"
           /\ ToDispatch => cycle' \in CycleTypes /\ cycle'.pc = "dispatch"
           /\ Abort => cycle' \in CycleTypes /\ cycle'.pc = "idle"
           /\ NextDelivery /\ cycle.pc \in Delivering => cycle' \in CycleTypes /\ cycle'.pc = "dispatch"
           /\ \A pc \in Pcs : Await(pc) => cycle' \in CycleTypes /\ cycle'.pc = pc
<1>1. Idle \in CycleTypes /\ Idle.pc = "idle"
  BY SupervisorAssumption DEF Idle, CycleTypes, Pcs, Decisions, TurnOrNone
<1>2. ToDispatch => cycle' \in CycleTypes /\ cycle'.pc = "dispatch"
  <2>1. "dispatch" \in Pcs /\ 2 \in 0..2
    BY DEF Pcs
  <2>2. QED
    BY <1>1, <2>1 DEF ToDispatch, CycleTypes
<1>3. Abort => cycle' \in CycleTypes /\ cycle'.pc = "idle"
  BY <1>1 DEF Abort
<1>4. NextDelivery /\ cycle.pc \in Delivering => cycle' \in CycleTypes /\ cycle'.pc = "dispatch"
  <2>1. cycle.pc \in Delivering => cycle.left - 1 \in 0..2
    BY DEF TypesInv, BodyOK, LeftInv, CycleTypes
  <2>2. QED
    BY <1>1, <2>1 DEF NextDelivery, CycleTypes, Pcs
<1>5. ASSUME NEW pc \in Pcs, Await(pc)
      PROVE  cycle' \in CycleTypes /\ cycle'.pc = pc
  <2> DEFINE s == IF pc = "aligning" THEN cycle.strategy ELSE 0
  <2>1. s \in 0..MaxStrategy
    BY SupervisorAssumption DEF TypesInv, BodyOK, CycleTypes
  <2>2. cycle' = [Idle EXCEPT !.pc = pc, !.strategy = s]
    BY <1>5 DEF Await
  <2> HIDE DEF s
  <2>3. QED
    BY <1>1, <2>1, <2>2 DEF CycleTypes
<1>6. QED
  BY <1>1, <1>2, <1>3, <1>4, <1>5

LEMMA RecordTypes ==
    /\ Settled \in Directives /\ Settled.kind # "steer"
    /\ \A k \in Kinds, t \in TurnOrNone :
           Queued(k, t) \in Directives /\ Queued(k, t).kind = k /\ Queued(k, t).target = t
  BY SupervisorAssumption DEF Settled, Queued, Directives, Kinds, TurnOrNone

LEMMA QueueMoves ==
    ASSUME TypesInv
    PROVE  /\ \A r \in Directives, d \in Slots :
                  /\ directive' = [directive EXCEPT ![d] = r]
                  /\ r.kind = "steer" => r.target \in Turns
                  => directive' \in [Slots -> Directives] /\ SteerInv'
           /\ directive' = directive \/ directive' = CancelQueued \/ directive' = ExpiredUncertain
                  => directive' \in [Slots -> Directives] /\ SteerInv'
<1>1. ASSUME NEW r \in Directives, NEW d \in Slots, directive' = [directive EXCEPT ![d] = r],
             r.kind = "steer" => r.target \in Turns
      PROVE  directive' \in [Slots -> Directives] /\ SteerInv'
  BY <1>1 DEF TypesInv, BodyOK, SteerInv
<1>2. CASE directive' = directive
  BY <1>2 DEF TypesInv, BodyOK, SteerInv
<1>3. CASE directive' = CancelQueued
  BY <1>3, RecordTypes DEF TypesInv, BodyOK, SteerInv, CancelQueued
<1>4. CASE directive' = ExpiredUncertain
  <2>1. \A d \in Slots : /\ [directive[d] EXCEPT !.status = "uncertain"] \in Directives
                         /\ [directive[d] EXCEPT !.status = "uncertain"].kind = directive[d].kind
                         /\ [directive[d] EXCEPT !.status = "uncertain"].target = directive[d].target
    BY DEF TypesInv, BodyOK, Directives
  <2>2. QED
    BY <1>4, <2>1 DEF TypesInv, BodyOK, SteerInv, ExpiredUncertain
<1>5. QED
  BY <1>1, <1>2, <1>3, <1>4

\* The plan of the page is gone, or it stays and so does what it says: the row
\* is as it was but for what time does to it, or it is no longer current.
LEMMA PlanKept ==
    ASSUME TypesInv, thread' \in Threads,
           \/ cycle'.pc # "seen"
           \/ /\ cycle' = cycle
              /\ \/ "cycle" \notin current'
                 \/ /\ "cycle" \in current' => "cycle" \in current
                    /\ \A f \in {"mode", "phase", "goal", "turn", "last", "infra", "strategy"} :
                           thread'[f] = thread[f]
    PROVE  PlanInv'
<1>1. CASE cycle'.pc # "seen"
  BY <1>1 DEF PlanInv, CycleAt
<1>2. CASE cycle' = cycle /\ "cycle" \notin current'
  BY <1>2 DEF TypesInv, PlanInv, CycleAt, Fresh
<1>3. CASE /\ cycle' = cycle /\ ("cycle" \in current' => "cycle" \in current)
           /\ \A f \in {"mode", "phase", "goal", "turn", "last", "infra", "strategy"} :
                  thread'[f] = thread[f]
  <2>1. /\ thread'.mode = thread.mode /\ thread'.phase = thread.phase /\ thread'.goal = thread.goal
        /\ thread'.turn = thread.turn /\ thread'.last = thread.last /\ thread'.infra = thread.infra
        /\ thread'.strategy = thread.strategy
    BY <1>3
  <2>2. /\ Completes(thread) => Completes(thread')
        /\ GivesUp(thread) => GivesUp(thread')
    BY <2>1 DEF Completes, GivesUp, Verified
  <2>3. QED
    BY <1>3, <2>2 DEF TypesInv, PlanInv, CycleAt, Fresh
<1>4. QED
  BY <1>1, <1>2, <1>3

Sound == TypesInv' /\ Judged

\* Everything but the cycle has its type after the step.
OthersOK ==
    /\ thread \in Threads /\ current \subseteq Holders
    /\ directive \in [Slots -> Directives] /\ SteerInv
    /\ ask \in Asks /\ op \in {"none", "pause", "resume"} /\ pair \in {"none", "held", "stale"}
    /\ link \in BOOLEAN /\ server \in TurnOrNone /\ inbox \in Seq(Frames)

LEMMA OthersNow == ASSUME TypesInv PROVE OthersOK
  BY DEF TypesInv, BodyOK, OthersOK

LEMMA CycleGoes ==
    ASSUME TypesInv, OthersOK', Judged, cycle' \in CycleTypes, cycle'.pc # "seen",
           cycle'.pc \in Delivering => cycle'.left >= 1
    PROVE  Sound
  BY PlanKept DEF Sound, TypesInv, BodyOK, OthersOK, LeftInv

LEMMA CycleRests ==
    ASSUME TypesInv, OthersOK', Judged, ToDispatch \/ Abort \/ (NextDelivery /\ cycle.pc \in Delivering)
    PROVE  Sound
<1>1. cycle' \in CycleTypes /\ cycle'.pc \in {"dispatch", "idle"}
  BY CycleMoves
<1>2. QED
  BY <1>1, CycleGoes DEF Delivering

LEMMA CycleStays ==
    ASSUME TypesInv, OthersOK', Judged, cycle' = cycle,
           \/ "cycle" \notin current'
           \/ /\ "cycle" \in current' => "cycle" \in current
              /\ \A f \in {"mode", "phase", "goal", "turn", "last", "infra", "strategy"} :
                     thread'[f] = thread[f]
    PROVE  Sound
  BY PlanKept DEF Sound, TypesInv, BodyOK, OthersOK, LeftInv

LEMMA SameRow == thread' = thread => Judged
  BY DEF Judged

-----------------------------------------------------------------------------
(* The steps of the cycle.                                                 *)

LEMMA SnapshotSound == ASSUME TypesInv, Snapshot PROVE Sound
<1>1. OthersOK' /\ Judged
  BY OthersNow, QueueMoves, SameRow DEF Snapshot, OthersOK, Hold, Holders
<1>2. CASE thread.mode # "managed"
  BY <1>1, <1>2, CycleRests DEF Snapshot
<1>3. CASE thread.mode = "managed"
  <2> DEFINE plan == [a \in Asks |-> evaluateCodexThread(thread, a)]
  <2>1. /\ cycle' = [Idle EXCEPT !.pc = "seen", !.plan = plan,
                                 !.infra = thread.infra, !.strategy = thread.strategy]
        /\ thread' = thread
    BY <1>3 DEF Snapshot
  <2>2. plan \in [Asks -> Decisions] /\ \A a \in Asks : plan[a] = evaluateCodexThread(thread, a)
    BY Decisive
  <2> HIDE DEF plan
  <2>3. thread.infra \in 0..MaxInfra + 1 /\ thread.strategy \in 0..MaxStrategy /\ "seen" \in Pcs
    BY DEF TypesInv, BodyOK, Threads, Pcs
  <2>4. /\ cycle' \in CycleTypes /\ cycle'.pc = "seen" /\ cycle'.plan = plan
        /\ cycle'.infra = thread.infra /\ cycle'.strategy = thread.strategy
    BY <2>1, <2>2, <2>3, CycleMoves DEF CycleTypes
  <2>5. LeftInv'
    BY <2>4 DEF LeftInv, Delivering
  <2>6. PlanInv'
    <3> SUFFICES ASSUME NEW a \in Asks
                 PROVE  /\ plan[a] = "retry_infrastructure" => thread.infra < MaxInfra
                        /\ plan[a] = "continue_alternative" => thread.strategy < MaxStrategy
                        /\ plan[a] = "complete" => Completes(thread) /\ a = "none"
                        /\ plan[a] = "fail" => GivesUp(thread)
      BY <2>1, <2>4 DEF PlanInv
    <3>1. /\ plan[a] = "retry_infrastructure" => thread.infra < MaxInfra
          /\ plan[a] = "continue_alternative" => thread.strategy < MaxStrategy
      BY <2>2, Decisive
    <3>2. plan[a] = "complete" => Completes(thread) /\ a = "none"
      BY <2>2, Decisive DEF Completes
    <3>3. plan[a] = "fail" => GivesUp(thread)
      <4>1. ~(thread.infra < MaxInfra) => thread.infra >= MaxInfra
        BY <2>3, SupervisorAssumption
      <4>2. ~(thread.strategy < MaxStrategy) => thread.strategy = MaxStrategy
        BY <2>3, SupervisorAssumption
      <4>3. QED
        BY <2>2, <4>1, <4>2, Decisive DEF GivesUp
    <3>4. QED
      BY <3>1, <3>2, <3>3
  <2>7. QED
    BY <1>1, <2>4, <2>5, <2>6 DEF Sound, TypesInv, BodyOK, OthersOK
<1>4. QED
  BY <1>2, <1>3

\* The row and the queue are left alone.
LEMMA IdleStepsSound ==
    ASSUME TypesInv,
           Defer \/ NothingToDo \/ WaitActive \/ RenewActiveLease \/ BeginPause \/ BeginAlign \/ EndCycle
    PROVE  Sound
<1>1. /\ thread' = thread /\ directive' = directive
      /\ UNCHANGED <<ask, op, link, server, inbox>> /\ current' \subseteq current
      /\ pair' \in {"none", "held", "stale"}
  BY DEF TypesInv, BodyOK, Defer, NothingToDo, WaitActive, RenewActiveLease, BeginPause, BeginAlign,
         EndCycle, Drop, Ensured
<1>2. OthersOK' /\ Judged
  BY <1>1, OthersNow, QueueMoves, SameRow DEF OthersOK
<1>3. CASE Defer \/ NothingToDo \/ RenewActiveLease \/ EndCycle
  BY <1>2, <1>3, CycleRests DEF Defer, NothingToDo, RenewActiveLease, EndCycle, Abort
<1>4. CASE WaitActive \/ BeginPause \/ BeginAlign
  <2>1. PICK pc \in {"renewing", "pausing", "aligning"} : Await(pc)
    BY <1>4 DEF WaitActive, BeginPause, BeginAlign
  <2>2. cycle' \in CycleTypes /\ cycle'.pc = pc
    BY <2>1, CycleMoves DEF Pcs
  <2>3. QED
    BY <1>2, <2>2, CycleGoes DEF Delivering
<1>5. QED
  BY <1>3, <1>4

LEMMA WaitSound == ASSUME TypesInv, Wait PROVE Sound
<1>1. WaitPhase \in {"waiting_approval", "waiting_decision"}
  BY DEF WaitPhase
<1>2. thread' \in Threads /\ current' \subseteq Holders /\ Judged
  BY <1>1 DEF Wait, Write, TypesInv, BodyOK, Threads, Phases, Judged
<1>3. OthersOK'
  BY <1>2, OthersNow, QueueMoves DEF Wait, OthersOK, Asks
<1>4. QED
  BY <1>2, <1>3, CycleRests DEF Wait

LEMMA PauseSound == ASSUME TypesInv, Pause PROVE Sound
<1>1. thread' \in Threads /\ current' \subseteq Holders /\ Judged
  BY DEF Pause, Write, TypesInv, BodyOK, Threads, Phases, Judged
<1>2. OthersOK'
  BY <1>1, OthersNow, QueueMoves DEF Pause, OthersOK
<1>3. QED
  BY <1>1, <1>2, CycleRests DEF Pause

\* The verdict is written over the row it was passed on.
LEMMA FinishSound == ASSUME TypesInv, Finish PROVE Sound
<1>1. CycleAt("seen") /\ cycle.plan[ask] \in {"fail", "complete"} /\ ask \in Asks
  BY DEF Finish, Decided, TypesInv, BodyOK
<1>2. thread' \in Threads /\ current' \subseteq Holders
  BY DEF Finish, Write, TypesInv, BodyOK, Threads, Phases
<1>3. Judged
  <2>1. CASE Fresh("cycle")
    <3>1. thread'.phase = IF cycle.plan[ask] = "fail" THEN "failed" ELSE "completed"
      BY <2>1 DEF Finish, Write, TypesInv, BodyOK, Threads
    <3>2. /\ cycle.plan[ask] = "complete" => Completes(thread) /\ ask = "none"
          /\ cycle.plan[ask] = "fail" => GivesUp(thread)
      BY <1>1, <2>1 DEF TypesInv, PlanInv
    <3>3. QED
      BY <1>1, <3>1, <3>2 DEF Judged
  <2>2. CASE ~Fresh("cycle")
    BY <2>2, SameRow DEF Finish
  <2>3. QED
    BY <2>1, <2>2
<1>4. OthersOK'
  BY <1>2, OthersNow, QueueMoves DEF Finish, OthersOK
<1>5. QED
  BY <1>3, <1>4, CycleRests DEF Finish

\* The retries are used up before the thread is failed for them.
LEMMA RetryWrites ==
    ASSUME TypesInv, NEW n \in 0..MaxInfra + 1, ScheduleRetry(n), n < MaxInfra \/ n = thread.infra
    PROVE  /\ thread' \in Threads /\ current' \subseteq Holders /\ pair' \in {"none", "held", "stale"}
           /\ Judged
<1>1. CASE n < MaxInfra
  <2>1. n + 1 \in 0..MaxInfra + 1
    BY <1>1, SupervisorAssumption
  <2>2. /\ thread' = [thread EXCEPT !.phase = "retry_wait", !.infra = n + 1, !.cooling = TRUE]
        /\ current' = {} /\ pair' = pair
    BY <1>1 DEF ScheduleRetry, Write
  <2>3. QED
    BY <2>1, <2>2 DEF TypesInv, BodyOK, Threads, Phases, Judged
<1>2. CASE ~(n < MaxInfra)
  <2>1. n >= MaxInfra /\ MaxInfra + 1 \in 0..MaxInfra + 1 /\ n = thread.infra
    BY <1>2, SupervisorAssumption
  <2>2. /\ thread' = [thread EXCEPT !.phase = "failed", !.infra = MaxInfra + 1]
        /\ current' = {} /\ pair' = "none"
    BY <1>2 DEF ScheduleRetry, Write
  <2>3. QED
    BY <2>1, <2>2 DEF TypesInv, BodyOK, Threads, Phases, Judged, GivesUp
<1>3. QED
  BY <1>1, <1>2

LEMMA RetrySound == ASSUME TypesInv, RetryInfrastructure \/ AlignFails PROVE Sound
<1>1. thread' \in Threads /\ current' \subseteq Holders /\ pair' \in {"none", "held", "stale"} /\ Judged
  <2>1. CASE RetryInfrastructure
    <3>1. CycleAt("seen") /\ cycle.plan[ask] = "retry_infrastructure" /\ ask \in Asks
      BY <2>1 DEF RetryInfrastructure, Decided, TypesInv, BodyOK
    <3>2. cycle.infra \in 0..MaxInfra + 1 /\ cycle.infra < MaxInfra
      BY <3>1 DEF TypesInv, BodyOK, CycleTypes, PlanInv
    <3>3. QED
      BY <2>1, <3>2, RetryWrites DEF RetryInfrastructure
  <2>2. CASE AlignFails
    <3>1. thread.infra \in 0..MaxInfra + 1
      BY DEF TypesInv, BodyOK, Threads
    <3>2. QED
      BY <2>2, <3>1, RetryWrites DEF AlignFails
  <2>3. QED
    BY <2>1, <2>2
<1>2. OthersOK'
  BY <1>1, OthersNow, QueueMoves DEF RetryInfrastructure, AlignFails, OthersOK
<1>3. QED
  BY <1>1, <1>2, CycleRests DEF RetryInfrastructure, AlignFails

LEMMA Enqueued ==
    ASSUME TypesInv, NEW d \in Slots, NEW k \in Kinds, NEW t \in TurnOrNone, Enqueue(d, k, t),
           k = "steer" => t \in Turns
    PROVE  directive' \in [Slots -> Directives] /\ SteerInv'
  BY RecordTypes, QueueMoves DEF Enqueue

LEMMA AlignSound == ASSUME TypesInv, Align PROVE Sound
<1>1. cycle.strategy \in 0..MaxStrategy
  BY DEF TypesInv, BodyOK, CycleTypes
<1>2. thread' \in Threads /\ current' \subseteq Holders /\ Judged
  <2>1. 0 \in 0..MaxInfra + 1
    BY SupervisorAssumption
  <2>2. /\ thread' = [thread EXCEPT !.phase = "executing", !.goal = "active", !.last = "none",
                                    !.infra = 0, !.cooling = FALSE, !.strategy = cycle.strategy]
        /\ current' = {}
    BY DEF Align, Write
  <2>3. QED
    BY <1>1, <2>1, <2>2 DEF TypesInv, BodyOK, Threads, Phases, Judged
<1>3. directive' \in [Slots -> Directives] /\ SteerInv'
  BY Enqueued DEF Align, Kinds, TurnOrNone
<1>4. OthersOK'
  BY <1>2, <1>3, OthersNow DEF Align, OthersOK
<1>5. QED
  BY <1>2, <1>4, CycleRests DEF Align

LEMMA QueueSound == ASSUME TypesInv, QueueDirective PROVE Sound
<1> DEFINE action == cycle.plan[ask]
           s == IF action = "continue_alternative" THEN cycle.strategy + 1 ELSE cycle.strategy
           p == IF action = "verify" THEN "verifying" ELSE "executing"
           k == IF action = "verify" THEN "verify" ELSE "continue"
<1>1. CycleAt("seen") /\ ask \in Asks /\ cycle.strategy \in 0..MaxStrategy
  BY DEF QueueDirective, Decided, TypesInv, BodyOK, CycleTypes
<1>2. action = "continue_alternative" => cycle.strategy < MaxStrategy
  BY <1>1 DEF TypesInv, PlanInv
<1>3. s \in 0..MaxStrategy /\ p \in {"verifying", "executing"} /\ k \in {"verify", "continue"}
  BY <1>1, <1>2, SupervisorAssumption
<1>4. /\ \E d \in Slots : Enqueue(d, k, NoTurn)
      /\ thread' = [thread EXCEPT !.phase = p, !.strategy = s, !.last = "none"]
      /\ current' = {}
  BY DEF QueueDirective, Write
<1> HIDE DEF s, p, k
<1>5. thread' \in Threads /\ current' \subseteq Holders /\ Judged
  BY <1>3, <1>4 DEF TypesInv, BodyOK, Threads, Phases, Judged
<1>6. directive' \in [Slots -> Directives] /\ SteerInv'
  BY <1>3, <1>4, Enqueued DEF Kinds, TurnOrNone
<1>7. OthersOK'
  BY <1>5, <1>6, OthersNow DEF QueueDirective, OthersOK
<1>8. QED
  BY <1>5, <1>7, CycleRests DEF QueueDirective

LEMMA CrashSound == ASSUME TypesInv, Crash PROVE Sound
<1>1. /\ current' = {} /\ inbox' = << >> /\ op' = "none" /\ pair' = "none" /\ link' = FALSE
      /\ UNCHANGED <<thread, directive, ask, server>>
  BY DEF Crash
<1>2. directive' \in [Slots -> Directives] /\ SteerInv' /\ Judged
  BY <1>1, QueueMoves, SameRow
<1>3. thread' \in Threads /\ current' \subseteq Holders /\ ask' \in Asks /\ server' \in TurnOrNone
  BY <1>1 DEF TypesInv, BodyOK
<1>4. inbox' \in Seq(Frames) /\ link' \in BOOLEAN
  <2>1. inbox' \in Seq(Frames)
    BY <1>1
  <2>2. link' \in BOOLEAN
    BY <1>1
  <2>3. QED
    BY <2>1, <2>2
<1>5. OthersOK'
  BY <1>1, <1>2, <1>3, <1>4 DEF OthersOK
<1>6. QED
  BY <1>2, <1>5, CycleRests DEF Crash, Abort

-----------------------------------------------------------------------------
(* The delivery of a directive.                                            *)

\* The row in the hands of the cycle.
LEMMA MineTyped ==
    ASSUME TypesInv, SupervisorInv, cycle.pc \in Delivering
    PROVE  /\ cycle.slot \in Slots /\ Mine \in Directives
           /\ Mine.kind = "steer" => Mine.target \in Turns
  BY DEF TypesInv, BodyOK, SteerInv, SupervisorInv, DeliveryLeased, Mine

\* The row is written with the kind and target it had, or its slot is free.
LEMMA MineSettled ==
    ASSUME TypesInv, SupervisorInv, cycle.pc \in Delivering, NEW r \in Directives, Settle(r),
           r = Settled \/ (r.kind = Mine.kind /\ r.target = Mine.target)
    PROVE  directive' \in [Slots -> Directives] /\ SteerInv'
  BY MineTyped, RecordTypes, QueueMoves DEF Settle

LEMMA LeaseNextSound == ASSUME TypesInv, NEW d \in Slots, LeaseNext(d) PROVE Sound
<1> DEFINE n == IF directive[d].attempts < MaxAttempts THEN directive[d].attempts + 1
                ELSE directive[d].attempts
           r == [directive[d] EXCEPT !.status = "leased", !.due = FALSE, !.attempts = n]
<1>1. directive \in [Slots -> Directives] /\ n \in 0..MaxAttempts
  BY SupervisorAssumption DEF TypesInv, BodyOK, Directives
<1>2. directive' = [directive EXCEPT ![d] = r]
  BY <1>1 DEF LeaseNext
<1> HIDE DEF n
<1>3. r \in Directives /\ r.kind = directive[d].kind /\ r.target = directive[d].target
  BY <1>1 DEF Directives
<1> HIDE DEF r
<1>4. directive' \in [Slots -> Directives] /\ SteerInv'
  BY <1>2, <1>3, QueueMoves DEF TypesInv, SteerInv
<1>5. OthersOK' /\ Judged
  BY <1>4, OthersNow, SameRow DEF LeaseNext, OthersOK, Hold, Holders
<1>6. cycle' \in CycleTypes /\ cycle'.pc = "preparing" /\ cycle'.left >= 1
  <2>1. "preparing" \in Pcs /\ d \in Slots \cup {NoSlot}
    BY DEF Pcs
  <2>2. cycle' = [cycle EXCEPT !.pc = "preparing", !.slot = d] /\ cycle.left > 0 /\ cycle \in CycleTypes
    BY DEF LeaseNext, TypesInv, BodyOK
  <2>3. cycle' \in CycleTypes /\ cycle'.pc = "preparing" /\ cycle'.left = cycle.left
    BY <2>1, <2>2 DEF CycleTypes
  <2>4. cycle.left >= 1
    BY <2>2 DEF CycleTypes
  <2>5. QED
    BY <2>3, <2>4
<1>7. QED
  BY <1>5, <1>6, CycleGoes

LEMMA WorkplaceSound == ASSUME TypesInv, SupervisorInv, WorkplaceGone PROVE Sound
<1>1. thread' \in Threads /\ current' \subseteq Holders /\ Judged
  <2>1. \/ thread' = [thread EXCEPT !.phase = "paused", !.cooling = FALSE] /\ current' = {}
        \/ thread' = thread /\ current' = current
    BY DEF WorkplaceGone, Write
  <2>2. thread \in Threads /\ current \subseteq Holders
    BY DEF TypesInv, BodyOK
  <2>3. CASE thread' = [thread EXCEPT !.phase = "paused", !.cooling = FALSE] /\ current' = {}
    <3>1. thread' \in Threads /\ thread'.phase = "paused"
      BY <2>2, <2>3 DEF Threads, Phases
    <3>2. QED
      BY <2>3, <3>1 DEF Judged
  <2>4. CASE thread' = thread /\ current' = current
    BY <2>2, <2>4, SameRow
  <2>5. QED
    BY <2>1, <2>3, <2>4
<1>2. cycle.pc \in Delivering
  BY DEF WorkplaceGone, CycleAt, Delivering
<1>3. directive' \in [Slots -> Directives] /\ SteerInv'
  BY <1>2, MineSettled, RecordTypes DEF WorkplaceGone
<1>4. OthersOK'
  BY <1>1, <1>3, OthersNow DEF WorkplaceGone, OthersOK
<1>5. QED
  BY <1>1, <1>2, <1>4, CycleRests DEF WorkplaceGone

\* The cycle goes on with the same delivery.
LEMMA CycleFurther ==
    ASSUME TypesInv, OthersOK', Judged, cycle.pc \in Delivering, NEW pc \in Pcs, pc # "seen",
           NEW t \in TurnOrNone, cycle' = [cycle EXCEPT !.pc = pc, !.turn = t]
    PROVE  Sound
<1>1. cycle' \in CycleTypes /\ cycle'.pc = pc /\ cycle'.left = cycle.left
  BY DEF TypesInv, BodyOK, CycleTypes
<1>2. QED
  BY <1>1, CycleGoes DEF TypesInv, LeftInv

LEMMA GotoFurther ==
    ASSUME TypesInv, OthersOK', Judged, cycle.pc \in Delivering, NEW pc \in Pcs, pc # "seen", Goto(pc)
    PROVE  Sound
<1>1. cycle' \in CycleTypes /\ cycle'.pc = pc /\ cycle'.left = cycle.left
  BY DEF TypesInv, BodyOK, CycleTypes, Goto
<1>2. QED
  BY <1>1, CycleGoes DEF TypesInv, LeftInv

LEMMA EnsureSound == ASSUME TypesInv, EnsureLease PROVE Sound
<1>1. OthersOK' /\ Judged
  BY OthersNow, QueueMoves, SameRow DEF EnsureLease, OthersOK, Drop, Ensured
<1>2. cycle.pc \in Delivering /\ Goto("resuming") /\ "resuming" \in Pcs
  BY DEF EnsureLease, CycleAt, Delivering, Pcs
<1>3. QED
  BY <1>1, <1>2, GotoFurther

LEMMA RefusedSound == ASSUME TypesInv, SupervisorInv, LeaseRefused PROVE Sound
<1> DEFINE r == [Mine EXCEPT !.status = "queued", !.due = FALSE]
<1>1. cycle.pc \in Delivering /\ Settle(r)
  BY DEF LeaseRefused, CycleAt, Delivering
<1>2. r \in Directives /\ r.kind = Mine.kind /\ r.target = Mine.target
  BY <1>1, MineTyped DEF Directives
<1> HIDE DEF r
<1>3. directive' \in [Slots -> Directives] /\ SteerInv'
  BY <1>1, <1>2, MineSettled
<1>4. OthersOK' /\ Judged
  BY <1>3, OthersNow, SameRow DEF LeaseRefused, OthersOK, Drop
<1>5. QED
  BY <1>1, <1>4, CycleRests DEF LeaseRefused

LEMMA SendSound == ASSUME TypesInv, SupervisorInv, SendDirective PROVE Sound
<1> DEFINE r == [Mine EXCEPT !.sent = TRUE]
<1>1. cycle.pc \in Delivering /\ Settle(r) /\ Goto("sending") /\ "sending" \in Pcs
  BY DEF SendDirective, CycleAt, Delivering, Pcs
<1>2. r \in Directives /\ r.kind = Mine.kind /\ r.target = Mine.target
  BY <1>1, MineTyped DEF Directives
<1> HIDE DEF r
<1>3. directive' \in [Slots -> Directives] /\ SteerInv'
  BY <1>1, <1>2, MineSettled
<1>4. OthersOK' /\ Judged
  BY <1>3, OthersNow, SameRow DEF SendDirective, OthersOK
<1>5. QED
  BY <1>1, <1>4, GotoFurther

\* The delivery ends in doubt and the thread is paused.
LEMMA UncertainWrites ==
    ASSUME TypesInv, SupervisorInv, cycle.pc \in Delivering, MarkUncertain
    PROVE  /\ directive' \in [Slots -> Directives] /\ SteerInv'
           /\ thread' \in Threads /\ current' \subseteq Holders /\ Judged
<1> DEFINE r == [Mine EXCEPT !.status = "uncertain"]
<1>1. r \in Directives /\ r.kind = Mine.kind /\ r.target = Mine.target /\ Settle(r)
  BY MineTyped DEF Directives, MarkUncertain
<1> HIDE DEF r
<1>2. directive' \in [Slots -> Directives] /\ SteerInv'
  BY <1>1, MineSettled
<1>3. thread' \in Threads /\ current' \subseteq Holders /\ Judged
  BY DEF MarkUncertain, Write, TypesInv, BodyOK, Threads, Phases, Judged
<1>4. QED
  BY <1>2, <1>3

LEMMA UncertainSound ==
    ASSUME TypesInv, SupervisorInv, SendFails \/ DeliveryUnknown \/ \E t \in Turns : StartUnseen(t)
    PROVE  Sound
<1>1. cycle.pc \in Delivering /\ MarkUncertain
  BY DEF SendFails, DeliveryUnknown, StartUnseen, CycleAt, Delivering
<1>2. /\ op' = op /\ pair' = pair /\ ask' \in {ask, "none"} /\ link' \in {link, FALSE}
      /\ server' \in Turns \cup {server} /\ inbox' \in {inbox, << >>}
  BY DEF SendFails, DeliveryUnknown, StartUnseen, ConnectionLost
<1>3. << >> \in Seq(Frames)
  OBVIOUS
<1>4. /\ op' \in {"none", "pause", "resume"} /\ pair' \in {"none", "held", "stale"} /\ ask' \in Asks
      /\ server' \in TurnOrNone /\ inbox' \in Seq(Frames)
  BY <1>2, <1>3 DEF TypesInv, BodyOK, TurnOrNone, Asks
<1>5. link' \in BOOLEAN
  BY <1>2 DEF TypesInv, BodyOK
<1>6. OthersOK' /\ Judged
  BY <1>1, <1>4, <1>5, UncertainWrites DEF OthersOK
<1>7. QED
  BY <1>1, <1>6, CycleRests DEF MarkUncertain

LEMMA KnownFailureSound ==
    ASSUME TypesInv, SupervisorInv, PreparationFails \/ DeliveryRefused
    PROVE  Sound
<1> DEFINE r == [Mine EXCEPT !.status = "queued", !.due = FALSE, !.sent = FALSE]
<1>1. cycle.pc \in Delivering /\ KnownFailure
  BY DEF PreparationFails, DeliveryRefused, CycleAt, Delivering
<1>2. r \in Directives /\ r.kind = Mine.kind /\ r.target = Mine.target
  BY <1>1, MineTyped DEF Directives
<1>3. Settle(r) \/ Settle(Settled)
  BY <1>1 DEF KnownFailure
<1> HIDE DEF r
<1>4. directive' \in [Slots -> Directives] /\ SteerInv'
  BY <1>1, <1>2, <1>3, RecordTypes, MineSettled
<1>5. thread' \in Threads /\ current' \subseteq Holders /\ Judged
  <2>1. /\ \/ thread' = [thread EXCEPT !.phase = "retry_wait", !.cooling = TRUE]
           \/ thread' = [thread EXCEPT !.phase = "paused", !.cooling = FALSE]
        /\ current' = {}
    BY <1>1 DEF KnownFailure, Write
  <2>2. QED
    BY <2>1 DEF TypesInv, BodyOK, Threads, Phases, Judged
<1>6. OthersOK'
  BY <1>1, <1>4, <1>5, OthersNow DEF KnownFailure, OthersOK
<1>7. QED
  BY <1>1, <1>5, <1>6, CycleRests DEF KnownFailure

LEMMA SettledSound == ASSUME TypesInv, SupervisorInv, DeliverySettled PROVE Sound
<1>1. cycle.pc \in Delivering /\ cycle.turn \in TurnOrNone
  BY DEF DeliverySettled, CycleAt, Delivering, TypesInv, BodyOK, CycleTypes
<1>2. directive' \in [Slots -> Directives] /\ SteerInv'
  BY <1>1, MineSettled, RecordTypes DEF DeliverySettled
<1>3. thread' \in Threads /\ current' \subseteq Holders /\ Judged
  <2>1. PICK p \in {"verifying", "executing"} :
            thread' = [thread EXCEPT !.phase = p, !.turn = cycle.turn, !.last = "inProgress",
                                     !.timeout = "pending", !.cooling = TRUE]
    BY DEF DeliverySettled, Write
  <2>2. thread' \in Threads /\ thread'.phase = p
    BY <1>1, <2>1 DEF TypesInv, BodyOK, Threads, Phases
  <2>3. QED
    BY <2>2 DEF DeliverySettled, Write, Judged
<1>4. OthersOK'
  BY <1>2, <1>3, OthersNow DEF DeliverySettled, OthersOK
<1>5. QED
  BY <1>1, <1>3, <1>4, CycleRests DEF DeliverySettled

\* Frames of the App Server come and go.
LEMMA FrameTypes ==
    /\ \A t \in Turns, s \in {"inProgress", "completed", "failed", "interrupted"} :
           \A type \in {"response", "started", "completed"} : Frame(type, t, s) \in Frames
    /\ << >> \in Seq(Frames)
    /\ \A q \in Seq(Frames), f \in Frames : Append(q, f) \in Seq(Frames)
    /\ \A q \in Seq(Frames), f \in Frames, g \in Frames : q \o <<f, g>> \in Seq(Frames)
    /\ \A q \in Seq(Frames) : q # << >> => Head(q) \in Frames /\ Tail(q) \in Seq(Frames)
<1>1. \A t \in Turns, s \in {"inProgress", "completed", "failed", "interrupted"} :
          \A type \in {"response", "started", "completed"} : Frame(type, t, s) \in Frames
  BY DEF Frame, Frames
<1>2. << >> \in Seq(Frames)
  OBVIOUS
<1>3. \A q \in Seq(Frames), f \in Frames : Append(q, f) \in Seq(Frames)
  OBVIOUS
<1>4. \A q \in Seq(Frames), f \in Frames, g \in Frames : q \o <<f, g>> \in Seq(Frames)
  OBVIOUS
<1>5. \A q \in Seq(Frames) : q # << >> => Head(q) \in Frames /\ Tail(q) \in Seq(Frames)
  OBVIOUS
<1>6. QED
  BY <1>1, <1>2, <1>3, <1>4, <1>5

LEMMA AcceptedSound ==
    ASSUME TypesInv, SupervisorInv, SteerAccepted \/ \E t \in Turns : StartAccepted(t)
    PROVE  Sound
<1>1. cycle.pc \in Delivering /\ cycle.pc = "sending"
  BY DEF SteerAccepted, StartAccepted, CycleAt, Delivering
<1>2. PICK t \in Turns : /\ server' = t /\ cycle' = [cycle EXCEPT !.pc = "answered", !.turn = t]
                         /\ inbox' \in Seq(Frames)
  <2>1. CASE SteerAccepted
    <3>1. server \in Turns
      BY <1>1, <2>1, MineTyped DEF SteerAccepted
    <3>2. inbox' \in Seq(Frames)
      BY <2>1, <3>1, FrameTypes DEF SteerAccepted, TypesInv, BodyOK
    <3>3. QED
      BY <2>1, <3>1, <3>2 DEF SteerAccepted
  <2>2. CASE \E t \in Turns : StartAccepted(t)
    <3>1. PICK t \in Turns : StartAccepted(t)
      BY <2>2
    <3>2. inbox' \in Seq(Frames)
      BY <3>1, FrameTypes DEF StartAccepted, TypesInv, BodyOK
    <3>3. QED
      BY <3>1, <3>2 DEF StartAccepted
  <2>3. QED
    BY <2>1, <2>2
<1>3. UNCHANGED <<thread, current, directive, ask, op, pair, link>>
  BY DEF SteerAccepted, StartAccepted
<1>4. OthersOK' /\ Judged
  BY <1>2, <1>3, OthersNow, QueueMoves, SameRow DEF OthersOK, TurnOrNone
<1>5. "answered" \in Pcs /\ t \in TurnOrNone
  BY DEF Pcs, TurnOrNone
<1>6. QED
  BY <1>1, <1>2, <1>4, <1>5, CycleFurther

LEMMA ResponseSound == ASSUME TypesInv, HandleResponse PROVE Sound
<1>1. inbox' \in Seq(Frames) /\ UNCHANGED <<thread, current, directive, ask, op, pair, link, server>>
  BY FrameTypes DEF HandleResponse, TypesInv, BodyOK
<1>2. OthersOK' /\ Judged
  BY <1>1, OthersNow, QueueMoves, SameRow DEF OthersOK
<1>3. CASE cycle' = cycle
  BY <1>1, <1>2, <1>3, CycleStays
<1>4. CASE CycleAt("answered") /\ Goto("accepted")
  BY <1>2, <1>4, GotoFurther DEF CycleAt, Delivering, Pcs
<1>5. QED
  BY <1>3, <1>4 DEF HandleResponse

-----------------------------------------------------------------------------
(* Everybody else: the cycle stays where it is.                            *)

\* The row is written: its revision moves on, and the plan of a page counts
\* for no verdict any more.
LEMMA RowWritten ==
    ASSUME TypesInv, OthersOK', cycle' = cycle, current' = {},
           thread'.phase = thread.phase \/ thread'.phase \notin {"completed", "failed"}
    PROVE  Sound
<1>1. Judged
  BY DEF Judged
<1>2. QED
  BY <1>1, CycleStays

LEMMA RowKept ==
    ASSUME TypesInv, OthersOK', cycle' = cycle, thread' = thread, current' \subseteq current \cup {"op"}
    PROVE  Sound
<1>1. "cycle" \in current' => "cycle" \in current
  OBVIOUS
<1>2. QED
  BY <1>1, SameRow, CycleStays

\* Handlers of notifications; those about a thread that is not managed do not
\* reach the row.
LEMMA HeardSound ==
    ASSUME TypesInv, HandleTurnStarted \/ HandleTurnCompleted
    PROVE  Sound
<1> DEFINE f == Head(inbox)
<1>1. f \in Frames /\ inbox' \in Seq(Frames)
  BY FrameTypes DEF HandleTurnStarted, HandleTurnCompleted, Heard, TypesInv, BodyOK
<1>2. f.turn \in TurnOrNone /\ f.status \in {"inProgress", "completed", "failed", "interrupted"}
  BY <1>1 DEF Frames, TurnOrNone
<1>3. /\ UNCHANGED <<directive, ask, cycle, op, link, server>>
      /\ pair' \in {"none", "held", "stale"}
  BY DEF HandleTurnStarted, HandleTurnCompleted, TypesInv, BodyOK
<1>4. CASE thread.mode # "managed"
  <2>1. thread' = thread /\ current' = current
    BY <1>4 DEF HandleTurnStarted, HandleTurnCompleted, Patch
  <2>2. OthersOK'
    BY <1>1, <1>3, <2>1, OthersNow, QueueMoves DEF OthersOK
  <2>3. QED
    BY <1>3, <2>1, <2>2, RowKept
<1>5. CASE thread.mode = "managed"
  <2>1. /\ current' = {}
        /\ \/ thread' = [thread EXCEPT !.turn = f.turn, !.last = "inProgress", !.timeout = "pending"]
           \/ thread' = [thread EXCEPT !.turn = NoTurn, !.last = f.status, !.timeout = "none"]
    BY <1>5 DEF HandleTurnStarted, HandleTurnCompleted, Patch, Write
  <2> HIDE DEF f
  <2>2. thread' \in Threads /\ thread'.phase = thread.phase /\ current' \subseteq Holders
    <3>1. thread \in Threads /\ NoTurn \in TurnOrNone
      BY DEF TypesInv, BodyOK, TurnOrNone
    <3>2. CASE thread' = [thread EXCEPT !.turn = f.turn, !.last = "inProgress", !.timeout = "pending"]
      BY <1>2, <3>1, <3>2, <2>1 DEF Threads
    <3>3. CASE thread' = [thread EXCEPT !.turn = NoTurn, !.last = f.status, !.timeout = "none"]
      BY <1>2, <3>1, <3>3, <2>1 DEF Threads
    <3>4. QED
      BY <2>1, <3>2, <3>3
  <2>3. OthersOK'
    BY <1>1, <1>3, <2>2, OthersNow, QueueMoves DEF OthersOK
  <2>4. QED
    BY <1>3, <2>1, <2>2, <2>3, RowWritten
<1>6. QED
  BY <1>4, <1>5

\* One field of the row is patched, its phase is not.
LEMMA PatchedSound ==
    ASSUME TypesInv,
           \/ \E g \in Goals : HandleGoalUpdated(g)
           \/ \E s \in {"active", "idle", "systemError"} : UpdateAppStatus(s)
           \/ LimitReached
    PROVE  Sound
<1>1. /\ UNCHANGED <<directive, ask, cycle, op, pair, link, server, inbox>> /\ current' = {}
      /\ \/ \E g \in Goals : thread' = [thread EXCEPT !.goal = g]
         \/ \E s \in {"active", "idle", "systemError"} : thread' = [thread EXCEPT !.app = s]
         \/ thread' = [thread EXCEPT !.limit = TRUE]
  BY DEF HandleGoalUpdated, UpdateAppStatus, LimitReached, Write
<1>2. thread' \in Threads /\ thread'.phase = thread.phase /\ current' \subseteq Holders
  <2>1. thread \in Threads
    BY DEF TypesInv, BodyOK
  <2>2. ASSUME NEW g \in Goals, thread' = [thread EXCEPT !.goal = g]
        PROVE  thread' \in Threads /\ thread'.phase = thread.phase
    <3>1. g \in {"none", "active", "paused", "blocked", "complete"}
      BY SupervisorAssumption
    <3>2. QED
      BY <2>1, <2>2, <3>1 DEF Threads
  <2>3. ASSUME NEW s \in {"active", "idle", "systemError"}, thread' = [thread EXCEPT !.app = s]
        PROVE  thread' \in Threads /\ thread'.phase = thread.phase
    <3>1. thread' = [thread EXCEPT !.app = s] /\ s \in {"active", "idle", "systemError"}
      BY <2>3
    <3>2. QED
      BY <2>1, <3>1, SMTT(60) DEF Threads
  <2>4. ASSUME thread' = [thread EXCEPT !.limit = TRUE]
        PROVE  thread' \in Threads /\ thread'.phase = thread.phase
    BY <2>1, <2>4 DEF Threads
  <2>5. QED
    BY <1>1, <2>2, <2>3, <2>4
<1>3. OthersOK'
  BY <1>1, <1>2, OthersNow, QueueMoves DEF OthersOK
<1>4. QED
  BY <1>1, <1>2, <1>3, RowWritten

\* Requests that write a phase: none of them ends the supervision as done or
\* as given up.
LEMMA RequestsSound ==
    ASSUME TypesInv,
           \/ ManageThread \/ PauseThread \/ ResumeThread
           \/ \E latest \in BOOLEAN : StopManaging(latest)
           \/ \E a \in ServerAsks : HandleServerRequest(a)
    PROVE  Sound
<1>1. /\ UNCHANGED <<cycle, link, server, inbox>>
      /\ directive' = directive \/ directive' = CancelQueued
      /\ ask' \in ServerAsks \cup {ask} /\ op' \in {op, "none"} /\ pair' \in {pair, "none"}
  BY DEF ManageThread, PauseThread, ResumeThread, StopManaging, HandleServerRequest
<1>2. \/ thread' = thread /\ current' \subseteq current
      \/ /\ current' = {}
         /\ \/ thread' = [thread EXCEPT !.mode = "managed", !.phase = "aligning", !.goal = "none",
                              !.limit = FALSE, !.infra = 0, !.strategy = 0, !.cooling = FALSE]
            \/ thread' = [thread EXCEPT !.phase = "paused", !.goal = "paused", !.cooling = FALSE]
            \/ thread' = [thread EXCEPT !.phase = "aligning", !.goal = "active", !.last = "none",
                                        !.cooling = FALSE]
            \/ thread' = [thread EXCEPT !.mode = "observed", !.phase = "observed", !.turn = NoTurn,
                                        !.timeout = "none", !.cooling = FALSE]
            \/ \E p \in {"waiting_approval", "waiting_decision"} : thread' = [thread EXCEPT !.phase = p]
  BY DEF ManageThread, PauseThread, ResumeThread, StopManaging, HandleServerRequest, Write, Drop
<1>3. /\ directive' \in [Slots -> Directives] /\ SteerInv'
      /\ ask' \in Asks /\ op' \in {"none", "pause", "resume"} /\ pair' \in {"none", "held", "stale"}
  BY <1>1, QueueMoves DEF TypesInv, BodyOK, Asks
<1>4. CASE thread' = thread /\ current' \subseteq current
  <2>1. OthersOK'
    BY <1>1, <1>3, <1>4, OthersNow DEF OthersOK
  <2>2. QED
    BY <1>1, <1>4, <2>1, RowKept
<1>5. CASE ~(thread' = thread /\ current' \subseteq current)
  <2>1. current' = {} /\ 0 \in 0..MaxInfra + 1 /\ 0 \in 0..MaxStrategy
    BY <1>2, <1>5, SupervisorAssumption
  <2>2. thread' \in Threads /\ thread'.phase \notin {"completed", "failed"}
    <3>1. thread \in Threads /\ NoTurn \in TurnOrNone
      BY DEF TypesInv, BodyOK, TurnOrNone
    <3>2. CASE thread' = [thread EXCEPT !.mode = "managed", !.phase = "aligning", !.goal = "none",
                              !.limit = FALSE, !.infra = 0, !.strategy = 0, !.cooling = FALSE]
      BY <2>1, <3>1, <3>2 DEF Threads, Phases
    <3>3. CASE thread' = [thread EXCEPT !.phase = "paused", !.goal = "paused", !.cooling = FALSE]
      BY <3>1, <3>3 DEF Threads, Phases
    <3>4. CASE thread' = [thread EXCEPT !.phase = "aligning", !.goal = "active", !.last = "none",
                                        !.cooling = FALSE]
      BY <3>1, <3>4 DEF Threads, Phases
    <3>5. CASE thread' = [thread EXCEPT !.mode = "observed", !.phase = "observed", !.turn = NoTurn,
                                        !.timeout = "none", !.cooling = FALSE]
      BY <3>1, <3>5 DEF Threads, Phases
    <3>6. ASSUME NEW p \in {"waiting_approval", "waiting_decision"}, thread' = [thread EXCEPT !.phase = p]
          PROVE  thread' \in Threads /\ thread'.phase \notin {"completed", "failed"}
      BY <3>1, <3>6 DEF Threads, Phases
    <3>7. QED
      BY <1>2, <1>5, <3>2, <3>3, <3>4, <3>5, <3>6
  <2>3. OthersOK'
    BY <1>1, <1>3, <2>1, <2>2, OthersNow DEF OthersOK
  <2>4. QED
    BY <1>1, <2>1, <2>2, <2>3, RowWritten
<1>6. QED
  BY <1>4, <1>5

LEMMA AnsweredSound ==
    ASSUME TypesInv, ApplyDefaultedSuggestion \/ \E d \in Slots : AnswerChoice(d)
    PROVE  Sound
<1>1. /\ UNCHANGED <<cycle, op, pair, link, server, inbox>> /\ ask' = "none" /\ current' = {}
      /\ thread' = [thread EXCEPT !.phase = "executing"]
      /\ \E d \in Slots : Enqueue(d, "answer", NoTurn)
  BY DEF ApplyDefaultedSuggestion, AnswerChoice, Write
<1>2. directive' \in [Slots -> Directives] /\ SteerInv'
  BY <1>1, Enqueued DEF Kinds, TurnOrNone
<1>3. thread' \in Threads /\ thread'.phase = "executing"
  BY <1>1 DEF TypesInv, BodyOK, Threads, Phases
<1>4. OthersOK'
  BY <1>1, <1>2, <1>3, OthersNow DEF OthersOK, Asks
<1>5. QED
  BY <1>1, <1>3, <1>4, RowWritten

LEMMA InstructionSound == ASSUME TypesInv, NEW d \in Slots, SendInstruction(d) PROVE Sound
<1> DEFINE k == IF thread.turn = NoTurn THEN "instruct" ELSE "steer"
<1>1. thread.turn \in TurnOrNone /\ k \in Kinds /\ (k = "steer" => thread.turn \in Turns)
  BY DEF TypesInv, BodyOK, Threads, TurnOrNone, Kinds
<1>2. Enqueue(d, k, thread.turn) /\ UNCHANGED <<thread, current, ask, cycle, op, pair, link, server, inbox>>
  BY DEF SendInstruction
<1> HIDE DEF k
<1>3. directive' \in [Slots -> Directives] /\ SteerInv'
  BY <1>1, <1>2, Enqueued
<1>4. OthersOK'
  BY <1>2, <1>3, OthersNow DEF OthersOK
<1>5. QED
  BY <1>2, <1>4, RowKept

\* Steps that leave the row and the queue alone.
LEMMA AloofSound ==
    ASSUME TypesInv,
           \/ ExpireInteraction \/ BeginPauseThread \/ BeginResumeThread \/ OpFails
           \/ AnswerPauseOrResume \/ AnswerServerInteraction \/ RaiseAgentInteraction
           \/ LeaseExpires \/ Connect
    PROVE  Sound
<1>1. /\ UNCHANGED <<thread, directive, cycle, server, inbox>>
      /\ ask' \in {ask, "none", "choice"} /\ op' \in {op, "none", "pause", "resume"}
      /\ pair' \in {pair, "stale"} /\ current' \subseteq current \cup {"op"}
  BY DEF ExpireInteraction, BeginPauseThread, BeginResumeThread, OpFails, AnswerPauseOrResume,
         AnswerServerInteraction, RaiseAgentInteraction, LeaseExpires, Connect, BeginOp, Hold, Drop
<1>2. link' = link \/ link' = TRUE
  BY DEF ExpireInteraction, BeginPauseThread, BeginResumeThread, OpFails, AnswerPauseOrResume,
         AnswerServerInteraction, RaiseAgentInteraction, LeaseExpires, Connect
<1>3. link' \in BOOLEAN
  BY <1>2 DEF TypesInv, BodyOK
<1>4. /\ ask' \in Asks /\ op' \in {"none", "pause", "resume"} /\ pair' \in {"none", "held", "stale"}
      /\ current' \subseteq Holders
  BY <1>1 DEF TypesInv, BodyOK, Asks, Holders
<1>5. OthersOK'
  BY <1>1, <1>3, <1>4, OthersNow, QueueMoves DEF OthersOK
<1>6. QED
  BY <1>1, <1>5, RowKept

LEMMA ServerSound ==
    ASSUME TypesInv,
           \/ \E o \in Outcomes \cup {"completed"} : TurnEnds(o)
           \/ \E t \in Turns : DesktopTurn(t)
           \/ Disconnect
    PROVE  Sound
<1>1. UNCHANGED <<thread, current, directive, cycle, op, pair>>
  BY DEF TurnEnds, DesktopTurn, Disconnect
<1>2. server' \in TurnOrNone /\ inbox' \in Seq(Frames)
  <2>1. ASSUME NEW o \in Outcomes \cup {"completed"}, TurnEnds(o)
        PROVE  server' \in TurnOrNone /\ inbox' \in Seq(Frames)
    <3>1. server \in Turns /\ o \in {"inProgress", "completed", "failed", "interrupted"}
      BY <2>1, SupervisorAssumption DEF TurnEnds, TypesInv, BodyOK, TurnOrNone
    <3>2. Frame("completed", server, o) \in Frames
      BY <3>1, FrameTypes
    <3>3. QED
      BY <2>1, <3>2, FrameTypes DEF TurnEnds, TypesInv, BodyOK, TurnOrNone
  <2>2. ASSUME NEW t \in Turns, DesktopTurn(t)
        PROVE  server' \in TurnOrNone /\ inbox' \in Seq(Frames)
    <3>1. Frame("started", t, "inProgress") \in Frames
      BY FrameTypes
    <3>2. QED
      BY <2>2, <3>1, FrameTypes DEF DesktopTurn, TypesInv, BodyOK, TurnOrNone
  <2>3. CASE Disconnect
    BY <2>3, FrameTypes DEF Disconnect, ConnectionLost, TypesInv, BodyOK
  <2>4. QED
    BY <2>1, <2>2, <2>3
<1>3. (ask' = ask \/ ask' = "none") /\ (link' = link \/ link' = FALSE)
  BY DEF TurnEnds, DesktopTurn, Disconnect, ConnectionLost
<1>4. ask' \in Asks
  BY <1>3 DEF TypesInv, BodyOK, Asks
<1>5. link' \in BOOLEAN
  BY <1>3 DEF TypesInv, BodyOK
<1>6. OthersOK'
  BY <1>1, <1>2, <1>4, <1>5, OthersNow, QueueMoves DEF OthersOK
<1>7. QED
  BY <1>1, <1>6, RowKept

LEMMA DueSound == ASSUME TypesInv, NEW d \in Slots, DirectiveDue(d) PROVE Sound
<1>1. directive' = [directive EXCEPT ![d] = [directive[d] EXCEPT !.due = TRUE]]
  BY DEF DirectiveDue, TypesInv, BodyOK
<1>2. /\ [directive[d] EXCEPT !.due = TRUE] \in Directives
      /\ [directive[d] EXCEPT !.due = TRUE].kind = directive[d].kind
      /\ [directive[d] EXCEPT !.due = TRUE].target = directive[d].target
  BY DEF TypesInv, BodyOK, Directives
<1>3. directive' \in [Slots -> Directives] /\ SteerInv'
  BY <1>1, <1>2, QueueMoves DEF TypesInv, SteerInv
<1>4. UNCHANGED <<thread, current, ask, cycle, op, pair, link, server, inbox>>
  BY DEF DirectiveDue
<1>5. OthersOK'
  BY <1>3, <1>4, OthersNow DEF OthersOK
<1>6. QED
  BY <1>4, <1>5, RowKept

\* Time alone changes nothing that a verdict rests on.
LEMMA TimeSound == ASSUME TypesInv, TurnTimeout \/ CooldownElapsed PROVE Sound
<1>1. /\ UNCHANGED <<current, directive, ask, cycle, op, pair, link, server, inbox>>
      /\ \/ thread' = [thread EXCEPT !.timeout = "due"]
         \/ thread' = [thread EXCEPT !.cooling = FALSE]
  BY DEF TurnTimeout, CooldownElapsed
<1>2. /\ thread' \in Threads
      /\ thread'.mode = thread.mode /\ thread'.phase = thread.phase /\ thread'.goal = thread.goal
      /\ thread'.turn = thread.turn /\ thread'.last = thread.last /\ thread'.infra = thread.infra
      /\ thread'.strategy = thread.strategy
  BY <1>1 DEF TypesInv, BodyOK, Threads
<1>3. OthersOK'
  BY <1>1, <1>2, OthersNow, QueueMoves DEF OthersOK
<1>4. Judged
  BY <1>2 DEF Judged
<1>5. QED
  BY <1>1, <1>2, <1>3, <1>4, CycleStays

-----------------------------------------------------------------------------
(* The invariant and the verdicts.                                         *)

LEMMA TypesInvInit == Init => TypesInv /\ events \in 0..MaxEvents
<1> SUFFICES ASSUME Init
             PROVE  TypesInv /\ events \in 0..MaxEvents
  OBVIOUS
<1>1. 0 \in 0..MaxInfra + 1 /\ 0 \in 0..MaxStrategy /\ 0 \in 0..MaxEvents
  BY SupervisorAssumption
<1>2. thread \in Threads
  BY <1>1 DEF Init, Threads, Phases, TurnOrNone
<1>3. cycle \in CycleTypes
  BY <1>1 DEF Init, Idle, CycleTypes, Pcs, Decisions, TurnOrNone
<1>4. /\ current \subseteq Holders /\ ask \in Asks /\ op \in {"none", "pause", "resume"}
      /\ pair \in {"none", "held", "stale"} /\ server \in TurnOrNone
  BY DEF Init, Asks, TurnOrNone
<1>5. directive \in [Slots -> Directives] /\ SteerInv
  BY RecordTypes DEF Init, SteerInv
<1>6. inbox \in Seq(Frames)
  BY FrameTypes DEF Init
<1>7. link \in BOOLEAN
  BY DEF Init
<1>8. PlanInv /\ LeftInv
  BY DEF Init, Idle, PlanInv, LeftInv, CycleAt, Delivering
<1>9. QED
  BY <1>1, <1>2, <1>3, <1>4, <1>5, <1>6, <1>7, <1>8 DEF TypesInv, BodyOK, Init

LEMMA ProgressSound == ASSUME TypesInv, SupervisorInv, Progress PROVE Sound
<1>1. CASE Reconcile
  BY <1>1, SnapshotSound, IdleStepsSound, WaitSound, PauseSound, FinishSound, RetrySound, AlignSound,
     QueueSound DEF Reconcile
<1>2. CASE Deliver \/ Answer
  BY <1>2, IdleStepsSound, EnsureSound, SendSound, RefusedSound, LeaseNextSound, AcceptedSound,
     KnownFailureSound DEF Deliver, Answer
<1>3. CASE Operate \/ Elapse \/ Connect \/ TurnEnds("completed")
  BY <1>3, RequestsSound, AloofSound, TimeSound, DueSound, ServerSound DEF Operate, Elapse
<1>4. CASE Observe
  BY <1>4, PatchedSound DEF Observe
<1>5. CASE Fail \/ Lose
  BY <1>5, RetrySound, KnownFailureSound, AloofSound, UncertainSound DEF Fail, Lose
<1>6. QED
  BY <1>1, <1>2, <1>3, <1>4, <1>5 DEF Progress

LEMMA DisturbSound == ASSUME TypesInv, SupervisorInv, Disturb PROVE Sound
<1>1. thread.app \in {"active", "idle", "systemError"}
  BY DEF TypesInv, BodyOK, Threads
<1>2. CASE ManageThread \/ BeginPauseThread \/ BeginResumeThread \/ AnswerPauseOrResume
           \/ (\E latest \in BOOLEAN : StopManaging(latest))
           \/ \E a \in ServerAsks : HandleServerRequest(a)
  BY <1>2, RequestsSound, AloofSound
<1>3. CASE \E d \in Slots : SendInstruction(d)
  BY <1>3, InstructionSound
<1>4. CASE ApplyDefaultedSuggestion \/ ExpireInteraction \/ RaiseAgentInteraction
           \/ \E d \in Slots : AnswerChoice(d)
  BY <1>4, AnsweredSound, AloofSound
<1>5. CASE (\E t \in Turns : DesktopTurn(t)) \/ (\E o \in Outcomes : TurnEnds(o)) \/ Disconnect
  BY <1>5, ServerSound
<1>6. CASE (\E g \in Goals : HandleGoalUpdated(g)) \/ LimitReached
           \/ UpdateAppStatus("systemError") \/ UpdateAppStatus(thread.app)
  BY <1>1, <1>6, PatchedSound
<1>7. CASE WorkplaceGone \/ LeaseRefused \/ LeaseExpires \/ Crash
  BY <1>7, WorkplaceSound, RefusedSound, AloofSound, CrashSound
<1>8. CASE Fail \/ DeliveryRefused \/ Lose \/ SendFails
  BY <1>8, RetrySound, KnownFailureSound, AloofSound, UncertainSound DEF Fail, Lose
<1>9. QED
  BY <1>2, <1>3, <1>4, <1>5, <1>6, <1>7, <1>8 DEF Disturb

\* Every step but that of nothing at all.
LEMMA NextSound == ASSUME TypesInv, SupervisorInv, Next PROVE Sound
<1>1. CASE DeliverySettled \/ Hear
  BY <1>1, SettledSound, ResponseSound, HeardSound DEF Hear
<1>2. CASE Progress
  BY <1>2, ProgressSound
<1>3. CASE Disturb
  BY <1>3, DisturbSound
<1>4. QED
  BY <1>1, <1>2, <1>3 DEF Next

LEMMA StepSound ==
    ASSUME TypesInv, events \in 0..MaxEvents, SupervisorInv, [Next]_vars
    PROVE  TypesInv' /\ events' \in 0..MaxEvents /\ Judged
<1>1. CASE Next
  <2>1. events' \in 0..MaxEvents
    BY <1>1, SupervisorAssumption DEF Next
  <2>2. QED
    BY <1>1, <2>1, NextSound DEF Sound
<1>2. CASE UNCHANGED vars
  <2>1. /\ OthersOK' /\ cycle' = cycle /\ thread' = thread /\ current' = current /\ events' = events
    BY <1>2, OthersNow, QueueMoves DEF vars, OthersOK
  <2>2. QED
    BY <2>1, RowKept DEF Sound
<1>3. QED
  BY <1>1, <1>2

LEMMA TypesInvHolds == Spec => [](TypesInv /\ events \in 0..MaxEvents)
<1>1. (TypesInv /\ events \in 0..MaxEvents) /\ SupervisorInv /\ [Next]_vars
          => (TypesInv /\ events \in 0..MaxEvents)'
  BY StepSound
<1>2. QED
  BY <1>1, TypesInvInit, SupervisorInvariant, PTL DEF Spec

\* The row, the directives, the cycle, the operator's request and the frames
\* on their way keep their types.
THEOREM SupervisorTypeCorrect == Spec => []TypeOK
<1>1. TypesInv /\ events \in 0..MaxEvents => TypeOK
  BY DEF TypesInv, BodyOK, TypeOK, CycleTypes, Frames
<1>2. QED
  BY <1>1, TypesInvHolds, PTL

\* A thread is completed only if the row it is written to is verified: the
\* verdict of a page that has become old is thrown away.
THEOREM CompletionsJustified == Spec => CompletionJustified
<1> DEFINE Verdict == thread.phase # "completed" /\ thread'.phase = "completed" =>
           /\ thread.mode = "managed" /\ thread.phase = "verifying"
           /\ thread.goal = "complete" /\ thread.last = "completed"
           /\ thread.turn = NoTurn /\ ask = "none"
<1>1. TypesInv /\ events \in 0..MaxEvents /\ SupervisorInv /\ [Next]_vars => [Verdict]_vars
  BY StepSound DEF Judged, Completes, Verified
<1>2. [](TypesInv /\ events \in 0..MaxEvents) /\ []SupervisorInv /\ [][Next]_vars => [][Verdict]_vars
  BY <1>1, PTL
<1>3. QED
  BY <1>2, TypesInvHolds, SupervisorInvariant, PTL DEF Spec, CompletionJustified

\* A thread is failed only when the retries of the infrastructure, or the
\* alternative strategies, are used up.
THEOREM FailuresExhausted == Spec => FailureExhausted
<1> DEFINE GivenUp == thread.phase # "failed" /\ thread'.phase = "failed" =>
           \/ thread.infra >= MaxInfra
           \/ thread.last = "failed" /\ thread.strategy = MaxStrategy /\ thread.turn = NoTurn
<1>1. TypesInv /\ events \in 0..MaxEvents /\ SupervisorInv /\ [Next]_vars => [GivenUp]_vars
  BY StepSound DEF Judged, GivesUp
<1>2. [](TypesInv /\ events \in 0..MaxEvents) /\ []SupervisorInv /\ [][Next]_vars => [][GivenUp]_vars
  BY <1>1, PTL
<1>3. QED
  BY <1>2, TypesInvHolds, SupervisorInvariant, PTL DEF Spec, FailureExhausted
=============================================================================
