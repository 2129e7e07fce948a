--------------------------- MODULE RemindersProofs ---------------------------
(***************************************************************************)
(* For any items, times, targets and number of runs: the types of the      *)
(* model, and that no target gets the message of a window twice, a settled *)
(* window stays quiet and an expired item is never reminded.  Everything   *)
(* rests on two invariants: DispatchInv, about rows and calls, and RunInv, *)
(* about the one run under way.                                            *)
(***************************************************************************)
EXTENDS Reminders, TLAPS

DispatchLemmas == INSTANCE NotificationDispatchProofs
                      WITH Keys <- Windows, Bodies <- SUBSET Items, Callers <- Runs,
                           NoKey <- NoWindow, NoBody <- {}, NoCaller <- NoRun

\* The lemmas of NotificationDispatchProofs, about the steps this module takes.
LEMMA DispatchKept ==
    ASSUME Dispatch!DispatchTypeOK, Dispatch!DispatchInv,
           [Dispatch!DispatchStep]_(Dispatch!dispatchVars)
    PROVE  Dispatch!DispatchTypeOK' /\ Dispatch!DispatchInv'
<1> USE DEF Dispatch!DispatchTypeOK, Dispatch!DispatchInv,
            Dispatch!DispatchStep, Dispatch!dispatchVars,
            Dispatch!Reserve, Dispatch!Accept, Dispatch!Reject,
            Dispatch!LoseAnswer, Dispatch!ReceiptUnrecorded,
            Dispatch!FailureUnrecorded, Dispatch!Lapse,
            Dispatch!Return, Dispatch!Abandon, Dispatch!RowStatuses,
            Dispatch!Results, Dispatch!Rows, Dispatch!Calls,
            Dispatch!NoCall, Dispatch!Settled, Dispatch!Abandoned,
            Dispatch!Granted, Dispatch!RowAfter,
            Dispatch!FirstResult, Dispatch!Sending, Dispatch!Holds,
            Dispatch!Finalize, Dispatch!Report, Dispatch!Take,
            Dispatch!Finished, DispatchLemmas!DispatchTypeOK,
            DispatchLemmas!DispatchInv, DispatchLemmas!DispatchStep,
            DispatchLemmas!dispatchVars, DispatchLemmas!Reserve,
            DispatchLemmas!Accept, DispatchLemmas!Reject,
            DispatchLemmas!LoseAnswer,
            DispatchLemmas!ReceiptUnrecorded,
            DispatchLemmas!FailureUnrecorded, DispatchLemmas!Lapse,
            DispatchLemmas!Return, DispatchLemmas!Abandon,
            DispatchLemmas!RowStatuses, DispatchLemmas!Results,
            DispatchLemmas!Rows, DispatchLemmas!Calls,
            DispatchLemmas!NoCall, DispatchLemmas!Settled,
            DispatchLemmas!Abandoned, DispatchLemmas!Granted,
            DispatchLemmas!RowAfter, DispatchLemmas!FirstResult,
            DispatchLemmas!Sending, DispatchLemmas!Holds,
            DispatchLemmas!Finalize, DispatchLemmas!Report,
            DispatchLemmas!Take, DispatchLemmas!Finished
<1>1. Dispatch!DispatchTypeOK'
  BY DispatchLemmas!DispatchTypesKept
<1>2. Dispatch!DispatchInv'
  BY DispatchLemmas!DispatchInvKept
<1>3. QED
  BY <1>1, <1>2

-----------------------------------------------------------------------------
(* Windows.                                                                *)

LEMMA AgendaWindows ==
    ASSUME NEW S \in SUBSET Items, NEW n \in DOMAIN Times
    PROVE  /\ Agenda(S, n) \subseteq Windows
           /\ \A w \in Agenda(S, n) : w[1] = Digest \/ w[1] \in S
<1>1. Agenda(S, n) \subseteq Agenda(Items, n)
  BY DEF Agenda
<1>2. Agenda(Items, n) \subseteq Windows
  BY DEF Windows
<1>3. \A w \in Agenda(S, n) : w[1] = Digest \/ w[1] \in S
  BY DEF Agenda, EscalationWindow, DigestWindow
<1>4. QED
  BY <1>1, <1>2, <1>3

LEMMA WindowItems ==
    \A w \in Windows : w[1] = Digest \/ w[1] \in Items
<1>1. SUFFICES ASSUME NEW w \in Windows
               PROVE  w[1] = Digest \/ w[1] \in Items
  OBVIOUS
<1>2. PICK n \in DOMAIN Times : w \in Agenda(Items, n)
  BY DEF Windows
<1>3. QED
  BY <1>2, AgendaWindows

-----------------------------------------------------------------------------
(* Every step of a run, or around it, is a step of the dispatcher or leaves *)
(* the dispatcher alone.                                                    *)

LEMMA WaitingWindow ==
    ASSUME TypeOK, RunInv, NEW r \in Runs, run[r].pc \in {"resolving", "waiting"}
    PROVE  /\ run[r].window \in Windows
           /\ run[r].window \in run[r].todo
           /\ ~IsFinal(run[r].window)
           /\ Body(r) \in SUBSET Items
<1>1. run[r] \in RunStates
  BY DEF TypeOK
<1>2. run[r].todo \subseteq Windows /\ run[r].listed \subseteq Items
  BY <1>1 DEF RunStates
<1>3. run[r].window \in run[r].todo /\ ~IsFinal(run[r].window)
  BY DEF RunInv
<1>4. run[r].window \in Windows
  BY <1>2, <1>3
<1>5. Body(r) \in SUBSET Items
  BY <1>2, <1>4, WindowItems DEF Body
<1>6. QED
  BY <1>3, <1>4, <1>5

LEMMA StepsOfDispatch ==
    ASSUME TypeOK, RunInv, [Next]_vars
    PROVE  [Dispatch!DispatchStep]_(Dispatch!dispatchVars)
<1> USE DEF Dispatch!dispatchVars
<1>1. ASSUME NEW r \in Runs, RunStep(r)
      PROVE  [Dispatch!DispatchStep]_(Dispatch!dispatchVars)
  <2>1. ASSUME NEW resolved \in SUBSET Targets, Resolve(r, resolved)
        PROVE  Dispatch!DispatchStep
    <3>1. run[r].window \in Windows /\ Body(r) \in SUBSET Items
      BY <2>1, WaitingWindow DEF Resolve
    <3>2. QED
      BY <2>1, <3>1 DEF Resolve, Dispatch!DispatchStep
  <2>2. CASE Record(r) \/ RecordAsFailed(r) \/ RecordThrows(r)
    BY <2>2 DEF Record, RecordAsFailed, RecordThrows, Dispatch!DispatchStep
  <2>3. CASE Tick(r) \/ NotDispatched(r) \/ Finish(r)
    BY <2>3 DEF Tick, StartRun, NotDispatched, Finish
  <2>4. ASSUME NEW w \in run[r].todo,
               SkipExisting(r, w) \/ SkipEmpty(r, w) \/ StartDispatch(r, w)
        PROVE  UNCHANGED Dispatch!dispatchVars
    BY <2>4 DEF SkipExisting, SkipEmpty, StartDispatch
  <2>5. QED
    BY <1>1, <2>1, <2>2, <2>3, <2>4 DEF RunStep
<1>2. ASSUME NEW r \in Runs, NEW w \in Windows, NEW t \in Targets,
             Answered(r, w, t) \/ Fault(r, w, t)
      PROVE  Dispatch!DispatchStep
  BY <1>2 DEF Answered, Fault, Dispatch!DispatchStep
<1>3. ASSUME NEW w \in Windows, NEW t \in Targets, LeaseLapses(w, t)
      PROVE  Dispatch!DispatchStep
  BY <1>3 DEF LeaseLapses, Dispatch!DispatchStep
<1>4. ASSUME NEW i \in Items, Create(i) \/ Complete(i) \/ Reopen(i)
      PROVE  UNCHANGED Dispatch!dispatchVars
  BY <1>4 DEF Create, Complete, Reopen, Operate
<1>5. CASE Restart
  BY <1>5 DEF Restart, Dispatch!DispatchStep
<1>6. CASE Pass \/ UNCHANGED vars
  BY <1>6 DEF Pass, vars
<1>7. QED
  BY <1>1, <1>2, <1>3, <1>4, <1>5, <1>6 DEF Next

-----------------------------------------------------------------------------
(* Types.                                                                  *)

LEMMA RecordTypes ==
    ASSUME TypeOK, NEW w \in Windows, NEW s \in WindowStatuses,
           NEW told \in [Targets -> Dispatch!Results], RecordDelivery(w, s, told)
    PROVE  window' \in [Windows -> [status: WindowStatuses, told: [Targets -> Dispatch!Results]]]
  BY DEF RecordDelivery, TypeOK

LEMMA GoOnTypes ==
    ASSUME TypeOK, NEW r \in Runs, NEW w, GoOn(r, w)
    PROVE  run' \in [Runs -> RunStates]
<1> DEFINE next == [run[r] EXCEPT !.pc = "examining", !.todo = @ \ {w}, !.window = NoWindow]
<1>1. run[r] \in RunStates
  BY DEF TypeOK
<1>2. next \in RunStates
  BY <1>1 DEF RunStates
<1>3. run' = [run EXCEPT ![r] = next]
  BY DEF GoOn
<1>4. QED
  BY <1>2, <1>3 DEF TypeOK

LEMMA IdleTypes ==
    IdleRun \in RunStates /\ NoResult \in [Targets -> Dispatch!Results]
  BY DEF IdleRun, RunStates, NoResult, Dispatch!Results

LEMMA EventTypes ==
    ASSUME TypeOK, Event
    PROVE  events' \in 0..MaxEvents
  BY ReminderAssumption DEF Event, TypeOK

LEMMA RunStepTypes ==
    ASSUME TypeOK, RunInv, Dispatch!DispatchTypeOK', NEW r \in Runs, RunStep(r)
    PROVE  TypeOK'
<1>1. CASE Tick(r)
  <2> DEFINE expired == {i \in Items : item[i] = "active" /\ Deadline[i] < Day(now)}
             active == {i \in Items : item[i] = "active"} \ expired
  <2>1. item' \in [Items -> ItemStatuses]
    BY <1>1 DEF Tick, StartRun, TypeOK, ItemStatuses
  <2>2. Agenda(active, now) \subseteq Windows
    BY AgendaWindows DEF TypeOK
  <2>3. [pc |-> "examining", todo |-> Agenda(active, now), window |-> NoWindow,
         listed |-> {i \in active : Remaining(i, now) > 3}] \in RunStates
    BY <2>2 DEF RunStates
  <2>4. run' \in [Runs -> RunStates]
    BY <1>1, <2>3 DEF Tick, StartRun, TypeOK
  <2>5. QED
    BY <1>1, <2>1, <2>4 DEF Tick, StartRun, TypeOK
<1>2. ASSUME NEW w \in run[r].todo,
             SkipExisting(r, w) \/ SkipEmpty(r, w) \/ StartDispatch(r, w)
      PROVE  TypeOK'
  <2>1. w \in Windows
    BY DEF TypeOK, RunStates
  <2>2. CASE SkipExisting(r, w)
    BY <2>2, GoOnTypes DEF SkipExisting, TypeOK
  <2>3. CASE SkipEmpty(r, w)
    BY <2>1, <2>3, GoOnTypes, RecordTypes, IdleTypes DEF SkipEmpty, TypeOK, WindowStatuses
  <2>4. CASE StartDispatch(r, w)
    <3>1. run' \in [Runs -> RunStates]
      BY SMTT(20), ZenonT(30), <2>1, <2>4 DEF StartDispatch, TypeOK, RunStates
    <3>2. QED
      BY <2>4, <3>1 DEF StartDispatch, TypeOK
  <2>5. QED
    BY <1>2, <2>2, <2>3, <2>4
<1>3. ASSUME NEW resolved \in SUBSET Targets, Resolve(r, resolved)
      PROVE  TypeOK'
  <2>1. run' \in [Runs -> RunStates]
    BY <1>3 DEF Resolve, TypeOK, RunStates
  <2>2. events' \in 0..MaxEvents
    BY <1>3, EventTypes DEF Resolve, TypeOK
  <2>3. QED
    BY <1>3, <2>1, <2>2 DEF Resolve, TypeOK
<1>4. CASE NotDispatched(r)
  <2>1. run[r].window \in Windows
    BY <1>4, WaitingWindow DEF NotDispatched
  <2>2. QED
    BY <1>4, <2>1, GoOnTypes, RecordTypes, IdleTypes, EventTypes
       DEF NotDispatched, TypeOK, WindowStatuses
<1>5. CASE Record(r) \/ RecordAsFailed(r)
  <2>1. run[r].window \in Windows
    BY <1>5, WaitingWindow DEF Record, RecordAsFailed
  <2>2. DeliveryStatus(r) \in WindowStatuses /\ "failed" \in WindowStatuses
    BY DEF DeliveryStatus, WindowStatuses
  <2>3. call[r].result \in [Targets -> Dispatch!Results]
    BY DEF TypeOK, Dispatch!DispatchTypeOK, Dispatch!Calls
  <2>4. window' \in [Windows -> [status: WindowStatuses, told: [Targets -> Dispatch!Results]]]
    BY <1>5, <2>1, <2>2, <2>3, RecordTypes, IdleTypes DEF Record, RecordAsFailed
  <2>5. events' \in 0..MaxEvents
    BY <1>5, EventTypes DEF Record, RecordAsFailed, TypeOK
  <2>6. run' \in [Runs -> RunStates]
    BY <1>5, GoOnTypes DEF Record, RecordAsFailed
  <2>7. QED
    BY <1>5, <2>4, <2>5, <2>6 DEF Record, RecordAsFailed, TypeOK
<1>6. CASE RecordThrows(r) \/ Finish(r)
  <2>1. events' \in 0..MaxEvents
    BY <1>6, EventTypes DEF RecordThrows, Finish, TypeOK
  <2>2. run' \in [Runs -> RunStates] /\ running' \in BOOLEAN
    BY <1>6, IdleTypes DEF RecordThrows, Finish, EndRun, TypeOK
  <2>3. QED
    BY <1>6, <2>1, <2>2 DEF RecordThrows, Finish, TypeOK
<1>7. QED
  BY <1>1, <1>2, <1>3, <1>4, <1>5, <1>6 DEF RunStep

LEMMA TypesKept ==
    ASSUME TypeOK, RunInv, Dispatch!DispatchTypeOK', [Next]_vars
    PROVE  TypeOK'
<1>1. ASSUME NEW r \in Runs, RunStep(r)
      PROVE  TypeOK'
  BY <1>1, RunStepTypes
<1>2. ASSUME NEW r \in Runs, NEW w \in Windows, NEW t \in Targets,
             Answered(r, w, t) \/ Fault(r, w, t)
      PROVE  TypeOK'
  <2>1. UNCHANGED Service /\ (UNCHANGED events \/ Event)
    BY <1>2 DEF Answered, Fault
  <2>2. QED
    BY <2>1, EventTypes DEF Service, TypeOK
<1>3. ASSUME NEW w \in Windows, NEW t \in Targets, LeaseLapses(w, t)
      PROVE  TypeOK'
  BY <1>3 DEF LeaseLapses, Service, TypeOK
<1>4. ASSUME NEW i \in Items, Create(i) \/ Complete(i) \/ Reopen(i)
      PROVE  TypeOK'
  <2>1. item' \in [Items -> ItemStatuses]
    BY <1>4 DEF Create, Complete, Reopen, Operate, TypeOK, ItemStatuses
  <2>2. events' \in 0..MaxEvents
    BY <1>4, EventTypes DEF Create, Complete, Reopen, Operate
  <2>3. QED
    BY <1>4, <2>1, <2>2 DEF Create, Complete, Reopen, Operate, TypeOK
<1>5. CASE Restart
  BY <1>5, IdleTypes, EventTypes DEF Restart, TypeOK
<1>6. CASE Pass
  BY <1>6, ReminderAssumption DEF Pass, TypeOK
<1>7. CASE UNCHANGED vars
  BY <1>7 DEF vars, TypeOK
<1>8. QED
  BY <1>1, <1>2, <1>3, <1>4, <1>5, <1>6, <1>7 DEF Next

-----------------------------------------------------------------------------
(* The one run under way.                                                  *)

LEMMA GoOnKeeps ==
    ASSUME TypeOK, RunInv, NEW r \in Runs, NEW w, Active(r), GoOn(r, w),
           UNCHANGED <<item, running>>
    PROVE  RunInv'
<1>1. \A q \in Runs : Active(q) => q = r
  BY DEF RunInv
<1>2. run'[r].pc = "examining" /\ run'[r].todo \subseteq run[r].todo
  BY DEF GoOn, TypeOK, RunStates
<1>3. \A q \in Runs : q # r => run'[q] = run[q]
  BY DEF GoOn, TypeOK
<1>4. QED
  BY <1>1, <1>2, <1>3 DEF RunInv, Active

LEMMA EndRunKeeps ==
    ASSUME TypeOK, RunInv, NEW r \in Runs, Active(r), EndRun(r)
    PROVE  RunInv'
<1>1. \A q \in Runs : run'[q].pc = "idle"
  BY DEF RunInv, EndRun, IdleRun, Active, TypeOK
<1>2. QED
  BY <1>1 DEF RunInv, Active

LEMMA TickKeeps ==
    ASSUME TypeOK, RunInv, NEW r \in Runs, Tick(r)
    PROVE  RunInv'
<1> DEFINE expired == {i \in Items : item[i] = "active" /\ Deadline[i] < Day(now)}
           active == {i \in Items : item[i] = "active"} \ expired
<1>1. \A q \in Runs : ~Active(q)
  BY DEF RunInv, Tick
<1>2. /\ running' = TRUE
      /\ \A q \in Runs : q # r => run'[q] = run[q]
      /\ run'[r].pc = "examining" /\ run'[r].todo = Agenda(active, now)
  BY DEF Tick, StartRun, TypeOK
<1>3. \A i \in active : item'[i] = "active"
  BY DEF Tick, StartRun
<1>4. \A w \in Agenda(active, now) : w[1] # Digest => w[1] \in active
  BY AgendaWindows DEF TypeOK
<1>5. QED
  BY <1>1, <1>2, <1>3, <1>4 DEF RunInv, Active

LEMMA RunInvKept ==
    ASSUME TypeOK, RunInv, [Next]_vars
    PROVE  RunInv'
<1>1. ASSUME NEW r \in Runs, RunStep(r)
      PROVE  RunInv'
  <2>1. CASE Tick(r)
    BY <2>1, TickKeeps
  <2>2. ASSUME NEW w \in run[r].todo, SkipExisting(r, w) \/ SkipEmpty(r, w)
        PROVE  RunInv'
    <3>1. Active(r) /\ GoOn(r, w)
      BY <2>2 DEF SkipExisting, SkipEmpty, AtHead, Active
    <3>2. QED
      BY <2>2, <3>1, GoOnKeeps DEF SkipExisting, SkipEmpty
  <2>3. ASSUME NEW w \in run[r].todo, StartDispatch(r, w)
        PROVE  RunInv'
    <3>1. /\ run'[r].pc = "resolving" /\ run'[r].window = w /\ run'[r].todo = run[r].todo
          /\ \A q \in Runs : q # r => run'[q] = run[q]
      BY <2>3 DEF StartDispatch, TypeOK, RunStates
    <3>2. ~IsFinal(w) /\ Active(r)
      BY <2>3 DEF StartDispatch, IsTerminal, IsFinal, AtHead, Active
    <3>3. \A q \in Runs : Active(q) => q = r
      BY <3>2 DEF RunInv
    <3>4. UNCHANGED <<item, window, running>> /\ w \in run'[r].todo /\ ~IsFinal(w)'
      BY <2>3, <3>1, <3>2 DEF StartDispatch, IsFinal
    <3>5. \A q \in Runs : Active(q)' => q = r
      BY <3>1, <3>3 DEF Active
    <3>6. QED
      BY <3>1, <3>2, <3>4, <3>5 DEF RunInv, Active
  <2>4. ASSUME NEW resolved \in SUBSET Targets, Resolve(r, resolved)
        PROVE  RunInv'
    <3>1. /\ run'[r].pc = "waiting" /\ run'[r].window = run[r].window
          /\ run'[r].todo = run[r].todo
          /\ \A q \in Runs : q # r => run'[q] = run[q]
      BY <2>4 DEF Resolve, TypeOK, RunStates
    <3>2. Active(r) /\ run[r].pc = "resolving"
      BY <2>4 DEF Resolve, Active
    <3>3. QED
      BY <2>4, <3>1, <3>2 DEF Resolve, RunInv, Active, IsFinal
  <2>5. CASE NotDispatched(r) \/ Record(r) \/ RecordAsFailed(r)
    <3>1. Active(r) /\ GoOn(r, run[r].window) /\ UNCHANGED <<item, running>>
      BY <2>5 DEF NotDispatched, Record, RecordAsFailed, Active
    <3>2. QED
      BY <3>1, GoOnKeeps
  <2>6. CASE RecordThrows(r) \/ Finish(r)
    BY <2>6, EndRunKeeps DEF RecordThrows, Finish, Active
  <2>7. QED
    BY <1>1, <2>1, <2>2, <2>3, <2>4, <2>5, <2>6 DEF RunStep
<1>2. ASSUME UNCHANGED Service
      PROVE  RunInv'
  BY <1>2 DEF Service, RunInv, Active, IsFinal
<1>3. ASSUME NEW i \in Items, Create(i) \/ Complete(i) \/ Reopen(i)
      PROVE  RunInv'
  <2>1. UNCHANGED <<window, running, run>>
    BY <1>3 DEF Create, Complete, Reopen, Operate
  <2>2. \A j \in Items : item[j] # "expired" => item'[j] # "expired"
    BY <1>3 DEF Create, Complete, Reopen, Operate, TypeOK
  <2>3. QED
    BY <2>1, <2>2, WindowItems DEF RunInv, Active, IsFinal
<1>4. CASE Restart
  BY <1>4 DEF Restart, IdleRun, RunInv, Active
<1>5. CASE Pass \/ UNCHANGED vars
  BY <1>5 DEF Pass, vars, RunInv, Active, IsFinal
<1>6. QED
  BY <1>1, <1>2, <1>3, <1>4, <1>5 DEF Next, Answered, Fault, LeaseLapses

-----------------------------------------------------------------------------
(* The theorems.                                                           *)

LEMMA Initially ==
    ASSUME Init
    PROVE  TypeOK /\ RunInv /\ Dispatch!DispatchTypeOK /\ Dispatch!DispatchInv
<1>1. Dispatch!DispatchTypeOK
  BY DEF Init, Dispatch!DispatchInit, Dispatch!DispatchTypeOK, Dispatch!NoRow, Dispatch!NoCall,
         Dispatch!Rows, Dispatch!RowStatuses, Dispatch!Calls, Dispatch!Results
<1>2. Dispatch!DispatchInv
  BY DEF Init, Dispatch!DispatchInit, Dispatch!DispatchInv, Dispatch!Sending, Dispatch!NoCall
<1>3. TypeOK
  <2>1. now \in DOMAIN Times /\ events \in 0..MaxEvents
    BY ReminderAssumption DEF Init
  <2>2. item \in [Items -> ItemStatuses]
    BY DEF Init, ItemStatuses
  <2>3. [status |-> "absent", told |-> NoResult]
            \in [status: WindowStatuses, told: [Targets -> Dispatch!Results]]
    BY IdleTypes DEF WindowStatuses
  <2>4. window \in [Windows -> [status: WindowStatuses, told: [Targets -> Dispatch!Results]]]
    BY <2>3 DEF Init
  <2>5. run \in [Runs -> RunStates] /\ running \in BOOLEAN
    BY IdleTypes DEF Init
  <2>6. QED
    BY <1>1, <2>1, <2>2, <2>4, <2>5 DEF TypeOK
<1>4. RunInv
  BY DEF Init, RunInv, Active, IdleRun
<1>5. QED
  BY <1>1, <1>2, <1>3, <1>4

Invariants == TypeOK /\ RunInv /\ Dispatch!DispatchInv

LEMMA InvariantsKept ==
    ASSUME Invariants, [Next]_vars
    PROVE  Invariants'
<1>1. Dispatch!DispatchTypeOK' /\ Dispatch!DispatchInv'
  BY DispatchKept, StepsOfDispatch DEF Invariants, TypeOK
<1>2. TypeOK'
  BY <1>1, TypesKept DEF Invariants
<1>3. RunInv'
  BY RunInvKept DEF Invariants
<1>4. QED
  BY <1>1, <1>2, <1>3 DEF Invariants

\* Every table, run and call of the reminder service has its type.
THEOREM RemindersTypeCorrect == Spec => []TypeOK
<1>1. Init => Invariants
  BY Initially DEF Invariants
<1>2. Invariants /\ [Next]_vars => Invariants'
  BY InvariantsKept
<1>3. Invariants => TypeOK
  BY DEF Invariants
<1>4. QED
  BY <1>1, <1>2, <1>3, PTL DEF Spec

\* The strengthening: a run that is under way is the only one, and a row that
\* is being sent belongs to one call and has delivered nothing.
THEOREM RemindersInvariant == Spec => []Invariants
<1>1. Init => Invariants
  BY Initially DEF Invariants
<1>2. Invariants /\ [Next]_vars => Invariants'
  BY InvariantsKept
<1>3. QED
  BY <1>1, <1>2, PTL DEF Spec

\* No target gets the message of a window twice.
THEOREM RemindersDeliveredOnce == Spec => []DeliveredOnce
<1>1. Invariants => DeliveredOnce
  BY DEF Invariants, Dispatch!DispatchInv, DeliveredOnce
<1>2. QED
  BY <1>1, RemindersInvariant, PTL

\* A row is only given out by the run that is sending its window.
LEMMA GivenOutByTheRun ==
    ASSUME Invariants, [Next]_vars, NEW w \in Windows, NEW t \in Targets,
           row[w][t].status # "executing", row'[w][t].status = "executing"
    PROVE  \E r \in Runs : run[r].pc = "resolving" /\ run[r].window = w /\ UNCHANGED item
<1>1. row \in [Windows -> [Targets -> Dispatch!Rows]]
  BY DEF Invariants, TypeOK, Dispatch!DispatchTypeOK
<1>2. row' # row
  OBVIOUS
<1>3. ASSUME NEW r \in Runs, RunStep(r)
      PROVE  run[r].pc = "resolving" /\ run[r].window = w /\ UNCHANGED item
  <2>1. PICK resolved \in SUBSET Targets : Resolve(r, resolved)
    BY <1>2, <1>3 DEF RunStep, Tick, StartRun, SkipExisting, SkipEmpty, StartDispatch,
                      NotDispatched, Record, RecordAsFailed, RecordThrows, Finish, Dispatch!Return
  <2>2. run[r].window = w
    BY <1>1, <2>1 DEF Resolve, Dispatch!Reserve
  <2>3. QED
    BY <2>1, <2>2 DEF Resolve
<1>4. ASSUME NEW r \in Runs, NEW v \in Windows, NEW u \in Targets,
             Answered(r, v, u) \/ Fault(r, v, u)
      PROVE  FALSE
  <2>1. PICK s \in {"completed", "failed", "uncertain"} : Dispatch!Finalize(r, v, u, s)
    BY <1>2, <1>4 DEF Answered, Fault, Dispatch!Accept, Dispatch!Reject, Dispatch!LoseAnswer,
                      Dispatch!ReceiptUnrecorded, Dispatch!FailureUnrecorded
  <2>2. row' = [row EXCEPT ![v][u] = Dispatch!Settled(row[v][u], s)]
    BY <2>1 DEF Dispatch!Finalize
  <2>3. Dispatch!Settled(row[v][u], s).status = s
    BY <1>1 DEF Dispatch!Settled, Dispatch!Rows
  <2>4. QED
    BY <1>1, <2>2, <2>3
<1>5. ASSUME NEW v \in Windows, NEW u \in Targets, LeaseLapses(v, u)
      PROVE  FALSE
  <2>1. row[v][u].status = "executing"
    BY <1>5 DEF LeaseLapses, Dispatch!Lapse
  <2>2. <<v, u>> # <<w, t>>
    BY <2>1
  <2>3. row'[w][t] = row[w][t]
    BY <1>1, <1>5, <2>2 DEF LeaseLapses, Dispatch!Lapse
  <2>4. QED
    BY <2>3
<1>6. CASE Restart
  <2>1. row'[w][t] = [row[w][t] EXCEPT !.holder = NoRun]
    BY <1>6 DEF Restart, Dispatch!Abandon
  <2>2. row[w][t] \in Dispatch!Rows
    BY <1>1
  <2>3. row'[w][t].status = row[w][t].status
    BY <2>1, <2>2 DEF Dispatch!Rows
  <2>4. QED
    BY <2>3
<1>7. ASSUME NEW i \in Items, Create(i) \/ Complete(i) \/ Reopen(i)
      PROVE  FALSE
  BY <1>2, <1>7 DEF Create, Complete, Reopen, Operate
<1>8. CASE Pass \/ UNCHANGED vars
  BY <1>2, <1>8 DEF Pass, vars
<1>9. QED
  BY <1>3, <1>4, <1>5, <1>6, <1>7, <1>8 DEF Next

\* A completed, uncertain or skipped window is never sent again to any target.
THEOREM RemindersFinalWindowQuiet == Spec => FinalWindowQuiet
<1>1. Invariants /\ [Next]_vars =>
          [\A w \in Windows, t \in Targets :
              IsFinal(w) => (row'[w][t].status = "executing" => row[w][t].status = "executing")]_vars
  BY GivenOutByTheRun DEF Invariants, RunInv
<1>2. QED
  BY <1>1, RemindersInvariant, PTL DEF Spec, FinalWindowQuiet

\* An expired item is never reminded, whatever a run listed before.
THEOREM RemindersExpiredNeverReminded == Spec => ExpiredNeverReminded
<1>1. ASSUME Invariants, [Next]_vars, NEW w \in Escalations, NEW t \in Targets,
             item[w[1]] = "expired", row'[w][t].status = "executing"
      PROVE  row[w][t].status = "executing"
  <2>1. SUFFICES ASSUME row[w][t].status # "executing" PROVE FALSE
    OBVIOUS
  <2>2. w \in Windows /\ w[1] # Digest
    BY ReminderAssumption DEF Escalations
  <2>3. PICK r \in Runs : run[r].pc = "resolving" /\ run[r].window = w
    BY <1>1, <2>1, <2>2, GivenOutByTheRun
  <2>4. w \in run[r].todo /\ Active(r)
    BY <1>1, <2>3 DEF Invariants, RunInv, Active
  <2>5. QED
    BY <1>1, <2>2, <2>4 DEF Invariants, RunInv
<1>2. Invariants /\ [Next]_vars =>
          [\A w \in Escalations, t \in Targets :
              item[w[1]] = "expired"
                  => (row'[w][t].status = "executing" => row[w][t].status = "executing")]_vars
  BY <1>1
<1>3. QED
  BY <1>2, RemindersInvariant, PTL DEF Spec, ExpiredNeverReminded
=============================================================================
