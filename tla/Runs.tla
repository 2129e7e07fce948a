---------------------------------- MODULE Runs ---------------------------------
(***************************************************************************)
(* General Runs: a job of the Gateway plans, delegates and reviews one     *)
(* read-only task under a token budget.  The chief is called for the plan  *)
(* and the report (each repaired at most once), the members of the plan    *)
(* work at the same time, another member may review.  A job has a row, a   *)
(* request in its mission and a trace file, written one after the other;   *)
(* it may be cancelled, retried after a failure, and cut by a restart.     *)
(* Tokens are counted in units of the smallest output worth asking for.    *)
(***************************************************************************)
EXTENDS Integers, FiniteSets

CONSTANTS
    RunJobs,      \* run jobs
    Chief,        \* the chief member
    Assignments,  \* assignments of a plan
    HasReviewer,  \* whether another member may review the report
    Budget,       \* max_total_tokens of a task
    Prompt,       \* estimated input of a call
    Output,       \* output asked for in a call
    Excess,       \* bound on what a provider counts beyond the reservation
    MaxLive,      \* bound on the jobs that run at the same time
    MaxRunStops   \* bound on the stops of the process

\* A plan assigns to members; the chief is not among its own assignments.
ASSUME RunsAssumption ==
    /\ Chief \notin Assignments /\ IsFiniteSet(Assignments)
    /\ HasReviewer \in BOOLEAN
    /\ {Budget, Prompt, Output, Excess, MaxLive, MaxRunStops} \subseteq Nat

Callers == Assignments \cup {Chief}

Calling == {"planning", "replanning", "working", "reviewing", "rewriting", "second"}

NotCalled == [state |-> "none", reserved |-> 0]

VARIABLES
    runJob,      \* the job in memory and what executeRun is doing for it
    row,         \* its row in the job store
    request,     \* the outcome of its request in the mission
    trace,       \* the status in its trace file
    aborted,     \* the signal of its controller
    memberCall,  \* per assignment, and for the chief, a call that is due, or out with its reservation
    used,        \* tokensUsed: tokens counted by the runtime of the job
    promised,    \* tokensReserved: what its calls that are out may still count
    over,        \* ghost: what providers counted beyond their reservations
    runStops

runsVars == <<runJob, row, request, trace, aborted, memberCall, used, promised, over, runStops>>

RunStatuses == {"absent", "queued", "running", "completed", "failed", "cancelled"}

GeneralStages == Calling \cup {"none", "entering", "snapshot", "throwing", "threw", "ran", "returned", "ending"}

NoRunJob == [status |-> "absent", retryable |-> FALSE, stage |-> "none", end |-> "none"]

Due(callers) == [c \in Callers |-> IF c \in callers THEN [NotCalled EXCEPT !.state = "due"] ELSE NotCalled]

RunsInit ==
    /\ runJob = [j \in RunJobs |-> NoRunJob]
    /\ row = [j \in RunJobs |-> [status |-> "absent", retryable |-> FALSE]]
    /\ request = [j \in RunJobs |-> "absent"]
    /\ trace = [j \in RunJobs |-> "absent"]
    /\ aborted = [j \in RunJobs |-> FALSE]
    /\ memberCall = [j \in RunJobs |-> Due({})]
    /\ used = [j \in RunJobs |-> 0]
    /\ promised = [j \in RunJobs |-> 0]
    /\ over = [j \in RunJobs |-> 0]
    /\ runStops = 0

Live == {j \in RunJobs : runJob[j].status \in {"queued", "running"}}

SaveRow(j, status, retryable) == row' = [row EXCEPT ![j] = [status |-> status, retryable |-> retryable]]

-----------------------------------------------------------------------------
(* The job: enqueueRun, cancelRun and retryRun.                            *)

\* The request is added to its mission first and the row is saved after it.
EnqueueRun(j) ==
    /\ runJob[j].status = "absent" /\ request[j] = "absent"
    /\ Cardinality(Live) < MaxLive
    /\ request' = [request EXCEPT ![j] = "open"]
    /\ runJob' = [runJob EXCEPT ![j] = [NoRunJob EXCEPT !.status = "queued", !.stage = "entering"]]
    /\ UNCHANGED <<row, trace, aborted, memberCall, used, promised, over, runStops>>

\* A new job, in the mission of one that failed in a way worth retrying.
RetryRun(j, k) == runJob[j].status = "failed" /\ runJob[j].retryable /\ EnqueueRun(k)

\* executeRun marks the job as running, in memory only.
SaveJob(j) ==
    /\ runJob[j].stage = "entering"
    /\ SaveRow(j, "queued", FALSE)
    /\ runJob' = [runJob EXCEPT ![j].status = "running", ![j].stage = "snapshot"]
    /\ UNCHANGED <<request, trace, aborted, memberCall, used, promised, over, runStops>>

\* No request is answered between the last steps of a job: they wait for nothing.
Cancel(j) ==
    /\ runJob[j].status = "running" /\ runJob[j].stage # "ending"
    /\ aborted' = [aborted EXCEPT ![j] = TRUE]
    /\ SaveRow(j, "running", FALSE)
    /\ UNCHANGED <<runJob, request, trace, memberCall, used, promised, over, runStops>>

-----------------------------------------------------------------------------
(* callMember: the budget is reserved before a call and settled after it.  *)

\* Mutant of Remaining: what the other calls have reserved is promised again.
RemainingUnused(j) == IF Budget > used[j] THEN Budget - used[j] ELSE 0

Remaining(j) ==
    IF Budget > used[j] + promised[j] THEN Budget - used[j] - promised[j] ELSE 0

Allowed(j) ==
    IF Remaining(j) < Prompt + Output
    THEN IF Remaining(j) < Prompt THEN 0 ELSE Remaining(j) - Prompt
    ELSE Output

Reserve(j, c) ==
    /\ memberCall[j][c].state = "due" /\ ~aborted[j] /\ Allowed(j) > 0
    /\ memberCall' = [memberCall EXCEPT ![j][c] = [state |-> "out", reserved |-> Prompt + Allowed(j)]]
    /\ promised' = [promised EXCEPT ![j] = @ + Prompt + Allowed(j)]
    /\ UNCHANGED <<runJob, row, request, trace, aborted, used, over, runStops>>

\* Whatever a call came to, what it had reserved is free again.
Released(j, c) == promised' = [promised EXCEPT ![j] = @ - memberCall[j][c].reserved]

\* For want of budget, by a signal already given, or by the provider.  The run
\* throws at once; the calls of other assignments go on.
CallFails(j, c) ==
    /\ \/ memberCall[j][c].state = "due" /\ (aborted[j] \/ Allowed(j) = 0)
       \/ memberCall[j][c].state = "out"
    /\ memberCall' = [memberCall EXCEPT ![j][c] = NotCalled]
    /\ runJob' = [runJob EXCEPT ![j].stage = IF @ \in Calling THEN "throwing" ELSE @]
    /\ Released(j, c)
    /\ UNCHANGED <<row, request, trace, aborted, used, over, runStops>>

\* An answer counts t tokens within the reservation and e beyond it.
Count(j, c, t, e) ==
    /\ memberCall[j][c].state = "out"
    /\ t <= memberCall[j][c].reserved /\ (e > 0 => t = memberCall[j][c].reserved)
    /\ used' = [used EXCEPT ![j] = @ + t + e]
    /\ over' = [over EXCEPT ![j] = @ + e]
    /\ Released(j, c)

\* One output is repaired once; its second form is taken or the run throws.
After(stage) ==
    CASE stage = "planning" -> {"working", "replanning"}
      [] stage = "replanning" -> {"working", "throwing"}
      [] stage = "reviewing" -> {IF HasReviewer THEN "second" ELSE "ran", "rewriting"}
      [] stage = "rewriting" -> {IF HasReviewer THEN "second" ELSE "ran", "throwing"}
      [] stage = "second" -> {"ran", "throwing"}
      [] OTHER -> {}

\* A plan that is taken delegates something, and nothing twice.
Plans(next) == IF next = "working" THEN SUBSET Assignments \ {{}} ELSE {{}}

\* The chief answers, or the reviewer in the second review.
ChiefAnswers(j, next, plan) ==
    /\ runJob[j].stage \in Calling
    /\ next \in IF used'[j] > Budget THEN {"throwing"} ELSE After(runJob[j].stage)
    /\ plan \in Plans(next)
    /\ runJob' = [runJob EXCEPT ![j].stage = next]
    /\ memberCall' = [memberCall EXCEPT ![j] = Due(IF next \in Calling \ {"working"} THEN {Chief} ELSE plan)]

\* The last member to answer leaves the results to the chief.  The answer of a
\* run that threw is dropped.
MemberAnswers(j, c) ==
    LET others == {d \in Assignments \ {c} : memberCall[j][d] # NotCalled} IN
    IF runJob[j].stage # "working"
    THEN memberCall' = [memberCall EXCEPT ![j][c] = NotCalled] /\ UNCHANGED runJob
    ELSE IF used'[j] > Budget
    THEN /\ memberCall' = [memberCall EXCEPT ![j][c] = NotCalled]
         /\ runJob' = [runJob EXCEPT ![j].stage = "throwing"]
    ELSE IF others = {}
    THEN /\ memberCall' = [memberCall EXCEPT ![j] = Due({Chief})]
         /\ runJob' = [runJob EXCEPT ![j].stage = "reviewing"]
    ELSE memberCall' = [memberCall EXCEPT ![j][c] = NotCalled] /\ UNCHANGED runJob

Answer(j, c) ==
    /\ \E t \in 1 .. Prompt + Output, e \in 0 .. Excess : Count(j, c, t, e)
    /\ \/ c # Chief /\ MemberAnswers(j, c)
       \/ c = Chief /\ \E next \in Calling \cup {"throwing", "ran"}, plan \in SUBSET Assignments :
                        ChiefAnswers(j, next, plan)
    /\ UNCHANGED <<row, request, trace, aborted, runStops>>

-----------------------------------------------------------------------------
(* The ends of runTask and of executeRun.                                  *)

\* The snapshot is read, the trace is opened and the chief is to plan.
BeginRun(j) ==
    /\ runJob[j].stage = "snapshot"
    /\ trace' = [trace EXCEPT ![j] = "running"]
    /\ SaveRow(j, "running", FALSE)
    /\ runJob' = [runJob EXCEPT ![j].stage = "planning"]
    /\ memberCall' = [memberCall EXCEPT ![j] = Due({Chief})]
    /\ UNCHANGED <<request, aborted, used, promised, over, runStops>>

SnapshotFails(j) ==
    /\ runJob[j].stage = "snapshot"
    /\ runJob' = [runJob EXCEPT ![j].stage = "threw"]
    /\ UNCHANGED <<row, request, trace, aborted, memberCall, used, promised, over, runStops>>

\* The members of a plan are all called in the same step of the program.
TraceFailure(j) ==
    /\ runJob[j].stage = "throwing" /\ \A c \in Callers : memberCall[j][c].state # "due"
    /\ trace' = [trace EXCEPT ![j] = IF aborted[j] THEN "cancelled" ELSE "failed"]
    /\ runJob' = [runJob EXCEPT ![j].stage = "threw"]
    /\ UNCHANGED <<row, request, aborted, memberCall, used, promised, over, runStops>>

TraceCompleted(j) ==
    /\ runJob[j].stage = "ran"
    /\ trace' = [trace EXCEPT ![j] = "completed"]
    /\ runJob' = [runJob EXCEPT ![j].stage = "returned"]
    /\ UNCHANGED <<row, request, aborted, memberCall, used, promised, over, runStops>>

SettleRequest(j, retryable) ==
    /\ \/ /\ runJob[j].stage = "returned" /\ ~retryable
          /\ request' = [request EXCEPT ![j] = "completed"]
          /\ runJob' = [runJob EXCEPT ![j].stage = "ending", ![j].end = "completed"]
       \/ /\ runJob[j].stage = "threw"
          /\ request' = [request EXCEPT ![j] = "failed"]
          /\ runJob' = [runJob EXCEPT ![j].stage = "ending", ![j].retryable = retryable /\ ~aborted[j],
                                ![j].end = IF aborted[j] THEN "cancelled" ELSE "failed"]
    /\ UNCHANGED <<row, trace, aborted, memberCall, used, promised, over, runStops>>

\* Mutant of Ended: a job whose cancellation came too late is cancelled all the same.
EndedBySignal(j) == IF aborted[j] THEN "cancelled" ELSE runJob[j].end

Ended(j) == runJob[j].end

EndJob(j) ==
    /\ runJob[j].stage = "ending"
    /\ SaveRow(j, Ended(j), runJob[j].retryable)
    /\ runJob' = [runJob EXCEPT ![j].status = Ended(j), ![j].stage = "none"]
    /\ aborted' = [aborted EXCEPT ![j] = TRUE]
    /\ UNCHANGED <<request, trace, memberCall, used, promised, over, runStops>>

\* A job that was queued or running fails; whoever wants it retries it.
RunsRestart ==
    LET hydrated(j) == IF row[j].status \in {"queued", "running"}
                       THEN [status |-> "failed", retryable |-> TRUE] ELSE row[j]
    IN
    /\ runStops < MaxRunStops
    /\ runStops' = runStops + 1
    /\ row' = [j \in RunJobs |-> hydrated(j)]
    /\ runJob' = [j \in RunJobs |-> [NoRunJob EXCEPT !.status = hydrated(j).status,
                                            !.retryable = hydrated(j).retryable]]
    /\ aborted' = [j \in RunJobs |-> FALSE]
    /\ memberCall' = [j \in RunJobs |-> Due({})]
    /\ used' = [j \in RunJobs |-> 0]
    /\ promised' = [j \in RunJobs |-> 0]
    /\ over' = [j \in RunJobs |-> 0]
    /\ UNCHANGED <<request, trace>>

RunsNext ==
    \/ RunsRestart
    \/ \E j \in RunJobs :
        \/ EnqueueRun(j) \/ SaveJob(j) \/ Cancel(j) \/ BeginRun(j) \/ SnapshotFails(j)
        \/ TraceFailure(j) \/ TraceCompleted(j) \/ EndJob(j)
        \/ \E k \in RunJobs : RetryRun(j, k)
        \/ \E c \in Callers : Reserve(j, c) \/ Answer(j, c) \/ CallFails(j, c)
        \/ \E retryable \in BOOLEAN : SettleRequest(j, retryable)

RunsSpec == RunsInit /\ [][RunsNext]_runsVars

RunsTypeOK ==
    /\ runJob \in [RunJobs -> [status: RunStatuses, retryable: BOOLEAN, stage: GeneralStages,
                               end: {"none", "completed", "failed", "cancelled"}]]
    /\ row \in [RunJobs -> [status: RunStatuses, retryable: BOOLEAN]]
    /\ request \in [RunJobs -> {"absent", "open", "completed", "failed"}]
    /\ trace \in [RunJobs -> {"absent", "running", "completed", "failed", "cancelled"}]
    /\ memberCall \in [RunJobs -> [Callers -> [state: {"none", "due", "out"}, reserved: 0 .. Prompt + Output]]]
    /\ aborted \in [RunJobs -> BOOLEAN]
    /\ used \in [RunJobs -> Nat] /\ promised \in [RunJobs -> Nat] /\ over \in [RunJobs -> Nat]
    /\ runStops \in 0..MaxRunStops

\* What the calls that are out may still count, token by token.
Outstanding(j) == {p \in Callers \X (1 .. Prompt + Output) : p[2] <= memberCall[j][p[1]].reserved}

\* docs/v0.2-test-guide.md, "total token hard budget": however many members are
\* called at the same time, and however their calls end, the runtime's count of
\* what is promised is what the calls that are out may still use; with what was
\* counted it stays within the budget, but for what providers count beyond the
\* output they were allowed.
WithinBudget ==
    \A j \in RunJobs :
        /\ promised[j] = Cardinality(Outstanding(j))
        /\ used[j] + promised[j] <= Budget + over[j]

\* A completed job has a completed trace and is completed in its mission, a
\* cancelled one is not, and a mission never shows a result without its trace,
\* whenever the cancellation or the stop came.
RecordsAgree ==
    \A j \in RunJobs :
        /\ row[j].status = "completed" => request[j] = "completed"
        /\ row[j].status = "cancelled" => request[j] = "failed" /\ trace[j] # "completed"
        /\ request[j] = "completed" => trace[j] = "completed"
=============================================================================
