---------------------------- MODULE SpecialistTasks ----------------------------
(***************************************************************************)
(* The task runners of Git Flow ("git") and of the two intelligence        *)
(* watches ("watch"), with the envelope each run has in specialist_tasks.  *)
(* A runner keeps every job twice, in a map of the process and in the job  *)
(* store; envelope and job are written one after the other, so the process *)
(* may stop in between.  The service a job calls is module GitFlow or the  *)
(* scan that feeds module Intelligence; here it only ends well or badly.   *)
(***************************************************************************)
EXTENDS Naturals

CONSTANTS
    MaxJobs,     \* bound on the jobs
    Keys,        \* idempotency keys of callers
    NoKey,       \* the caller gave none
    MaxCrashes   \* bound on restarts of the Gateway

ASSUME TasksAssumption == MaxCrashes \in Nat

VARIABLES
    job,         \* the job store: status, kind and key
    jobMap,      \* the map of the process: status as the API shows it
    taskRow,     \* specialist_tasks: status, and whether result_ref is set
    call,        \* where the process is with a job
    gateway,     \* "down", "hydrating" or "up"
    crashes

taskVars == <<job, jobMap, taskRow, call, gateway, crashes>>

Jobs == 1..MaxJobs

JobStatuses == {"absent", "queued", "running", "completed", "failed"}

EnvelopeStatuses == {"absent", "queued", "running", "waiting_approval", "waiting_external",
                     "completed", "failed"}

Steps == {"none", "binding", "creating", "starting", "announcing", "serving",
          "served", "broken", "reporting", "recovering"}

NoJob == [status |-> "absent", kind |-> "git", key |-> NoKey]

NoEnvelope == [status |-> "absent", ref |-> FALSE]

TasksInit ==
    /\ job = [i \in Jobs |-> NoJob]
    /\ jobMap = [i \in Jobs |-> "absent"]
    /\ taskRow = [i \in Jobs |-> NoEnvelope]
    /\ call = [i \in Jobs |-> "none"]
    /\ gateway = "up"
    /\ crashes = 0

Goto(i, pc) == call' = [call EXCEPT ![i] = pc]

SetJob(i, s) ==
    /\ job' = [job EXCEPT ![i].status = s]
    /\ jobMap' = [jobMap EXCEPT ![i] = s]

-----------------------------------------------------------------------------
(* enqueue and execute.                                                    *)

Existing(key) ==
    {j \in Jobs : jobMap[j] # "absent" /\ job[j].kind = "watch" /\ job[j].key = key}

\* Mutant of Admitted: the lookup does not wait for the hydration.
AdmittedAtOnce(kind, key) ==
    gateway # "down" /\ (kind = "git" \/ key = NoKey \/ Existing(key) = {})

\* A repeated key is answered with the job that has it, or refused if the
\* input differs: either way there is no new job.  Git Flow knows no keys.
Admitted(kind, key) ==
    \/ kind = "git" /\ key = NoKey /\ gateway # "down"
    \/ kind = "watch" /\ gateway = "up" /\ (key = NoKey \/ Existing(key) = {})

Enqueue(i, kind, key) ==
    /\ Admitted(kind, key)
    /\ job[i].status = "absent"
    /\ \A j \in 1..(i - 1) : job[j].status # "absent" \/ taskRow[j].status # "absent"
    /\ taskRow[i].status = "absent"
    /\ job' = [job EXCEPT ![i] = [status |-> "queued", kind |-> kind, key |-> key]]
    /\ jobMap' = [jobMap EXCEPT ![i] = "queued"]
    /\ Goto(i, "binding")
    /\ UNCHANGED <<taskRow, gateway, crashes>>

\* ensureServiceBindings; when it throws the job stays queued, with its key.
Bind(i) ==
    /\ call[i] = "binding"
    /\ Goto(i, "creating") \/ Goto(i, "none")
    /\ UNCHANGED <<job, jobMap, taskRow, gateway, crashes>>

CreateEnvelope(i) ==
    /\ call[i] = "creating"
    /\ taskRow' = [taskRow EXCEPT ![i].status = "queued"]
    /\ Goto(i, "starting")
    /\ UNCHANGED <<job, jobMap, gateway, crashes>>

Start(i) ==
    /\ call[i] = "starting"
    /\ SetJob(i, "running")
    /\ Goto(i, "announcing")
    /\ UNCHANGED <<taskRow, gateway, crashes>>

Announce(i) ==
    /\ call[i] = "announcing"
    /\ taskRow' = [taskRow EXCEPT ![i].status = "running"]
    /\ Goto(i, "serving")
    /\ UNCHANGED <<job, jobMap, gateway, crashes>>

Serve(i, outcome) ==
    /\ call[i] = "serving"
    /\ Goto(i, outcome)
    /\ UNCHANGED <<job, jobMap, taskRow, gateway, crashes>>

\* Mutant of SaveEnd: the envelope is closed before the job.
SaveEndLate(i) ==
    /\ call[i] \in {"served", "broken"}
    /\ Goto(i, "reporting")
    /\ UNCHANGED <<job, jobMap, taskRow, gateway, crashes>>

\* The terminal copy of the task; a later growth review writes the same status.
SaveEnd(i) ==
    /\ call[i] \in {"served", "broken"}
    /\ SetJob(i, IF call[i] = "served" THEN "completed" ELSE "failed")
    /\ Goto(i, "reporting")
    /\ UNCHANGED <<taskRow, gateway, crashes>>

Reported(i) ==
    IF job[i].status = "failed" THEN "failed"
    ELSE IF job[i].kind = "git" THEN "waiting_approval" ELSE "completed"

Report(i) ==
    /\ call[i] = "reporting"
    /\ taskRow' = [taskRow EXCEPT ![i] = [status |-> Reported(i),
                                            ref |-> job[i].status = "completed"]]
    /\ Goto(i, "none")
    /\ UNCHANGED <<job, jobMap, gateway, crashes>>

\* syncSpecialistTask after a gate of Git Flow: the envelope is found by its
\* result_ref, and takes the status that goes with the proposal's.
Synced == {"running", "waiting_approval", "waiting_external", "completed", "failed"}

Sync(i, s) ==
    /\ gateway # "down"
    /\ job[i].status # "absent" /\ job[i].kind = "git"
    /\ taskRow[i].ref
    /\ taskRow' = [taskRow EXCEPT ![i].status = s]
    /\ UNCHANGED <<job, jobMap, call, gateway, crashes>>

\* runScheduled: a scan that a tick made gets a finished envelope and no job.
RunScheduled(i) ==
    /\ gateway = "up"
    /\ job[i].status = "absent"
    /\ taskRow[i].status = "absent"
    /\ taskRow' = [taskRow EXCEPT ![i] = [status |-> "completed", ref |-> TRUE]]
    /\ UNCHANGED <<job, jobMap, call, gateway, crashes>>

-----------------------------------------------------------------------------
(* Restart.                                                                *)

Crash ==
    /\ gateway # "down"
    /\ crashes < MaxCrashes
    /\ gateway' = "down"
    /\ jobMap' = [i \in Jobs |-> "absent"]
    /\ call' = [i \in Jobs |-> "none"]
    /\ crashes' = crashes + 1
    /\ UNCHANGED <<job, taskRow>>

Boot ==
    /\ gateway = "down"
    /\ gateway' = "hydrating"
    /\ UNCHANGED <<job, jobMap, taskRow, call, crashes>>

\* The jobs hydrate has not come to; those enqueued meanwhile are in the map.
Unread == {i \in Jobs : job[i].status # "absent" /\ jobMap[i] = "absent"}

Interrupted(i) == job[i].status \in {"queued", "running"}

\* hydrate takes the jobs one by one: an interrupted one is first saved as
\* failed, then failInterruptedSpecialistTask closes its envelope.
HydrateSettled(i) ==
    /\ gateway = "hydrating"
    /\ i \in Unread
    /\ ~Interrupted(i)
    /\ \A j \in Jobs : call[j] # "recovering"
    /\ jobMap' = [jobMap EXCEPT ![i] = job[i].status]
    /\ UNCHANGED <<job, taskRow, call, gateway, crashes>>

FailInterrupted(i) ==
    /\ gateway = "hydrating"
    /\ i \in Unread
    /\ Interrupted(i)
    /\ \A j \in Jobs : call[j] # "recovering"
    /\ job' = [job EXCEPT ![i].status = "failed"]
    /\ Goto(i, "recovering")
    /\ UNCHANGED <<jobMap, taskRow, gateway, crashes>>

FailEnvelope(i) ==
    /\ call[i] = "recovering"
    /\ taskRow' = IF taskRow[i].status \in {"queued", "running"}
                   THEN [taskRow EXCEPT ![i] = [status |-> "failed", ref |-> FALSE]]
                   ELSE taskRow
    /\ jobMap' = [jobMap EXCEPT ![i] = job[i].status]
    /\ Goto(i, "none")
    /\ UNCHANGED <<job, gateway, crashes>>

Ready ==
    /\ gateway = "hydrating"
    /\ Unread = {}
    /\ gateway' = "up"
    /\ UNCHANGED <<job, jobMap, taskRow, call, crashes>>

TasksNext ==
    \/ \E i \in Jobs :
        \/ \E kind \in {"git", "watch"}, key \in Keys \cup {NoKey} : Enqueue(i, kind, key)
        \/ Bind(i) \/ CreateEnvelope(i) \/ Start(i) \/ Announce(i)
        \/ \E outcome \in {"served", "broken"} : Serve(i, outcome)
        \/ SaveEnd(i) \/ Report(i)
        \/ \E s \in Synced : Sync(i, s)
        \/ RunScheduled(i)
        \/ HydrateSettled(i) \/ FailInterrupted(i) \/ FailEnvelope(i)
    \/ Crash \/ Boot \/ Ready

TasksSpec == TasksInit /\ [][TasksNext]_taskVars

-----------------------------------------------------------------------------
TasksTypeOK ==
    /\ job \in [Jobs -> [status: JobStatuses, kind: {"git", "watch"}, key: Keys \cup {NoKey}]]
    /\ jobMap \in [Jobs -> JobStatuses]
    /\ taskRow \in [Jobs -> [status: EnvelopeStatuses, ref: BOOLEAN]]
    /\ call \in [Jobs -> Steps]
    /\ gateway \in {"down", "hydrating", "up"}
    /\ crashes \in 0..MaxCrashes

\* A caller that repeats its key never starts a second scan, also while the
\* process that took the first one is being replaced (enqueue of the
\* intelligence runner looks the key up in the map, after await this.ready).
OneJobPerKey ==
    \A i, j \in Jobs :
        /\ job[i].status # "absent" /\ job[i].key # NoKey
        /\ job[j].status # "absent" /\ job[j].key = job[i].key
        => i = j

\* No envelope says more than its job: it is closed as a success only after
\* the job has been saved as one.
EnvelopeBehindJob ==
    \A i \in Jobs :
        /\ taskRow[i].status \in {"waiting_approval", "waiting_external", "completed"}
        /\ job[i].status # "absent"
        => job[i].status = "completed"

=============================================================================
