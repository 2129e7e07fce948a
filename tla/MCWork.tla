------------------------------- MODULE MCWork --------------------------------
(* What the members of Totemora work at: governed development, reports, the    *)
(* growth of a member, the works of the content studio, the commissions of a   *)
(* Skill and their trials, the tasks of the specialists, the registry of Skill *)
(* packages, and the journal for callers of executeOnce.  In the models they   *)
(* share no state, so their product is checked one service at a time: the      *)
(* first state chooses which.  The journal, whose names are those of others,   *)
(* is an instance.                                                             *)
EXTENDS GitFlow, Runs, Growth, Content, SkillTrials, SpecialistTasks, SkillRegistry, TLC

CONSTANTS
    A, B, Only, None

\* The hash of a row that does not exist is no hash.
ASSUME WorkAssumption == None \notin B

VARIABLES
    service,  \* the one this behaviour is of
    action, caller, wire, applied

Journal == INSTANCE ActionJournal WITH
    Keys <- {Only}, Hashes <- B, Callers <- A \cup {Only}, StrictCallers <- A,
    NoHash <- None, MaxAttempts <- 3, row <- action

journalVars == <<action, caller, wire, applied>>

\* While one service is looked at, the others have nothing to do: those with
\* properties of their own wait in a first state, the others are empty.
WorkInit ==
    /\ service \in {"flow", "runs", "growth", "journal", "content", "skills", "tasks", "registry"}
    /\ IF service = "flow" THEN FlowInit
       ELSE /\ proposal = {} /\ calls = {} /\ repo = {} /\ policy = {} /\ hub = {}
            /\ overlapped = {} /\ flowFaults = {}
    /\ IF service = "runs" THEN RunsInit
       ELSE /\ runJob = {} /\ row = {} /\ request = {} /\ trace = {} /\ aborted = {}
            /\ memberCall = {} /\ used = {} /\ promised = {} /\ over = {} /\ runStops = {}
    /\ IF service = "growth" THEN GrowthInit
       ELSE /\ day = {} /\ credited = {} /\ failures = {} /\ version = {} /\ evolution = {}
            /\ asking = {} /\ chat = {} /\ guidance = {} /\ noting = {} /\ milestones = {}
            /\ memberStops = {}
    /\ IF service = "journal" THEN Journal!Init
       ELSE /\ action = {} /\ caller = {} /\ wire = {} /\ applied = {}
    /\ ContentInit /\ SkillsInit /\ TasksInit /\ RegistryInit
    /\ service # "content" => work = NoWork
    /\ service # "registry" => disk = [p \in Packages |-> NoPackage]

\* A service takes its steps while it is the one looked at.
OwnStep(s, next, vars) ==
    \/ service = s /\ next
    \/ service # s /\ UNCHANGED vars

WorkNext ==
    /\ UNCHANGED service
    /\ OwnStep("flow", FlowNext, flowVars) /\ OwnStep("runs", RunsNext, runsVars)
    /\ OwnStep("growth", GrowthNext, growthVars) /\ OwnStep("journal", Journal!Next, journalVars)
    /\ OwnStep("content", ContentNext, contentVars) /\ OwnStep("skills", SkillsNext, skillVars)
    /\ OwnStep("tasks", TasksNext, taskVars) /\ OwnStep("registry", RegistryNext, registryVars)

workVars ==
    <<service, flowVars, runsVars, growthVars, journalVars, contentVars, skillVars, taskVars, registryVars>>

WorkSpec == WorkInit /\ [][WorkNext]_workVars

------------------------------------------------------------------------------

\* Every variable keeps its type.
TypesOK ==
    /\ service = "flow" => FlowTypeOK
    /\ service = "runs" => RunsTypeOK
    /\ service = "growth" => GrowthTypeOK
    /\ service = "journal" => Journal!TypeOK
    /\ service = "content" => ContentTypeOK
    /\ service = "skills" => SkillsTypeOK
    /\ service = "tasks" => TasksTypeOK
    /\ service = "registry" => RegistryTypeOK

\* What is final was reviewed or earned.  GitFlow: one Issue for a proposal,
\* unless two calls drove it at once, and a proposal that is completed was
\* merged as it was reviewed.  Growth: a new version of a member rests on what
\* the member achieved under the version before.
Approved ==
    /\ service = "flow" => IssueOnce /\ CompletedIsMerged
    /\ service = "growth" => VersionsEarned

\* What is reserved is reserved once.  Runs: what is counted and reserved stays
\* within the task's budget, and the job, its row, its request and its trace
\* tell the same story.  ActionJournal: with executeOnce, a lease that has not
\* lapsed has one holder.
ReservedOnce ==
    /\ service = "runs" => WithinBudget /\ RecordsAgree
    /\ service = "journal" => Journal!OneLeaseHolder

Symmetry == Permutations(A) \cup Permutations(B)
=============================================================================
