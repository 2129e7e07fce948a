------------------------------ MODULE SkillTrials ------------------------------
(***************************************************************************)
(* Skill commissions of git.flow and their trials: SkillCommissionService  *)
(* (dialogue with the Chief, package, trials, activation, rollback),       *)
(* SkillTrialRunnerService (automatic trials under a lease per commission) *)
(* and SkillGovernanceStore (the older overlay of approved additions).     *)
(* All commissions here ask for the same Skill of the same member, so that *)
(* they compete.  What the dialogue says is left out.                      *)
(*                                                                         *)
(* Versions count from the built-in one, which is 0.                       *)
(***************************************************************************)
EXTENDS FiniteSets, Naturals

CONSTANTS
    Commissions,
    NoCommission,  \* no managed package was loaded
    TrialRuns,     \* automatic trials: their idempotency keys
    NoTrialRun,
    FlowTasks,     \* Git Flow tasks an operator starts, with or without a Skill on trial
    Situations,    \* workplace, goal, snapshot, policy, mode and reviewer of an evaluation
    Additions,     \* improvement proposals for the overlay
    Needed,        \* accepted trials an activation needs (3)
    MaxDrafts      \* bound on the packages the Chief drafts

ASSUME SkillsAssumption ==
    /\ NoCommission \notin Commissions
    /\ NoTrialRun \notin TrialRuns
    /\ IsFiniteSet(Commissions) /\ IsFiniteSet(TrialRuns)
    /\ IsFiniteSet(FlowTasks) /\ IsFiniteSet(Additions)
    /\ Needed \in Nat \ {0}
    /\ MaxDrafts \in Nat

VARIABLES
    commission,    \* skill_commissions with the package and the skill_activations row
    replies,       \* the latest call of the Chief under way, and whether its revision is current
    drafts,        \* packages drafted so far
    flowTask,      \* the evaluation in the specialist task of an operator's Git Flow task
    trials,        \* skill_trials
    run,           \* skill_trial_runs, with what its baseline and its trial loaded
    trialTask,     \* the specialist task of a run
    executing,     \* where a process is with a run
    lease,         \* skill_trial_run_leases
    overlay        \* approved additions, and the status of each proposal

skillVars == <<commission, replies, drafts, flowTask, trials, run, trialTask, executing, lease,
               overlay>>

CommissionStatuses == {"absent", "discovering", "draft", "trial", "activation_proposed",
                       "active", "superseded", "suspended", "cancelled"}

ActivationStatuses == {"none", "active", "superseded", "rolled_back"}

RunningStages == {"baseline", "trial", "review", "record"}

RunStages == {"absent", "queued", "completed", "failed"} \cup RunningStages

TaskStatuses == {"absent", "queued", "running", "completed", "failed"}

NoDraft == 0

\* What a prepared proposal had loaded: the package of a commission, or none.
Unmanaged == [of |-> NoCommission, pkg |-> NoDraft]

Freed == [run |-> NoTrialRun, claimed |-> FALSE, live |-> FALSE]

SkillsInit ==
    /\ commission = [c \in Commissions |-> [status |-> "absent", pkg |-> NoDraft, base |-> 0,
                                            version |-> 0, activation |-> "none"]]
    /\ replies = [c \in Commissions |-> "none"]
    /\ drafts = 0
    /\ flowTask \in [FlowTasks -> [state : {"none"}, loaded : {Unmanaged}, situation : Situations,
                                   accepted : {FALSE}]]
    /\ trials = {}
    /\ run \in [TrialRuns -> [stage : {"absent"}, of : {NoCommission}, situation : Situations,
                              baseline : {Unmanaged}, trial : {Unmanaged}, worked : {FALSE},
                              outcome : {FALSE}]]
    /\ trialTask = [r \in TrialRuns |-> "absent"]
    /\ executing = [r \in TrialRuns |-> "none"]
    /\ lease = [c \in Commissions |-> Freed]
    /\ overlay = [version |-> 0, base |-> [a \in Additions |-> 0],
                  status |-> [a \in Additions |-> "absent"]]

runVars == <<run, trialTask, executing, lease>>

CommissionStatus(c) == commission[c].status

\* updateCommission bumps the revision: what the Chief is asked becomes stale.
Stale(reply) == IF reply = "fresh" THEN "stale" ELSE reply

UpdateCommission(c, row) ==
    /\ commission' = [commission EXCEPT ![c] = row]
    /\ replies' = [replies EXCEPT ![c] = Stale(@)]

-----------------------------------------------------------------------------
(* The dialogue.                                                           *)

Highest(S) == CHOOSE v \in S : \A w \in S : w <= v

Actives == {c \in Commissions : commission[c].activation = "active"}

ActiveVersion == Highest({commission[c].version : c \in Actives} \cup {overlay.version})

\* The overlay is not looked at here.
NextVersion ==
    Highest({commission[c].version : c \in {d \in Commissions : commission[d].activation # "none"}} \cup {0}) + 1

\* create and addMessage reserve the revision and then wait for the Chief; an
\* earlier call, stale from now on, will only find that out.
AddMessage(c) ==
    /\ CommissionStatus(c) \in {"absent", "discovering", "draft"}
    /\ commission' = [commission EXCEPT ![c].status = IF @ = "absent" THEN "discovering" ELSE @]
    /\ replies' = [replies EXCEPT ![c] = "fresh"]
    /\ UNCHANGED <<drafts, flowTask, trials, runVars, overlay>>

Drafted(c) ==
    [commission[c] EXCEPT !.status = "draft", !.pkg = drafts + 1,
                          !.base = ActiveVersion, !.version = NextVersion]

\* Mutant of Current: the reply is applied to whatever the commission is by now.
AnyReply(c) == replies[c] # "none"

Current(c) == replies[c] = "fresh" /\ CommissionStatus(c) \in {"discovering", "draft"}

\* A reply that is not ready takes the commission back, with the old package.
ChiefReplies(c) ==
    /\ Current(c)
    /\ \/ /\ drafts < MaxDrafts
          /\ drafts' = drafts + 1
          /\ commission' = [commission EXCEPT ![c] = Drafted(c)]
       \/ /\ commission' = [commission EXCEPT ![c].status = "discovering"]
          /\ UNCHANGED drafts
    /\ replies' = [replies EXCEPT ![c] = "none"]
    /\ UNCHANGED <<flowTask, trials, runVars, overlay>>

\* The Chief's second answer is invalid too, its package is refused, or its
\* reply is stale.
ReplyLost(c) ==
    /\ replies[c] # "none"
    /\ replies' = [replies EXCEPT ![c] = "none"]
    /\ UNCHANGED <<commission, drafts, flowTask, trials, runVars, overlay>>

ValidatePackage(c) ==
    /\ CommissionStatus(c) = "draft"
    /\ commission[c].pkg # NoDraft
    /\ UpdateCommission(c, [commission[c] EXCEPT !.status = "trial"])
    /\ UNCHANGED <<drafts, flowTask, trials, runVars, overlay>>

CancelCommission(c) ==
    /\ CommissionStatus(c) \notin {"absent", "active", "suspended", "cancelled"}
    /\ UpdateCommission(c, [commission[c] EXCEPT !.status = "cancelled"])
    /\ UNCHANGED <<drafts, flowTask, trials, runVars, overlay>>

-----------------------------------------------------------------------------
(* Activation.                                                             *)

AcceptedTrials(c) == {t \in trials : t.of = c /\ t.accepted}

ProposeActivation(c) ==
    /\ CommissionStatus(c) = "trial"
    /\ Cardinality(AcceptedTrials(c)) >= Needed
    /\ UpdateCommission(c, [commission[c] EXCEPT !.status = "activation_proposed"])
    /\ UNCHANGED <<drafts, flowTask, trials, runVars, overlay>>

\* An operator other than the target member approves; a stale base is refused.
Activate(c) ==
    /\ CommissionStatus(c) = "activation_proposed"
    /\ commission[c].base = ActiveVersion
    /\ commission' = [d \in Commissions |->
           IF d = c THEN [commission[d] EXCEPT !.status = "active", !.activation = "active"]
           ELSE IF d \in Actives
                THEN [commission[d] EXCEPT !.status = "superseded", !.activation = "superseded"]
                ELSE commission[d]]
    /\ replies' = [d \in Commissions |-> IF d = c \/ d \in Actives
                                         THEN Stale(replies[d]) ELSE replies[d]]
    /\ UNCHANGED <<drafts, flowTask, trials, runVars, overlay>>

\* The superseded version that a rollback of c puts back: the highest below it.
Earlier(c) ==
    {d \in Commissions : /\ commission[d].activation = "superseded"
                         /\ commission[d].version < commission[c].version}

Previous(c) ==
    {d \in Earlier(c) : \A e \in Earlier(c) : commission[e].version <= commission[d].version}

Rollback(c) ==
    /\ CommissionStatus(c) = "active"
    /\ \E restored \in (IF Previous(c) = {} THEN {NoCommission} ELSE Previous(c)) :
           /\ commission' = [d \in Commissions |->
                  IF d = c THEN [commission[d] EXCEPT !.status = "suspended", !.activation = "rolled_back"]
                  ELSE IF d = restored
                       THEN [commission[d] EXCEPT !.status = "active", !.activation = "active"]
                       ELSE commission[d]]
           /\ replies' = [d \in Commissions |-> IF d \in {c, restored} THEN Stale(replies[d]) ELSE replies[d]]
    /\ UNCHANGED <<drafts, flowTask, trials, runVars, overlay>>

-----------------------------------------------------------------------------
(* Evidence.                                                               *)

\* prepare refuses a trial whose package was not drafted on the built-in
\* version, and leaves out an active package that was not.
Loadable(c) == CommissionStatus(c) = "trial" /\ commission[c].base = 0

Load(c) == [of |-> c, pkg |-> commission[c].pkg]

InUse ==
    LET newest == {c \in Actives : \A d \in Actives : commission[d].version <= commission[c].version}
    IN {IF commission[c].base = 0 THEN Load(c) ELSE Unmanaged : c \in newest}
       \cup (IF Actives = {} THEN {Unmanaged} ELSE {})

\* An operator's task prepares a proposal, to try a Skill or just for itself.
PrepareTask(t) ==
    /\ flowTask[t].state = "none"
    /\ \E loaded \in InUse \cup {Load(c) : c \in {d \in Commissions : Loadable(d)}}, ok \in BOOLEAN :
           flowTask' = [flowTask EXCEPT ![t].state = "open", ![t].loaded = loaded, ![t].accepted = ok]
    /\ UNCHANGED <<commission, replies, drafts, trials, runVars, overlay>>

\* The gates of the proposal move the task out of, or back into, the statuses
\* in which its evaluation counts.
MoveTask(t) ==
    /\ flowTask[t].state # "none"
    /\ flowTask' = [flowTask EXCEPT ![t].state = IF @ = "open" THEN "closed" ELSE "open"]
    /\ UNCHANGED <<commission, replies, drafts, trials, runVars, overlay>>

Evaluation(id, loaded, situation, ok) ==
    [id |-> id, loaded |-> loaded, situation |-> situation, accepted |-> ok]

\* A task is found by its own id and by that of its proposal; a run that
\* completed has left two records.
TaskEvidence ==
    {Evaluation(<<t, name>>, flowTask[t].loaded, flowTask[t].situation, flowTask[t].accepted) :
        t \in {x \in FlowTasks : flowTask[x].state = "open"}, name \in {"task", "proposal"}}

\* Whether a baseline was accepted is kept and nowhere asked for.
BaselineRecord(r) == Evaluation(<<r, "baseline">>, run[r].baseline, run[r].situation, TRUE)

TrialRecord(r) ==
    Evaluation(<<r, "trial">>, run[r].trial, run[r].situation, run[r].worked /\ run[r].outcome)

RunEvidence ==
    UNION {{BaselineRecord(r), TrialRecord(r)} : r \in {x \in TrialRuns : run[x].stage = "completed"}}

\* requireEvidence for a baseline: nothing managed was loaded, unless a version
\* of the Skill stood where the package was drafted.
Priors(c) == {d \in Commissions : /\ commission[d].activation # "none"
                                  /\ commission[d].version = commission[c].base}

IsBaseline(b, c) ==
    /\ b.loaded.of # c
    /\ IF Priors(c) = {} THEN b.loaded = Unmanaged
       ELSE b.loaded.pkg \in {commission[d].pkg : d \in Priors(c)}

\* skill_trials row; the table takes each piece of trial evidence once.
TrialRow(c, e, accepted) == [of |-> c, by |-> e.id, pkg |-> e.loaded.pkg, accepted |-> accepted]

\* recordTrial.  A trial is good for the package it ran with, once.
Recordable(c, b, e, accepted) ==
    /\ CommissionStatus(c) = "trial"
    /\ b.id # e.id
    /\ IsBaseline(b, c)
    /\ e.loaded = Load(c)
    /\ b.situation = e.situation
    /\ accepted => e.accepted
    /\ \A t \in trials : ~(t.of = c /\ t.by = e.id)

RecordTrial(c, accepted) ==
    /\ \E b, e \in TaskEvidence \cup RunEvidence :
           /\ Recordable(c, b, e, accepted)
           /\ trials' = trials \cup {TrialRow(c, e, accepted)}
    /\ UNCHANGED <<commission, replies, drafts, flowTask, runVars, overlay>>

-----------------------------------------------------------------------------
(* Automatic trials.                                                       *)

\* Mutant of Owns: a run that was claimed counts as owned.
OwnsSinceClaim(r) == run[r].of # NoCommission

Owns(r) == lease[run[r].of] = [run |-> r, claimed |-> TRUE, live |-> lease[run[r].of].live]

Unfinished(r) == run[r].stage \in {"queued"} \cup RunningStages

StartRun(r, c) ==
    /\ run[r].stage = "absent"
    /\ CommissionStatus(c) = "trial"
    /\ \A s \in TrialRuns : run[s].of = c => ~Unfinished(s)
    /\ lease[c].run = NoTrialRun
    /\ run' = [run EXCEPT ![r].stage = "queued", ![r].of = c]
    /\ trialTask' = [trialTask EXCEPT ![r] = "queued"]
    /\ lease' = [lease EXCEPT ![c] = [run |-> r, claimed |-> FALSE, live |-> FALSE]]
    /\ UNCHANGED <<commission, replies, drafts, flowTask, trials, executing, overlay>>

\* updateTask: a closed task stays as it is.
MoveTrialTask(r, status) ==
    trialTask' = [trialTask EXCEPT ![r] = IF @ \in {"completed", "failed"} THEN @ ELSE status]

\* By the process that queued the run, or a later one's recover.
ClaimRun(r) ==
    /\ run[r].stage = "queued"
    /\ lease[run[r].of].run = r /\ ~lease[run[r].of].live
    /\ lease' = [lease EXCEPT ![run[r].of] = [run |-> r, claimed |-> TRUE, live |-> TRUE]]
    /\ run' = [run EXCEPT ![r].stage = "baseline"]
    /\ MoveTrialTask(r, "running")
    /\ executing' = [executing EXCEPT ![r] = "baseline"]
    /\ UNCHANGED <<commission, replies, drafts, flowTask, trials, overlay>>

\* renew between the stages: it looks at the token, not at the expiry.
Renewed(r) == lease' = [lease EXCEPT ![run[r].of].live = TRUE]

NextStage(r, stage, row) ==
    /\ Owns(r)
    /\ Renewed(r)
    /\ run' = [run EXCEPT ![r] = [row EXCEPT !.stage = stage]]
    /\ MoveTrialTask(r, "running")
    /\ executing' = [executing EXCEPT ![r] = stage]
    /\ UNCHANGED <<commission, replies, drafts, flowTask, trials, overlay>>

\* The baseline runs with whatever package is in use.
RunBaseline(r) ==
    /\ executing[r] = "baseline"
    /\ \E loaded \in InUse : NextStage(r, "trial", [run[r] EXCEPT !.baseline = loaded])

\* assertComparable lets only a trial of the baseline's situation through.
RunTrial(r) ==
    /\ executing[r] = "trial"
    /\ Loadable(run[r].of)
    /\ run[r].baseline.of # run[r].of
    /\ \E ok \in BOOLEAN :
           NextStage(r, "review", [run[r] EXCEPT !.trial = Load(run[r].of), !.worked = ok])

\* The reviewer's verdict.
ReviewRun(r) ==
    /\ executing[r] = "review"
    /\ \E outcome \in BOOLEAN : NextStage(r, "record", [run[r] EXCEPT !.outcome = outcome])

\* Evidence, trial, run, task and lease in one transaction.
RecordRun(r) ==
    /\ executing[r] = "record"
    /\ Owns(r)
    /\ Recordable(run[r].of, BaselineRecord(r), TrialRecord(r), run[r].outcome)
    /\ trials' = trials \cup {TrialRow(run[r].of, TrialRecord(r), run[r].outcome)}
    /\ run' = [run EXCEPT ![r].stage = "completed"]
    /\ MoveTrialTask(r, "completed")
    /\ lease' = [lease EXCEPT ![run[r].of] = Freed]
    /\ executing' = [executing EXCEPT ![r] = "none"]
    /\ UNCHANGED <<commission, replies, drafts, flowTask, overlay>>

\* Any stage throws; a run that has lost its lease is left alone.
RunFails(r) ==
    /\ executing[r] # "none"
    /\ IF Owns(r)
       THEN /\ run' = [run EXCEPT ![r].stage = "failed"]
            /\ MoveTrialTask(r, "failed")
            /\ lease' = [lease EXCEPT ![run[r].of] = Freed]
       ELSE UNCHANGED <<run, trialTask, lease>>
    /\ executing' = [executing EXCEPT ![r] = "none"]
    /\ UNCHANGED <<commission, replies, drafts, flowTask, trials, overlay>>

\* Two minutes without a heartbeat; the executing process may be only stalled.
ExpireLease(c) ==
    /\ lease[c].live
    /\ lease' = [lease EXCEPT ![c].live = FALSE]
    /\ UNCHANGED <<commission, replies, drafts, flowTask, trials, run, trialTask, executing, overlay>>

Heartbeat(r) ==
    /\ executing[r] # "none"
    /\ Owns(r)
    /\ Renewed(r)
    /\ UNCHANGED <<commission, replies, drafts, flowTask, trials, run, trialTask, executing, overlay>>

\* recover, by the next process or another one on the same database: a run
\* whose lease has run out is failed and its lease removed.  The row of a run
\* that has not ended is always there, so the fence for a missing one is not.
RecoverRun(r) ==
    /\ run[r].stage \in RunningStages
    /\ ~lease[run[r].of].live
    /\ run' = [run EXCEPT ![r].stage = "failed"]
    /\ MoveTrialTask(r, "failed")
    /\ lease' = [lease EXCEPT ![run[r].of] = Freed]
    /\ UNCHANGED <<commission, replies, drafts, flowTask, trials, executing, overlay>>

StopGateway ==
    /\ executing' = [r \in TrialRuns |-> "none"]
    /\ replies' = [c \in Commissions |-> "none"]
    /\ UNCHANGED <<commission, drafts, flowTask, trials, run, trialTask, lease, overlay>>

-----------------------------------------------------------------------------
(* The overlay.                                                            *)

ProposeAddition(a) ==
    /\ overlay.status[a] = "absent"
    /\ overlay' = [overlay EXCEPT !.status[a] = "pending", !.base[a] = overlay.version]
    /\ UNCHANGED <<commission, replies, drafts, flowTask, trials, runVars>>

\* On a stale base approve writes "superseded" and throws inside the
\* transaction, which undoes the write: the proposal stays pending.
ApproveAddition(a) ==
    /\ overlay.status[a] = "pending"
    /\ overlay.base[a] = overlay.version
    /\ overlay' = [overlay EXCEPT !.status[a] = "approved", !.version = @ + 1]
    /\ UNCHANGED <<commission, replies, drafts, flowTask, trials, runVars>>

SkillsNext ==
    \/ \E c \in Commissions :
        \/ AddMessage(c) \/ ChiefReplies(c) \/ ReplyLost(c) \/ ValidatePackage(c)
        \/ CancelCommission(c) \/ ProposeActivation(c) \/ Activate(c) \/ Rollback(c)
        \/ ExpireLease(c)
        \/ \E ok \in BOOLEAN : RecordTrial(c, ok)
        \/ \E r \in TrialRuns : StartRun(r, c)
    \/ \E t \in FlowTasks : PrepareTask(t) \/ MoveTask(t)
    \/ \E r \in TrialRuns :
        \/ ClaimRun(r) \/ RunBaseline(r) \/ RunTrial(r) \/ ReviewRun(r) \/ RecordRun(r)
        \/ RunFails(r) \/ Heartbeat(r) \/ RecoverRun(r)
    \/ \E a \in Additions : ProposeAddition(a) \/ ApproveAddition(a)
    \/ StopGateway

SkillsSpec == SkillsInit /\ [][SkillsNext]_skillVars

-----------------------------------------------------------------------------
Loads == [of: Commissions \cup {NoCommission}, pkg: Nat]

EvidenceIds == (FlowTasks \X {"task", "proposal"}) \cup (TrialRuns \X {"trial", "baseline"})

SkillsTypeOK ==
    /\ commission \in [Commissions -> [status: CommissionStatuses, pkg: Nat, base: Nat, version: Nat,
                                       activation: ActivationStatuses]]
    /\ replies \in [Commissions -> {"none", "fresh", "stale"}]
    /\ drafts \in Nat
    /\ flowTask \in [FlowTasks -> [state: {"none", "open", "closed"}, loaded: Loads,
                                   situation: Situations, accepted: BOOLEAN]]
    /\ trials \subseteq [of: Commissions, by: EvidenceIds, pkg: Nat \ {NoDraft}, accepted: BOOLEAN]
    /\ run \in [TrialRuns -> [stage: RunStages, of: Commissions \cup {NoCommission},
                              situation: Situations, baseline: Loads, trial: Loads,
                              worked: BOOLEAN, outcome: BOOLEAN]]
    /\ trialTask \in [TrialRuns -> TaskStatuses]
    /\ executing \in [TrialRuns -> {"none"} \cup RunningStages]
    /\ lease \in [Commissions -> [run: TrialRuns \cup {NoTrialRun}, claimed: BOOLEAN, live: BOOLEAN]]
    /\ overlay \in [version: Nat, base: [Additions -> Nat],
                    status: [Additions -> {"absent", "pending", "approved"}]]

\* A Skill in use has passed its trials with the package that is in use, and
\* is the only one in use: no reply of the Chief that comes late, no rollback
\* and no second commission puts an untried package into a member's hands.
ActivationEarned ==
    /\ \A c, d \in Actives : c = d
    /\ \A c \in Commissions :
           CommissionStatus(c) \in {"activation_proposed", "active"} =>
               Cardinality({t \in AcceptedTrials(c) : t.pkg = commission[c].pkg}) >= Needed

\* A run that has ended stays as it ended: a process that stalled past its
\* lease and wakes up after a recovery, or after the run that followed, writes
\* neither a verdict nor a failure into it.
SettledRunsStay ==
    [][\A r \in TrialRuns : run[r].stage \in {"completed", "failed"} => run'[r] = run[r]]_skillVars
=============================================================================
