-------------------------------- MODULE GitFlow --------------------------------
(***************************************************************************)
(* One proposal of Git Flow (DevelopmentCommitService): prepared by the    *)
(* specialist and the Chief, then taken by API calls through the local     *)
(* gate (validate, stage, commit), the remote gate (issue, push, pull      *)
(* request, review) and the merge gate.  A call reads the proposal once,   *)
(* works on its copy and writes the whole copy back, so overlapping calls  *)
(* overwrite each other.  The operator edits the working tree and the      *)
(* Policy meanwhile; GitHub may fail with or without having done the work. *)
(*                                                                         *)
(* Between a read and a write that only settled promises separate, no      *)
(* other call runs: such stretches are one action.                         *)
(***************************************************************************)
EXTENDS Naturals

CONSTANTS
    Calls,      \* API calls that may overlap
    Mode,       \* "commit", "pull_request" or "merge"
    MaxEdits,   \* bound on the contents the working tree takes
    MaxPolicy,  \* bound on the versions of the Workplace Policy
    MaxFaults   \* bound on refused commands and crashes

ASSUME FlowAssumption ==
    /\ Mode \in {"commit", "pull_request", "merge"}
    /\ {MaxEdits, MaxPolicy} \subseteq Nat \ {0}
    /\ MaxFaults \in Nat

VARIABLES
    proposal,    \* the stored proposal
    calls,       \* the calls: whether complete drives it, step, copy of the proposal
    repo,        \* the workplace: edits so far, uncommitted and staged content, HEAD
    policy,      \* version of the Policy, and whether it allows remote work
    hub,         \* GitHub: issues of this proposal, search index, pull request
    overlapped,  \* two calls have been in the local stage at once
    flowFaults

flowVars == <<proposal, calls, repo, policy, hub, overlapped, flowFaults>>

ProposalStatuses == {"absent", "awaiting_approval", "executing", "awaiting_remote_approval",
                     "publishing", "awaiting_merge_approval", "merging",
                     "changes_requested", "completed", "failed"}

Proposals == [status: ProposalStatuses, version: 0..MaxPolicy, snapshot: 0..MaxEdits,
              base: 0..MaxEdits, auth: BOOLEAN, commit: 0..MaxEdits, issue: BOOLEAN,
              unknown: BOOLEAN, pr: BOOLEAN, review: {"none", "accepted", "changes_requested"}]

NoProposal == [status |-> "absent", version |-> 0, snapshot |-> 0, base |-> 0, auth |-> FALSE,
               commit |-> 0, issue |-> FALSE, unknown |-> FALSE, pr |-> FALSE, review |-> "none"]

LocalSteps == {"checking", "validating", "staging", "committing", "recording"}

FlowSteps == LocalSteps \cup {"idle", "planning", "next", "branch", "find_issue",
    "create_issue", "push", "find_pr", "create_pr", "review", "state", "confirm", "report"}

NoCall == [all |-> FALSE, pc |-> "idle", copy |-> NoProposal]

FlowInit ==
    /\ proposal = NoProposal
    /\ calls = [c \in Calls |-> NoCall]
    /\ repo = [edits |-> 1, changes |-> 1, staged |-> 0, head |-> 0]
    /\ policy = [version |-> 1, remote |-> TRUE]
    /\ hub = [issues |-> 0, indexed |-> FALSE, pr |-> "none"]
    /\ overlapped = FALSE
    /\ flowFaults = 0

At(c, pc) == calls[c].pc = pc

Copy(c) == calls[c].copy

Step(c, pc) ==
    calls' = [calls EXCEPT ![c] = IF pc = "idle" THEN NoCall ELSE [@ EXCEPT !.pc = pc]]

\* saveProposal: the call's copy becomes the stored proposal.
SaveAs(c, p, pc) ==
    /\ proposal' = p
    /\ calls' = [calls EXCEPT ![c] = IF pc = "idle" THEN NoCall
                                   ELSE [@ EXCEPT !.copy = p, !.pc = pc]]

\* The end of a stage: complete goes on, a single gate answers its caller.
Ends(c) == IF calls[c].all THEN "next" ELSE "idle"

Fault == flowFaults < MaxFaults /\ flowFaults' = flowFaults + 1

\* collectGitSnapshot throws when something is staged or nothing has changed.
SnapshotIs(p) ==
    /\ repo.staged = 0
    /\ repo.changes # 0
    /\ repo.changes = p.snapshot
    /\ repo.head = p.base

-----------------------------------------------------------------------------
(* prepare.                                                                *)

Prepare(c) ==
    /\ proposal.status = "absent"
    /\ \A o \in Calls : ~At(o, "planning")
    /\ At(c, "idle")
    /\ repo.staged = 0 /\ repo.changes # 0
    /\ calls' = [calls EXCEPT ![c] = [all |-> FALSE, pc |-> "planning",
           copy |-> [NoProposal EXCEPT !.version = policy.version,
                                       !.snapshot = repo.changes, !.base = repo.head]]]
    /\ UNCHANGED <<proposal, repo, policy, hub, overlapped, flowFaults>>

\* Up to three plans, the self check and the Chief's verdict; or no plan at all.
Plan(c) ==
    /\ At(c, "planning")
    /\ \/ \E s \in {"awaiting_approval", "changes_requested"} :
              SaveAs(c, [Copy(c) EXCEPT !.status = s], "idle")
       \/ Step(c, "idle") /\ UNCHANGED proposal
    /\ UNCHANGED <<repo, policy, hub, overlapped, flowFaults>>

-----------------------------------------------------------------------------
(* The local gate.                                                         *)

\* complete first stores the authorization, then approve reads the proposal.
Authorize(c) ==
    /\ At(c, "idle")
    /\ \/ proposal.status = "awaiting_approval"
       \/ proposal.auth /\ proposal.status \in {"awaiting_remote_approval",
                                                "awaiting_merge_approval"}
    /\ LET p == IF proposal.status = "awaiting_approval"
                THEN [proposal EXCEPT !.auth = TRUE] ELSE proposal
       IN /\ proposal' = p
          /\ calls' = [calls EXCEPT ![c] = [all |-> TRUE, pc |-> "next", copy |-> p]]
    /\ UNCHANGED <<repo, policy, hub, overlapped, flowFaults>>

\* A call of a gate of its own, or complete on its way through the gates.
Enters(c, status) ==
    /\ proposal.status = status
    /\ At(c, "idle") \/ (At(c, "next") /\ Copy(c).status = status)

Begins(c, pc, p) == calls' = [calls EXCEPT ![c] = [all |-> At(c, "next"), pc |-> pc, copy |-> p]]

MayApprove(c) == Enters(c, "awaiting_approval") /\ policy.version = proposal.version

\* The status and the Policy are read before the snapshot is taken.
ApproveReads(c) ==
    /\ MayApprove(c)
    /\ Begins(c, "checking", proposal)
    /\ UNCHANGED <<proposal, repo, policy, hub, overlapped, flowFaults>>

ApproveChecks(c) ==
    /\ At(c, "checking")
    /\ IF SnapshotIs(Copy(c))
       THEN /\ SaveAs(c, [Copy(c) EXCEPT !.status = "executing"], "validating")
            /\ overlapped' = (overlapped \/ \E o \in Calls \ {c} : calls[o].pc \in LocalSteps)
       ELSE Step(c, "idle") /\ UNCHANGED <<proposal, overlapped>>
    /\ UNCHANGED <<repo, policy, hub, flowFaults>>

\* The validation commands pass and the tree is still the approved one.
Validate(c) ==
    /\ At(c, "validating")
    /\ SnapshotIs(Copy(c))
    /\ Step(c, "staging")
    /\ UNCHANGED <<proposal, repo, policy, hub, overlapped, flowFaults>>

\* git add of the approved files, whatever they contain by now.
Stage(c) ==
    /\ At(c, "staging")
    /\ repo.changes # 0
    /\ repo' = [repo EXCEPT !.staged = repo.changes]
    /\ Step(c, "committing")
    /\ UNCHANGED <<proposal, policy, hub, overlapped, flowFaults>>

Commit(c) ==
    /\ At(c, "committing")
    /\ repo.staged # 0
    /\ repo' = [repo EXCEPT !.head = @ + 1, !.staged = 0,
                            !.changes = IF @ = repo.staged THEN 0 ELSE @]
    /\ calls' = [calls EXCEPT ![c].pc = "recording", ![c].copy.commit = repo.head + 1]
    /\ UNCHANGED <<proposal, policy, hub, overlapped, flowFaults>>

Record(c) ==
    /\ At(c, "recording")
    /\ SaveAs(c, [Copy(c) EXCEPT !.status = IF Mode = "commit" THEN "completed"
                                            ELSE "awaiting_remote_approval"], Ends(c))
    /\ UNCHANGED <<repo, policy, hub, overlapped, flowFaults>>

\* Any command of the stage fails: the index is reset and the proposal fails,
\* or goes back for review when OpenCode has corrected the files.
LocalFails(c) ==
    /\ calls[c].pc \in {"validating", "staging", "committing"}
    /\ \/ At(c, "validating") /\ ~SnapshotIs(Copy(c)) /\ UNCHANGED flowFaults
       \/ At(c, "staging") /\ repo.changes = 0 /\ UNCHANGED flowFaults
       \/ At(c, "committing") /\ repo.staged = 0 /\ UNCHANGED flowFaults
       \/ Fault
    /\ repo' = [repo EXCEPT !.staged = 0]
    /\ \E s \in {"failed", "changes_requested"} :
           SaveAs(c, [Copy(c) EXCEPT !.status = s], "idle")
    /\ UNCHANGED <<policy, hub, overlapped>>

-----------------------------------------------------------------------------
(* The remote gate.                                                        *)

\* The Policy's version is not looked at again, only what it allows.
MayPublish(c) ==
    Enters(c, "awaiting_remote_approval") /\ proposal.commit # 0 /\ policy.remote

PublishReads(c) ==
    /\ MayPublish(c)
    /\ LET p == [proposal EXCEPT !.status = "publishing"] IN
           /\ proposal' = p
           /\ Begins(c, "branch", p)
    /\ UNCHANGED <<repo, policy, hub, overlapped, flowFaults>>

CheckHead(c) ==
    /\ At(c, "branch")
    /\ repo.head = Copy(c).commit
    /\ Step(c, IF Copy(c).issue THEN "push" ELSE "find_issue")
    /\ UNCHANGED <<proposal, repo, policy, hub, overlapped, flowFaults>>

\* findIssueByMarker: GitHub's search finds an issue once it is indexed.
FindIssue(c) ==
    /\ At(c, "find_issue")
    /\ IF hub.indexed
       THEN SaveAs(c, [Copy(c) EXCEPT !.issue = TRUE, !.unknown = FALSE], "push")
       ELSE ~Copy(c).unknown /\ Step(c, "create_issue") /\ UNCHANGED proposal
    /\ UNCHANGED <<repo, policy, hub, overlapped, flowFaults>>

CreateIssue(c) ==
    /\ At(c, "create_issue")
    /\ hub' = [hub EXCEPT !.issues = @ + 1]
    /\ SaveAs(c, [Copy(c) EXCEPT !.issue = TRUE, !.unknown = FALSE], "push")
    /\ UNCHANGED <<repo, policy, overlapped, flowFaults>>

\* Mutant of IssueUnknown: the doubt about the issue is not remembered.
IssueForgotten(c) ==
    /\ At(c, "create_issue")
    /\ Fault
    /\ \E n \in {0, 1} : hub' = [hub EXCEPT !.issues = @ + n]
    /\ SaveAs(c, [Copy(c) EXCEPT !.status = "awaiting_remote_approval"], "idle")
    /\ UNCHANGED <<repo, policy, overlapped>>

\* gh fails: the issue may be there or not, and the stage ends.
IssueUnknown(c) ==
    /\ At(c, "create_issue")
    /\ Fault
    /\ \E n \in {0, 1} : hub' = [hub EXCEPT !.issues = @ + n]
    /\ SaveAs(c, [Copy(c) EXCEPT !.unknown = TRUE, !.status = "awaiting_remote_approval"], "idle")
    /\ UNCHANGED <<repo, policy, overlapped>>

Push(c) ==
    /\ At(c, "push")
    /\ SaveAs(c, Copy(c), IF Copy(c).pr THEN "review" ELSE "find_pr")
    /\ UNCHANGED <<repo, policy, hub, overlapped, flowFaults>>

\* An open pull request of the branch is edited and taken over.
FindPullRequest(c) ==
    /\ At(c, "find_pr")
    /\ IF hub.pr = "open"
       THEN SaveAs(c, [Copy(c) EXCEPT !.pr = TRUE], "review")
       ELSE Step(c, "create_pr") /\ UNCHANGED proposal
    /\ UNCHANGED <<repo, policy, hub, overlapped, flowFaults>>

\* GitHub refuses a second open pull request of a branch.
CreatePullRequest(c) ==
    /\ At(c, "create_pr")
    /\ hub.pr # "open"
    /\ hub' = [hub EXCEPT !.pr = "open"]
    /\ SaveAs(c, [Copy(c) EXCEPT !.pr = TRUE], "review")
    /\ UNCHANGED <<repo, policy, overlapped, flowFaults>>

Reviewed(p, verdict) ==
    [p EXCEPT !.review = verdict,
              !.status = IF verdict = "changes_requested" THEN "changes_requested"
                         ELSE IF Mode = "merge" THEN "awaiting_merge_approval" ELSE "completed"]

\* The specialist's review of the real diff and the Chief's acceptance.
Review(c) ==
    /\ At(c, "review")
    /\ \E verdict \in {"accepted", "changes_requested"} :
           SaveAs(c, Reviewed(Copy(c), verdict), Ends(c))
    /\ UNCHANGED <<repo, policy, hub, overlapped, flowFaults>>

\* Every other failure of the stage leaves it to be tried again.
RemoteFails(c) ==
    /\ calls[c].pc \in {"branch", "find_issue", "push", "find_pr", "create_pr", "review"}
    /\ \/ At(c, "branch") /\ repo.head # Copy(c).commit /\ UNCHANGED <<hub, flowFaults>>
       \/ At(c, "find_issue") /\ ~hub.indexed /\ Copy(c).unknown /\ UNCHANGED <<hub, flowFaults>>
       \/ At(c, "create_pr") /\ hub.pr = "open" /\ UNCHANGED <<hub, flowFaults>>
       \/ At(c, "create_pr") /\ hub.pr # "open" /\ Fault /\ hub' = [hub EXCEPT !.pr = "open"]
       \/ Fault /\ UNCHANGED hub
    /\ SaveAs(c, [Copy(c) EXCEPT !.status = "awaiting_remote_approval"], "idle")
    /\ UNCHANGED <<repo, policy, overlapped>>

-----------------------------------------------------------------------------
(* The merge gate.                                                         *)

MayMerge(c) ==
    /\ Enters(c, "awaiting_merge_approval")
    /\ policy.remote
    /\ proposal.pr
    /\ proposal.review = "accepted"

MergeReads(c) ==
    /\ MayMerge(c)
    /\ LET p == [proposal EXCEPT !.status = "merging"] IN
           /\ proposal' = p
           /\ Begins(c, "state", p)
    /\ UNCHANGED <<repo, policy, hub, overlapped, flowFaults>>

\* pullRequestState, then gh pr merge unless it is merged already; the command
\* may end well although the pull request has only been queued for its merge.
MergePullRequest(c) ==
    /\ At(c, "state")
    /\ \/ hub.pr \in {"open", "merged"} /\ hub' = [hub EXCEPT !.pr = "merged"]
       \/ hub.pr = "open" /\ UNCHANGED hub
    /\ Step(c, "confirm")
    /\ UNCHANGED <<proposal, repo, policy, overlapped, flowFaults>>

\* Mutant of Confirm: a pull request that is gone counts as merged.
ConfirmAnything(c) ==
    /\ At(c, "confirm")
    /\ Step(c, "report")
    /\ UNCHANGED <<proposal, repo, policy, hub, overlapped, flowFaults>>

\* GitHub reports the merge; branches are deleted, the target branch pulled.
Confirm(c) ==
    /\ At(c, "confirm")
    /\ hub.pr = "merged"
    /\ Step(c, "report")
    /\ UNCHANGED <<proposal, repo, policy, hub, overlapped, flowFaults>>

\* The Chief's final report decides between completed and failed.
ReportEnd(c) ==
    /\ At(c, "report")
    /\ \E s \in {"completed", "failed"} : SaveAs(c, [Copy(c) EXCEPT !.status = s], "idle")
    /\ UNCHANGED <<repo, policy, hub, overlapped, flowFaults>>

\* A failed merge command may have merged; the next try then finds it merged.
MergeFails(c) ==
    /\ calls[c].pc \in {"state", "confirm", "report"}
    /\ \/ At(c, "state") /\ hub.pr \notin {"open", "merged"} /\ UNCHANGED <<hub, flowFaults>>
       \/ At(c, "confirm") /\ hub.pr # "merged" /\ UNCHANGED <<hub, flowFaults>>
       \/ At(c, "state") /\ hub.pr = "open" /\ Fault /\ hub' = [hub EXCEPT !.pr = "merged"]
       \/ Fault /\ UNCHANGED hub
    /\ SaveAs(c, [Copy(c) EXCEPT !.status = "awaiting_merge_approval"], "idle")
    /\ UNCHANGED <<repo, policy, overlapped>>

\* complete ends where no gate takes the proposal on.
Leave(c) ==
    /\ At(c, "next")
    /\ ~MayApprove(c) /\ ~MayPublish(c) /\ ~MayMerge(c)
    /\ Step(c, "idle")
    /\ UNCHANGED <<proposal, repo, policy, hub, overlapped, flowFaults>>

-----------------------------------------------------------------------------
(* The operator, GitHub and crashes.                                       *)

Edit ==
    /\ repo.edits < MaxEdits
    /\ repo' = [repo EXCEPT !.edits = @ + 1, !.changes = repo.edits + 1]
    /\ UNCHANGED <<proposal, calls, policy, hub, overlapped, flowFaults>>

OperatorCommits ==
    /\ repo.changes # 0
    /\ repo' = [repo EXCEPT !.head = @ + 1, !.changes = 0, !.staged = 0]
    /\ UNCHANGED <<proposal, calls, policy, hub, overlapped, flowFaults>>

SetPolicy ==
    /\ policy.version < MaxPolicy
    /\ \E r \in BOOLEAN : policy' = [version |-> policy.version + 1, remote |-> r]
    /\ UNCHANGED <<proposal, calls, repo, hub, overlapped, flowFaults>>

IndexIssue ==
    /\ hub.issues > 0 /\ ~hub.indexed
    /\ hub' = [hub EXCEPT !.indexed = TRUE]
    /\ UNCHANGED <<proposal, calls, repo, policy, overlapped, flowFaults>>

ClosePullRequest ==
    /\ hub.pr = "open"
    /\ Fault
    /\ hub' = [hub EXCEPT !.pr = "closed"]
    /\ UNCHANGED <<proposal, calls, repo, policy, overlapped>>

\* Nothing takes up a proposal that is executing, publishing or merging then.
FlowCrash ==
    /\ \E c \in Calls : ~At(c, "idle")
    /\ Fault
    /\ calls' = [c \in Calls |-> NoCall]
    /\ \/ UNCHANGED hub
       \/ \E c \in Calls : At(c, "create_issue") /\ hub' = [hub EXCEPT !.issues = @ + 1]
    /\ UNCHANGED <<proposal, repo, policy, overlapped>>

FlowNext ==
    \/ \E c \in Calls :
        \/ Prepare(c) \/ Plan(c) \/ Authorize(c) \/ Leave(c)
        \/ ApproveReads(c) \/ ApproveChecks(c) \/ Validate(c) \/ Stage(c) \/ Commit(c)
        \/ Record(c) \/ LocalFails(c)
        \/ PublishReads(c) \/ CheckHead(c) \/ FindIssue(c) \/ CreateIssue(c)
        \/ IssueUnknown(c) \/ Push(c) \/ FindPullRequest(c) \/ CreatePullRequest(c)
        \/ Review(c) \/ RemoteFails(c)
        \/ MergeReads(c) \/ MergePullRequest(c) \/ Confirm(c) \/ ReportEnd(c) \/ MergeFails(c)
    \/ Edit \/ OperatorCommits \/ SetPolicy \/ IndexIssue \/ ClosePullRequest \/ FlowCrash

FlowSpec == FlowInit /\ [][FlowNext]_flowVars

-----------------------------------------------------------------------------
FlowTypeOK ==
    /\ proposal \in Proposals
    /\ calls \in [Calls -> [all: BOOLEAN, pc: FlowSteps, copy: Proposals]]
    /\ repo \in [edits: 1..MaxEdits, changes: 0..MaxEdits, staged: 0..MaxEdits, head: 0..MaxEdits]
    /\ policy \in [version: 1..MaxPolicy, remote: BOOLEAN]
    /\ hub \in [issues: Nat, indexed: BOOLEAN, pr: {"none", "open", "merged", "closed"}]
    /\ overlapped \in BOOLEAN
    /\ flowFaults \in 0..MaxFaults

\* However often the remote gate is tried again, after refusals, lost answers
\* and restarts, a proposal has one issue (docs/development-commit-steward.md),
\* unless two approvals were executed at once: then one call may overwrite what
\* the other has recorded.
IssueOnce == overlapped \/ hub.issues <= 1

\* A proposal in mode "merge" is completed only by a merge GitHub has reported
\* of a pull request that passed the review.
CompletedIsMerged ==
    proposal.status = "completed" /\ Mode = "merge" =>
        overlapped \/ (hub.pr = "merged" /\ proposal.review = "accepted")

=============================================================================
