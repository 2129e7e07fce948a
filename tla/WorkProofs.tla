---------------------------- MODULE WorkProofs ------------------------------
(****************************************************************************)
(* Proofs about what the members of Totemora work at: governed development, *)
(* reports, the growth of a member, the works of the content studio, the    *)
(* commissions of a Skill and their trials, the tasks of the specialists,   *)
(* the registry of Skill packages, and the journal for strict callers. The  *)
(* eight services of MCWork share no variable: each part has an invariant   *)
(* of its own, and the last part puts them together.                        *)
(****************************************************************************)
EXTENDS MCWork, FiniteSetTheorems, WellFoundedInduction, TLAPS

(****************************************************************************)
(* GIT FLOW. Why a proposal has one Issue and is merged as it was reviewed: *)
(* unless two calls overlap, one call drives the proposal, its copy is the  *)
(* proposal on record, and each step of GitHub is taken in the status that  *)
(* the record has then. Calls that overlap are the finding of the run, so   *)
(* the rest of the invariant holds while none has.                          *)
(****************************************************************************)

CallTypes == [all: BOOLEAN, pc: FlowSteps, copy: Proposals]

\* The content of the index is that of the tree or an older one, and every
\* commit has used up an edit: so HEAD counts no further than the edits.
RepoFits ==
    /\ repo.staged # 0 => repo.changes # 0
    /\ repo.changes <= repo.edits
    /\ repo.head + (IF repo.changes # 0 THEN 1 ELSE 0)
                 + (IF repo.staged \in {0, repo.changes} THEN 0 ELSE 1) <= repo.edits

GitTypes == FlowTypeOK /\ RepoFits

LEMMA FlowTyped ==
    ASSUME GitTypes
    PROVE  /\ proposal \in Proposals
           /\ calls \in [Calls -> CallTypes]
           /\ repo \in [edits: 1..MaxEdits, changes: 0..MaxEdits, staged: 0..MaxEdits, head: 0..MaxEdits]
           /\ policy \in [version: 1..MaxPolicy, remote: BOOLEAN]
           /\ hub \in [issues: Nat, indexed: BOOLEAN, pr: {"none", "open", "merged", "closed"}]
           /\ overlapped \in BOOLEAN
           /\ flowFaults \in 0..MaxFaults
  BY DEF GitTypes, FlowTypeOK, CallTypes

LEMMA NoCallTyped == NoProposal \in Proposals /\ NoCall \in CallTypes /\ NoCall.pc = "idle"
  BY FlowAssumption DEF NoProposal, Proposals, ProposalStatuses, NoCall, CallTypes, FlowSteps

\* What Step and SaveAs leave of the calls.
LEMMA StepLeaves ==
    ASSUME GitTypes, NEW c \in Calls, NEW pc \in FlowSteps, Step(c, pc)
    PROVE  /\ calls' \in [Calls -> CallTypes]
           /\ calls'[c].pc = pc /\ (pc # "idle" => calls'[c].copy = calls[c].copy)
           /\ \A d \in Calls \ {c} : calls'[d] = calls[d]
<1>1. calls \in [Calls -> CallTypes]
  BY FlowTyped
<1>2. CASE pc = "idle"
  BY <1>1, <1>2, NoCallTyped DEF Step
<1>3. CASE pc # "idle"
  <2>1. calls' = [calls EXCEPT ![c] = [@ EXCEPT !.pc = pc]]
    BY <1>3 DEF Step
  <2>2. QED
    BY <1>1, <1>3, <2>1 DEF CallTypes
<1>4. QED
  BY <1>2, <1>3

LEMMA SaveLeaves ==
    ASSUME GitTypes, NEW c \in Calls, NEW pc \in FlowSteps, NEW p \in Proposals, SaveAs(c, p, pc)
    PROVE  /\ calls' \in [Calls -> CallTypes] /\ proposal' = p /\ proposal' \in Proposals
           /\ calls'[c].pc = pc /\ (pc # "idle" => calls'[c].copy = p)
           /\ \A d \in Calls \ {c} : calls'[d] = calls[d]
<1>1. calls \in [Calls -> CallTypes] /\ proposal' = p
  BY FlowTyped DEF SaveAs
<1>2. CASE pc = "idle"
  BY <1>1, <1>2, NoCallTyped DEF SaveAs
<1>3. CASE pc # "idle"
  <2>1. calls' = [calls EXCEPT ![c] = [@ EXCEPT !.copy = p, !.pc = pc]]
    BY <1>3 DEF SaveAs
  <2>2. QED
    BY <1>1, <1>3, <2>1 DEF CallTypes
<1>4. QED
  BY <1>2, <1>3

\* A proposal with another status, a pull request or an issue is still one.
LEMMA WithStatus ==
    ASSUME NEW p \in Proposals, NEW s \in ProposalStatuses
    PROVE  \E q \in Proposals :
            /\ q = [p EXCEPT !.status = s]
            /\ q.status = s
            /\ q.issue = p.issue
            /\ q.unknown = p.unknown
            /\ q.review = p.review
<1>1. /\ [p EXCEPT !.status = s] \in Proposals
      /\ [p EXCEPT !.status = s].status = s
      /\ [p EXCEPT !.status = s].issue = p.issue
      /\ [p EXCEPT !.status = s].unknown = p.unknown
      /\ [p EXCEPT !.status = s].review = p.review
  BY DEF Proposals, ProposalStatuses
<1>2. QED
  BY <1>1

LEMMA WithPullRequest ==
    ASSUME NEW p \in Proposals
    PROVE  \E q \in Proposals :
            /\ q = [p EXCEPT !.pr = TRUE]
            /\ q.status = p.status
            /\ q.issue = p.issue
            /\ q.unknown = p.unknown
            /\ q.review = p.review
<1>1. /\ [p EXCEPT !.pr = TRUE] \in Proposals
      /\ [p EXCEPT !.pr = TRUE].status = p.status
      /\ [p EXCEPT !.pr = TRUE].issue = p.issue
      /\ [p EXCEPT !.pr = TRUE].unknown = p.unknown
      /\ [p EXCEPT !.pr = TRUE].review = p.review
  BY DEF Proposals, ProposalStatuses
<1>2. QED
  BY <1>1

LEMMA WithIssue ==
    ASSUME NEW p \in Proposals
    PROVE  \E q \in Proposals :
            /\ q = [p EXCEPT !.issue = TRUE, !.unknown = FALSE]
            /\ q.issue = TRUE
            /\ q.status = p.status
            /\ q.review = p.review
<1>1. /\ [p EXCEPT !.issue = TRUE, !.unknown = FALSE] \in Proposals
      /\ [p EXCEPT !.issue = TRUE, !.unknown = FALSE].issue = TRUE
      /\ [p EXCEPT !.issue = TRUE, !.unknown = FALSE].status = p.status
      /\ [p EXCEPT !.issue = TRUE, !.unknown = FALSE].review = p.review
  BY DEF Proposals, ProposalStatuses
<1>2. QED
  BY <1>1

LEMMA WithDoubt ==
    ASSUME NEW p \in Proposals
    PROVE  \E q \in Proposals :
            /\ q = [p EXCEPT !.unknown = TRUE, !.status = "awaiting_remote_approval"]
            /\ q.unknown = TRUE
            /\ q.status = "awaiting_remote_approval"
<1>1. /\ [p EXCEPT !.unknown = TRUE, !.status = "awaiting_remote_approval"] \in Proposals
      /\ [p EXCEPT !.unknown = TRUE, !.status = "awaiting_remote_approval"].unknown = TRUE
      /\ [p EXCEPT !.unknown = TRUE, !.status = "awaiting_remote_approval"].status = "awaiting_remote_approval"
  BY DEF Proposals, ProposalStatuses
<1>2. QED
  BY <1>1

LEMMA WithAuth ==
    ASSUME NEW p \in Proposals
    PROVE  \E q \in Proposals :
            /\ q = [p EXCEPT !.auth = TRUE]
            /\ q.status = p.status
            /\ q.issue = p.issue
            /\ q.unknown = p.unknown
            /\ q.review = p.review
<1>1. /\ [p EXCEPT !.auth = TRUE] \in Proposals
      /\ [p EXCEPT !.auth = TRUE].status = p.status
      /\ [p EXCEPT !.auth = TRUE].issue = p.issue
      /\ [p EXCEPT !.auth = TRUE].unknown = p.unknown
      /\ [p EXCEPT !.auth = TRUE].review = p.review
  BY DEF Proposals, ProposalStatuses
<1>2. QED
  BY <1>1

LEMMA GitTypesInit == FlowInit => GitTypes
<1> SUFFICES ASSUME FlowInit
             PROVE  GitTypes
  OBVIOUS
<1>1. proposal \in Proposals /\ calls \in [Calls -> CallTypes]
  BY NoCallTyped DEF FlowInit
<1>2. FlowTypeOK
  <2>1. /\ repo \in [edits: 1..MaxEdits, changes: 0..MaxEdits, staged: 0..MaxEdits, head: 0..MaxEdits]
        /\ policy \in [version: 1..MaxPolicy, remote: BOOLEAN]
    BY FlowAssumption DEF FlowInit
  <2>2. hub \in [issues: Nat, indexed: BOOLEAN, pr: {"none", "open", "merged", "closed"}]
    BY DEF FlowInit
  <2>3. flowFaults \in 0..MaxFaults
    BY FlowAssumption DEF FlowInit
  <2>4. overlapped \in BOOLEAN
    BY DEF FlowInit
  <2>5. QED
    BY <1>1, <2>1, <2>2, <2>3, <2>4 DEF FlowTypeOK, CallTypes
<1>3. repo.edits = 1 /\ repo.changes = 1 /\ repo.staged = 0 /\ repo.head = 0
  BY DEF FlowInit
<1>4. RepoFits
  BY <1>3 DEF RepoFits
<1>5. QED
  BY <1>2, <1>4 DEF GitTypes

\* A step that leaves repository, Policy and GitHub alone, but for an index reset.
LEMMA CallsTyped ==
    ASSUME GitTypes, proposal' \in Proposals, calls' \in [Calls -> CallTypes],
           repo' = repo \/ repo' = [repo EXCEPT !.staged = 0],
           UNCHANGED policy,
           hub' \in [issues: Nat, indexed: BOOLEAN, pr: {"none", "open", "merged", "closed"}],
           overlapped' \in BOOLEAN,
           flowFaults' = flowFaults \/ Fault
    PROVE  GitTypes'
<1>1. flowFaults' \in 0..MaxFaults
  BY FlowTyped, FlowAssumption DEF Fault
<1>2. /\ repo \in [edits: 1..MaxEdits, changes: 0..MaxEdits, staged: 0..MaxEdits, head: 0..MaxEdits]
      /\ repo' \in [edits: 1..MaxEdits, changes: 0..MaxEdits, staged: 0..MaxEdits, head: 0..MaxEdits]
      /\ repo'.edits = repo.edits /\ repo'.changes = repo.changes /\ repo'.head = repo.head
      /\ repo'.staged \in {0, repo.staged}
  BY FlowTyped, FlowAssumption
<1>3. RepoFits'
  BY <1>2, FlowAssumption DEF GitTypes, RepoFits
<1>4. policy' \in [version: 1..MaxPolicy, remote: BOOLEAN]
  BY FlowTyped
<1>5. QED
  BY <1>1, <1>2, <1>3, <1>4 DEF GitTypes, FlowTypeOK, CallTypes

LocalActive == {"validating", "staging", "committing", "recording"}

RemoteActive == {"branch", "find_issue", "create_issue", "push", "find_pr", "create_pr", "review"}

MergeActive == {"state", "confirm", "report"}

\* The call that has taken the proposal through a gate and is working on it.
Driving(c) == calls[c].pc \in LocalActive \cup RemoteActive \cup MergeActive

\* What a proposal and GitHub show in which step of the call that drives it.
StageFits(pc, p, h) ==
    /\ pc \in LocalActive => p.status = "executing"
    /\ pc \in RemoteActive => p.status = "publishing"
    /\ pc \in MergeActive => p.status = "merging" /\ p.review = "accepted"
    /\ pc = "report" => h.pr = "merged"
    /\ pc = "find_issue" => ~p.issue
    /\ pc = "create_issue" => ~p.issue /\ ~p.unknown /\ h.issues = 0

Same(p, q) == p.status = q.status /\ p.issue = q.issue /\ p.unknown = q.unknown /\ p.review = q.review

\* Its copy is still that of the proposal, and the proposal shows its stage.
Follows(c) == Same(Copy(c), proposal) /\ StageFits(calls[c].pc, proposal, hub)

\* An issue is remembered, as there or as doubtful.
IssueKnown(p, h) ==
    /\ h.issues <= 1
    /\ p.status \in {"absent", "awaiting_approval", "executing"} => h.issues = 0
    /\ h.issues # 0 => p.issue \/ p.unknown

\* Unless the process stopped while it was created: then nobody takes the
\* proposal up again.
IssueFits ==
    \/ IssueKnown(proposal, hub)
    \/ hub.issues = 1 /\ proposal.status = "publishing" /\ \A c \in Calls : ~Driving(c)

MergedIf(p, h) == p.status = "completed" /\ Mode = "merge" => h.pr = "merged" /\ p.review = "accepted"

MergeFits == MergedIf(proposal, hub)

WaitsFit ==
    /\ \A c \in Calls : calls[c].pc = "checking" => proposal.status = "awaiting_approval"
    /\ \A c, d \in Calls : calls[c].pc = "planning" /\ calls[d].pc = "planning" => c = d
    /\ proposal.status = "absent" => \A c \in Calls : calls[c].pc \in {"idle", "planning"}
    /\ \A c \in Calls : calls[c].pc = "planning" => proposal.status = "absent"

OneDriver ==
    /\ \A c, d \in Calls : Driving(c) /\ Driving(d) => c = d
    /\ \A c \in Calls : Driving(c) => Follows(c)

\* Until two approvals have been executed at once, one call drives the proposal.
FlowInv ==
    /\ GitTypes
    /\ ~overlapped => OneDriver /\ WaitsFit /\ IssueFits /\ MergeFits

LEMMA FlowInvInit == FlowInit => FlowInv
<1> SUFFICES ASSUME FlowInit
             PROVE  FlowInv
  OBVIOUS
<1>1. \A c \in Calls : calls[c].pc = "idle"
  BY NoCallTyped DEF FlowInit
<1>2. proposal.status = "absent" /\ hub.issues = 0
  BY DEF FlowInit, NoProposal
<1>3. OneDriver /\ WaitsFit /\ IssueFits /\ MergeFits
  BY <1>1, <1>2 DEF OneDriver, WaitsFit, IssueFits, IssueKnown, MergeFits, MergedIf, Driving, LocalActive, RemoteActive, MergeActive
<1>4. QED
  BY <1>3, GitTypesInit DEF FlowInv

\* Beside the driver of the proposal, the other calls have not begun a gate.
LEMMA DriverAlone ==
    ASSUME FlowInv, ~overlapped, NEW c \in Calls, Driving(c)
    PROVE  /\ \A d \in Calls \ {c} : calls[d].pc \in {"idle", "next"}
           /\ Same(Copy(c), proposal)
           /\ StageFits(calls[c].pc, Copy(c), hub)
           /\ IssueKnown(Copy(c), hub)
<1>1. Follows(c) /\ IssueKnown(proposal, hub)
  BY DEF FlowInv, OneDriver, IssueFits
<1>2. proposal.status \in {"executing", "publishing", "merging"}
  BY <1>1 DEF Follows, Driving, StageFits
<1>3. ASSUME NEW d \in Calls \ {c}
      PROVE  calls[d].pc \in {"idle", "next"}
  <2>1. ~Driving(d)
    BY DEF FlowInv, OneDriver
  <2>2. calls[d].pc \notin {"checking", "planning"}
    BY <1>2 DEF FlowInv, WaitsFit
  <2>3. calls[d].pc \in FlowSteps
    BY FlowTyped DEF FlowInv, CallTypes
  <2>4. QED
    BY <2>1, <2>2, <2>3 DEF Driving, LocalActive, RemoteActive, MergeActive, FlowSteps, LocalSteps
<1>4. Same(Copy(c), proposal)
  BY <1>1 DEF Follows
<1>5. StageFits(calls[c].pc, Copy(c), hub)
  BY <1>1, <1>4 DEF Follows, StageFits, Same
<1>6. IssueKnown(Copy(c), hub)
  BY <1>1, <1>4 DEF IssueKnown, Same
<1>7. QED
  BY <1>3, <1>4, <1>5, <1>6

\* Nobody drives, checks or plans a proposal that waits for its remote or merge
\* gate; nobody drives or plans one that waits for its approval.
LEMMA NobodyDrives ==
    ASSUME FlowInv, ~overlapped,
           proposal.status \in {"awaiting_approval", "awaiting_remote_approval", "awaiting_merge_approval"}
    PROVE  /\ \A d \in Calls : calls[d].pc \in {"idle", "next", "checking"}
           /\ proposal.status # "awaiting_approval" => \A d \in Calls : calls[d].pc \in {"idle", "next"}
           /\ IssueKnown(proposal, hub)
<1>1. ASSUME NEW d \in Calls
      PROVE  /\ calls[d].pc \in {"idle", "next", "checking"}
             /\ proposal.status # "awaiting_approval" => calls[d].pc # "checking"
  <2>1. ~Driving(d)
    BY DEF FlowInv, OneDriver, Follows, StageFits, Driving
  <2>2. calls[d].pc # "planning" /\ (proposal.status # "awaiting_approval" => calls[d].pc # "checking")
    BY DEF FlowInv, WaitsFit
  <2>3. calls[d].pc \in FlowSteps
    BY FlowTyped DEF FlowInv, CallTypes
  <2>4. QED
    BY <2>1, <2>2, <2>3 DEF Driving, LocalActive, RemoteActive, MergeActive, FlowSteps, LocalSteps
<1>2. QED
  BY <1>1 DEF FlowInv, IssueFits

\* A call that is alone in a gate goes on, or ends.
LEMMA DriverGoes ==
    ASSUME FlowInv, GitTypes', NEW c \in Calls, NEW pc,
           ~overlapped' => ~overlapped,
           calls'[c].pc = pc, \A d \in Calls \ {c} : calls'[d] = calls[d],
           pc # "idle" => Same(calls'[c].copy, proposal'),
           ~overlapped' =>
               /\ \A d \in Calls \ {c} : calls[d].pc \in {"idle", "next"}
               /\ pc \notin {"checking", "planning"} /\ proposal'.status # "absent"
               /\ StageFits(pc, proposal', hub') /\ IssueKnown(proposal', hub') /\ MergedIf(proposal', hub')
    PROVE  FlowInv'
<1> SUFFICES ASSUME ~overlapped'
             PROVE  OneDriver' /\ WaitsFit' /\ IssueFits' /\ MergeFits'
  BY DEF FlowInv
<1>1. \A d \in Calls \ {c} : calls'[d].pc \in {"idle", "next"}
  OBVIOUS
<1>2. \A d \in Calls \ {c} : ~Driving(d)'
  BY <1>1 DEF Driving, LocalActive, RemoteActive, MergeActive
<1>3. Driving(c)' => Follows(c)'
  BY DEF Driving, LocalActive, RemoteActive, MergeActive, Follows, Copy
<1>4. OneDriver'
  BY <1>2, <1>3 DEF OneDriver
<1>5. WaitsFit'
  BY <1>1 DEF WaitsFit
<1>6. IssueFits' /\ MergeFits'
  BY DEF IssueFits, MergeFits
<1>7. QED
  BY <1>4, <1>5, <1>6

\* A driver that saves its copy, changed or not.
LEMMA DriverSaves ==
    ASSUME FlowInv, NEW c \in Calls, NEW pc \in FlowSteps, NEW p \in Proposals, SaveAs(c, p, pc), Driving(c),
           repo' = repo \/ repo' = [repo EXCEPT !.staged = 0], UNCHANGED <<policy, overlapped>>,
           hub' \in [issues: Nat, indexed: BOOLEAN, pr: {"none", "open", "merged", "closed"}],
           flowFaults' = flowFaults \/ Fault,
           StageFits(calls[c].pc, Copy(c), hub) /\ IssueKnown(Copy(c), hub) =>
               /\ pc \notin {"checking", "planning"} /\ p.status # "absent"
               /\ StageFits(pc, p, hub') /\ IssueKnown(p, hub') /\ MergedIf(p, hub')
    PROVE  FlowInv'
<1>1. /\ calls' \in [Calls -> CallTypes] /\ proposal' = p
      /\ calls'[c].pc = pc /\ (pc # "idle" => calls'[c].copy = p)
      /\ \A d \in Calls \ {c} : calls'[d] = calls[d]
  BY SaveLeaves DEF FlowInv
<1>2. GitTypes'
  BY <1>1, CallsTyped, FlowTyped DEF FlowInv
<1>3. ~overlapped' =>
          /\ \A d \in Calls \ {c} : calls[d].pc \in {"idle", "next"}
          /\ StageFits(calls[c].pc, Copy(c), hub) /\ IssueKnown(Copy(c), hub)
  BY DriverAlone
<1>4. pc # "idle" => Same(calls'[c].copy, proposal')
  BY <1>1 DEF Same
<1>5. QED
  BY <1>1, <1>2, <1>3, <1>4, DriverGoes

\* A driver that goes on and saves nothing.
LEMMA DriverSteps ==
    ASSUME FlowInv, GitTypes', NEW c \in Calls, NEW pc \in FlowSteps, Step(c, pc), Driving(c),
           UNCHANGED <<proposal, overlapped>>,
           StageFits(calls[c].pc, Copy(c), hub) /\ IssueKnown(Copy(c), hub) =>
               /\ pc \notin {"idle", "checking", "planning"}
               /\ StageFits(pc, Copy(c), hub') /\ IssueKnown(Copy(c), hub')
    PROVE  FlowInv'
<1>1. /\ calls'[c].pc = pc /\ (pc # "idle" => calls'[c].copy = calls[c].copy)
      /\ \A d \in Calls \ {c} : calls'[d] = calls[d]
  BY StepLeaves DEF FlowInv
<1>2. ASSUME ~overlapped
      PROVE  /\ \A d \in Calls \ {c} : calls[d].pc \in {"idle", "next"}
             /\ pc \notin {"checking", "planning"} /\ proposal'.status # "absent"
             /\ StageFits(pc, proposal', hub') /\ IssueKnown(proposal', hub') /\ MergedIf(proposal', hub')
             /\ Same(Copy(c), proposal)
  <2>1. /\ \A d \in Calls \ {c} : calls[d].pc \in {"idle", "next"}
        /\ Same(Copy(c), proposal)
        /\ StageFits(calls[c].pc, Copy(c), hub) /\ IssueKnown(Copy(c), hub)
    BY <1>2, DriverAlone
  <2>2. Copy(c).status \in {"executing", "publishing", "merging"}
    BY <2>1 DEF StageFits, Driving
  <2>3. /\ StageFits(pc, proposal', hub') /\ IssueKnown(proposal', hub')
        /\ MergedIf(proposal', hub') /\ proposal'.status # "absent"
    BY <2>1, <2>2 DEF StageFits, IssueKnown, MergedIf, Same
  <2>4. QED
    BY <2>1, <2>3
<1>3. QED
  <2>1. CASE overlapped
    BY <2>1 DEF FlowInv
  <2>2. CASE ~overlapped
    <3>1. pc # "idle" => Same(calls'[c].copy, proposal')
      BY <1>1, <1>2, <2>2 DEF Same, Copy
    <3>2. QED
      BY <1>1, <1>2, <2>2, <3>1, DriverGoes
  <2>3. QED
    BY <2>1, <2>2

LEMMA DriverKnown ==
    ASSUME FlowInv, NEW c \in Calls
    PROVE  /\ calls[c].pc \in FlowSteps /\ Copy(c) \in Proposals
           /\ hub \in [issues: Nat, indexed: BOOLEAN, pr: {"none", "open", "merged", "closed"}]
  BY FlowTyped DEF FlowInv, CallTypes, Copy

\* The types after a step that saves nothing.
LEMMA StepTyped ==
    ASSUME FlowInv, NEW c \in Calls, NEW pc \in FlowSteps, Step(c, pc), UNCHANGED <<proposal, repo, policy>>,
           hub' \in [issues: Nat, indexed: BOOLEAN, pr: {"none", "open", "merged", "closed"}],
           overlapped' \in BOOLEAN,
           flowFaults' = flowFaults \/ Fault
    PROVE  GitTypes'
  BY StepLeaves, CallsTyped, FlowTyped DEF FlowInv

LEMMA PushKeeps ==
    ASSUME FlowInv, NEW c \in Calls, Push(c)
    PROVE  FlowInv'
<1>1. PICK pc \in {"review", "find_pr"} : SaveAs(c, Copy(c), pc)
  BY DEF Push
<1>2. calls[c].pc = "push" /\ UNCHANGED <<repo, policy, hub, overlapped, flowFaults>>
  BY DEF Push, At
<1>3. Driving(c) /\ pc \in FlowSteps
  BY <1>2 DEF Driving, RemoteActive, FlowSteps
<1>4. StageFits(calls[c].pc, Copy(c), hub) /\ IssueKnown(Copy(c), hub) =>
          /\ pc \notin {"checking", "planning"} /\ Copy(c).status # "absent"
          /\ StageFits(pc, Copy(c), hub') /\ IssueKnown(Copy(c), hub') /\ MergedIf(Copy(c), hub')
  BY <1>2 DEF StageFits, IssueKnown, MergedIf, LocalActive, RemoteActive, MergeActive
<1>5. QED
  BY <1>1, <1>2, <1>3, <1>4, DriverKnown, DriverSaves

LEMMA CheckHeadKeeps ==
    ASSUME FlowInv, NEW c \in Calls, CheckHead(c)
    PROVE  FlowInv'
<1>1. PICK pc \in {"push", "find_issue"} : Step(c, pc) /\ (pc = "find_issue" => ~Copy(c).issue)
  BY DEF CheckHead
<1>2. calls[c].pc = "branch" /\ UNCHANGED <<proposal, repo, policy, hub, overlapped, flowFaults>>
  BY DEF CheckHead, At
<1>3. Driving(c) /\ pc \in FlowSteps
  BY <1>2 DEF Driving, RemoteActive, FlowSteps
<1>4. GitTypes'
  <2>1. overlapped \in BOOLEAN
    BY FlowTyped DEF FlowInv
  <2>2. QED
    BY <1>1, <1>2, <1>3, <2>1, StepTyped, DriverKnown
<1>5. StageFits(calls[c].pc, Copy(c), hub) /\ IssueKnown(Copy(c), hub) =>
          /\ pc \notin {"idle", "checking", "planning"}
          /\ StageFits(pc, Copy(c), hub') /\ IssueKnown(Copy(c), hub')
  BY <1>1, <1>2 DEF StageFits, IssueKnown, LocalActive, RemoteActive, MergeActive
<1>6. QED
  BY <1>1, <1>2, <1>3, <1>4, <1>5, DriverSteps

LEMMA FindIssueKeeps ==
    ASSUME FlowInv, NEW c \in Calls, FindIssue(c)
    PROVE  FlowInv'
<1>1. calls[c].pc = "find_issue" /\ UNCHANGED <<repo, policy, hub, overlapped, flowFaults>>
  BY DEF FindIssue, At
<1>2. Driving(c)
  BY <1>1 DEF Driving, RemoteActive
<1>3. CASE hub.indexed
  <2>1. PICK p \in Proposals : /\ p = [Copy(c) EXCEPT !.issue = TRUE, !.unknown = FALSE]
                               /\ p.issue = TRUE /\ p.status = Copy(c).status /\ p.review = Copy(c).review
    BY DriverKnown, WithIssue
  <2>2. SaveAs(c, p, "push")
    BY <1>3, <2>1 DEF FindIssue
  <2>3. StageFits(calls[c].pc, Copy(c), hub) /\ IssueKnown(Copy(c), hub) =>
            /\ p.status # "absent"
            /\ StageFits("push", p, hub') /\ IssueKnown(p, hub') /\ MergedIf(p, hub')
    BY <1>1, <2>1 DEF StageFits, IssueKnown, MergedIf, LocalActive, RemoteActive, MergeActive
  <2>4. QED
    BY <1>1, <1>2, <2>2, <2>3, DriverKnown, DriverSaves DEF FlowSteps
<1>4. CASE ~hub.indexed
  <2>1. ~Copy(c).unknown /\ Step(c, "create_issue") /\ UNCHANGED proposal
    BY <1>4 DEF FindIssue
  <2>2. GitTypes'
    <3>1. overlapped \in BOOLEAN
      BY FlowTyped DEF FlowInv
    <3>2. QED
      BY <1>1, <2>1, <3>1, StepTyped, DriverKnown DEF FlowSteps
  <2>3. StageFits(calls[c].pc, Copy(c), hub) /\ IssueKnown(Copy(c), hub) =>
            StageFits("create_issue", Copy(c), hub') /\ IssueKnown(Copy(c), hub')
    BY <1>1, <2>1 DEF StageFits, IssueKnown, LocalActive, RemoteActive, MergeActive
  <2>4. QED
    BY <1>1, <1>2, <2>1, <2>2, <2>3, DriverSteps DEF FlowSteps
<1>5. QED
  BY <1>3, <1>4

LEMMA CreateIssueKeeps ==
    ASSUME FlowInv, NEW c \in Calls, CreateIssue(c)
    PROVE  FlowInv'
<1>1. calls[c].pc = "create_issue" /\ UNCHANGED <<repo, policy, overlapped, flowFaults>>
  BY DEF CreateIssue, At
<1>2. Driving(c)
  BY <1>1 DEF Driving, RemoteActive
<1>3. PICK p \in Proposals : /\ p = [Copy(c) EXCEPT !.issue = TRUE, !.unknown = FALSE]
                             /\ p.issue = TRUE /\ p.status = Copy(c).status /\ p.review = Copy(c).review
  BY DriverKnown, WithIssue
<1>4. SaveAs(c, p, "push")
  BY <1>3 DEF CreateIssue
<1>5. /\ hub' \in [issues: Nat, indexed: BOOLEAN, pr: {"none", "open", "merged", "closed"}]
      /\ hub'.issues = hub.issues + 1 /\ hub'.pr = hub.pr
  BY DriverKnown DEF CreateIssue
<1>6. StageFits(calls[c].pc, Copy(c), hub) /\ IssueKnown(Copy(c), hub) =>
          /\ p.status # "absent"
          /\ StageFits("push", p, hub') /\ IssueKnown(p, hub') /\ MergedIf(p, hub')
  BY <1>1, <1>3, <1>5 DEF StageFits, IssueKnown, MergedIf, LocalActive, RemoteActive, MergeActive
<1>7. QED
  BY <1>1, <1>2, <1>4, <1>5, <1>6, DriverSaves DEF FlowSteps

LEMMA IssueUnknownKeeps ==
    ASSUME FlowInv, NEW c \in Calls, IssueUnknown(c)
    PROVE  FlowInv'
<1>1. calls[c].pc = "create_issue" /\ Fault /\ UNCHANGED <<repo, policy, overlapped>>
  BY DEF IssueUnknown, At
<1>2. Driving(c)
  BY <1>1 DEF Driving, RemoteActive
<1>3. PICK p \in Proposals : /\ p = [Copy(c) EXCEPT !.unknown = TRUE, !.status = "awaiting_remote_approval"]
                             /\ p.unknown = TRUE /\ p.status = "awaiting_remote_approval"
  BY DriverKnown, WithDoubt
<1>4. SaveAs(c, p, "idle")
  BY <1>3 DEF IssueUnknown
<1>5. PICK n \in {0, 1} : hub' = [hub EXCEPT !.issues = @ + n]
  BY DEF IssueUnknown
<1>6. /\ hub' \in [issues: Nat, indexed: BOOLEAN, pr: {"none", "open", "merged", "closed"}]
      /\ hub'.issues = hub.issues + n /\ hub'.pr = hub.pr
  BY <1>5, DriverKnown
<1>7. StageFits(calls[c].pc, Copy(c), hub) /\ IssueKnown(Copy(c), hub) =>
          /\ p.status # "absent"
          /\ StageFits("idle", p, hub') /\ IssueKnown(p, hub') /\ MergedIf(p, hub')
  BY <1>1, <1>3, <1>6 DEF StageFits, IssueKnown, MergedIf, LocalActive, RemoteActive, MergeActive
<1>8. QED
  BY <1>1, <1>2, <1>4, <1>6, <1>7, DriverSaves DEF FlowSteps

LEMMA PullRequestKeeps ==
    ASSUME FlowInv, NEW c \in Calls, FindPullRequest(c) \/ CreatePullRequest(c)
    PROVE  FlowInv'
<1>1. calls[c].pc \in {"find_pr", "create_pr"} /\ UNCHANGED <<repo, policy, overlapped, flowFaults>>
  BY DEF FindPullRequest, CreatePullRequest, At
<1>2. Driving(c)
  BY <1>1 DEF Driving, RemoteActive
<1>3. /\ hub' \in [issues: Nat, indexed: BOOLEAN, pr: {"none", "open", "merged", "closed"}]
      /\ hub'.issues = hub.issues
  <2>1. hub' = hub \/ hub' = [hub EXCEPT !.pr = "open"]
    BY DEF FindPullRequest, CreatePullRequest
  <2>2. QED
    BY <2>1, DriverKnown
<1>4. CASE SaveAs(c, [Copy(c) EXCEPT !.pr = TRUE], "review")
  <2>1. PICK p \in Proposals : /\ p = [Copy(c) EXCEPT !.pr = TRUE]
                               /\ p.status = Copy(c).status /\ p.issue = Copy(c).issue
                               /\ p.unknown = Copy(c).unknown /\ p.review = Copy(c).review
    BY DriverKnown, WithPullRequest
  <2>2. SaveAs(c, p, "review")
    BY <1>4, <2>1
  <2>3. StageFits(calls[c].pc, Copy(c), hub) /\ IssueKnown(Copy(c), hub) =>
            /\ p.status # "absent"
            /\ StageFits("review", p, hub') /\ IssueKnown(p, hub') /\ MergedIf(p, hub')
    BY <1>1, <1>3, <2>1 DEF StageFits, IssueKnown, MergedIf, LocalActive, RemoteActive, MergeActive
  <2>4. QED
    BY <1>1, <1>2, <1>3, <2>2, <2>3, DriverSaves DEF FlowSteps
<1>5. CASE Step(c, "create_pr") /\ UNCHANGED proposal
  <2>1. GitTypes'
    <3>1. overlapped \in BOOLEAN
      BY FlowTyped DEF FlowInv
    <3>2. QED
      BY <1>1, <1>3, <1>5, <3>1, StepTyped DEF FlowSteps
  <2>2. StageFits(calls[c].pc, Copy(c), hub) /\ IssueKnown(Copy(c), hub) =>
            StageFits("create_pr", Copy(c), hub') /\ IssueKnown(Copy(c), hub')
    BY <1>1, <1>3 DEF StageFits, IssueKnown, LocalActive, RemoteActive, MergeActive
  <2>3. QED
    BY <1>1, <1>2, <1>5, <2>1, <2>2, DriverSteps DEF FlowSteps
<1>6. QED
  BY <1>4, <1>5 DEF FindPullRequest, CreatePullRequest

\* A stage that fails: the call ends, and the proposal waits or has failed.
LEMMA GivesUp ==
    ASSUME FlowInv, NEW c \in Calls, Driving(c),
           NEW s \in {"awaiting_remote_approval", "awaiting_merge_approval", "failed", "changes_requested"},
           SaveAs(c, [Copy(c) EXCEPT !.status = s], "idle"),
           repo' = repo \/ repo' = [repo EXCEPT !.staged = 0], UNCHANGED <<policy, overlapped>>,
           hub' = hub \/ \E pr \in {"open", "merged"} : hub' = [hub EXCEPT !.pr = pr],
           flowFaults' = flowFaults \/ Fault
    PROVE  FlowInv'
<1>1. /\ hub' \in [issues: Nat, indexed: BOOLEAN, pr: {"none", "open", "merged", "closed"}]
      /\ hub'.issues = hub.issues
  BY DriverKnown
<1>2. s \in ProposalStatuses
  BY DEF ProposalStatuses
<1>3. PICK p \in Proposals : /\ p = [Copy(c) EXCEPT !.status = s]
                             /\ p.status = s /\ p.issue = Copy(c).issue
                             /\ p.unknown = Copy(c).unknown /\ p.review = Copy(c).review
  BY <1>2, DriverKnown, WithStatus
<1>4. SaveAs(c, p, "idle")
  BY <1>3
<1>5. StageFits(calls[c].pc, Copy(c), hub) /\ IssueKnown(Copy(c), hub) =>
          /\ p.status # "absent"
          /\ StageFits("idle", p, hub') /\ IssueKnown(p, hub') /\ MergedIf(p, hub')
  BY <1>1, <1>3 DEF StageFits, IssueKnown, MergedIf, LocalActive, RemoteActive, MergeActive
<1>6. QED
  BY <1>1, <1>4, <1>5, DriverSaves DEF FlowSteps

LEMMA RemoteFailsKeeps ==
    ASSUME FlowInv, NEW c \in Calls, RemoteFails(c)
    PROVE  FlowInv'
<1>1. Driving(c) /\ UNCHANGED <<repo, policy, overlapped>>
  BY DEF RemoteFails, Driving, RemoteActive
<1>2. SaveAs(c, [Copy(c) EXCEPT !.status = "awaiting_remote_approval"], "idle")
  BY DEF RemoteFails
<1>3. /\ hub' = hub \/ \E pr \in {"open", "merged"} : hub' = [hub EXCEPT !.pr = pr]
      /\ flowFaults' = flowFaults \/ Fault
  BY DEF RemoteFails
<1>4. QED
  BY <1>1, <1>2, <1>3, GivesUp

LEMMA MergeFailsKeeps ==
    ASSUME FlowInv, NEW c \in Calls, MergeFails(c)
    PROVE  FlowInv'
<1>1. Driving(c) /\ UNCHANGED <<repo, policy, overlapped>>
  BY DEF MergeFails, Driving, MergeActive
<1>2. SaveAs(c, [Copy(c) EXCEPT !.status = "awaiting_merge_approval"], "idle")
  BY DEF MergeFails
<1>3. /\ hub' = hub \/ \E pr \in {"open", "merged"} : hub' = [hub EXCEPT !.pr = pr]
      /\ flowFaults' = flowFaults \/ Fault
  BY DEF MergeFails
<1>4. QED
  BY <1>1, <1>2, <1>3, GivesUp

LEMMA LocalFailsKeeps ==
    ASSUME FlowInv, NEW c \in Calls, LocalFails(c)
    PROVE  FlowInv'
<1>1. Driving(c) /\ UNCHANGED <<policy, hub, overlapped>> /\ repo' = [repo EXCEPT !.staged = 0]
  BY DEF LocalFails, Driving, LocalActive
<1>2. PICK s \in {"failed", "changes_requested"} : SaveAs(c, [Copy(c) EXCEPT !.status = s], "idle")
  BY DEF LocalFails
<1>3. flowFaults' = flowFaults \/ Fault
  BY DEF LocalFails
<1>4. QED
  BY <1>1, <1>2, <1>3, GivesUp

LEMMA EndsIn ==
    ASSUME NEW c \in Calls
    PROVE  Ends(c) \in {"next", "idle"} /\ Ends(c) \in FlowSteps
  BY DEF Ends, FlowSteps

\* A review accepts or asks for changes; in mode "merge" nothing is completed by it.
LEMMA WithVerdict ==
    ASSUME NEW p \in Proposals, NEW verdict \in {"accepted", "changes_requested"}
    PROVE  \E q \in Proposals :
            /\ q = Reviewed(p, verdict)
            /\ q.status \in {"changes_requested", "awaiting_merge_approval", "completed"}
            /\ q.status = "completed" => Mode # "merge"
            /\ q.issue = p.issue /\ q.unknown = p.unknown
<1>1. PICK s \in {"changes_requested", "awaiting_merge_approval", "completed"} :
           /\ Reviewed(p, verdict) = [p EXCEPT !.review = verdict, !.status = s]
           /\ s = "completed" => Mode # "merge"
  BY DEF Reviewed
<1>2. /\ [p EXCEPT !.review = verdict, !.status = s] \in Proposals
      /\ [p EXCEPT !.review = verdict, !.status = s].status = s
      /\ [p EXCEPT !.review = verdict, !.status = s].issue = p.issue
      /\ [p EXCEPT !.review = verdict, !.status = s].unknown = p.unknown
  BY DEF Proposals, ProposalStatuses
<1>3. QED
  BY <1>1, <1>2

LEMMA ReviewKeeps ==
    ASSUME FlowInv, NEW c \in Calls, Review(c)
    PROVE  FlowInv'
<1>1. calls[c].pc = "review" /\ UNCHANGED <<repo, policy, hub, overlapped, flowFaults>>
  BY DEF Review, At
<1>2. Driving(c)
  BY <1>1 DEF Driving, RemoteActive
<1>3. PICK verdict \in {"accepted", "changes_requested"} : SaveAs(c, Reviewed(Copy(c), verdict), Ends(c))
  BY DEF Review
<1>4. PICK p \in Proposals : /\ p = Reviewed(Copy(c), verdict)
                             /\ p.status \in {"changes_requested", "awaiting_merge_approval", "completed"}
                             /\ p.status = "completed" => Mode # "merge"
                             /\ p.issue = Copy(c).issue /\ p.unknown = Copy(c).unknown
  BY DriverKnown, WithVerdict
<1>5. SaveAs(c, p, Ends(c))
  BY <1>3, <1>4
<1>6. PICK pc \in {"next", "idle"} : pc = Ends(c)
  BY EndsIn
<1>7. StageFits(calls[c].pc, Copy(c), hub) /\ IssueKnown(Copy(c), hub) =>
          /\ p.status # "absent"
          /\ StageFits(pc, p, hub') /\ IssueKnown(p, hub') /\ MergedIf(p, hub')
  BY <1>1, <1>4 DEF StageFits, IssueKnown, MergedIf, LocalActive, RemoteActive, MergeActive
<1>8. SaveAs(c, p, pc) /\ pc \in FlowSteps /\ pc \notin {"checking", "planning"}
  BY <1>5, <1>6, EndsIn
<1>9. QED
  BY <1>1, <1>2, <1>7, <1>8, DriverKnown, DriverSaves

LEMMA MergePullRequestKeeps ==
    ASSUME FlowInv, NEW c \in Calls, MergePullRequest(c)
    PROVE  FlowInv'
<1>1. calls[c].pc = "state" /\ Step(c, "confirm") /\ UNCHANGED <<proposal, repo, policy, overlapped, flowFaults>>
  BY DEF MergePullRequest, At
<1>2. Driving(c)
  BY <1>1 DEF Driving, MergeActive
<1>3. /\ hub' \in [issues: Nat, indexed: BOOLEAN, pr: {"none", "open", "merged", "closed"}]
      /\ hub'.issues = hub.issues
  <2>1. hub' = hub \/ hub' = [hub EXCEPT !.pr = "merged"]
    BY DEF MergePullRequest
  <2>2. QED
    BY <2>1, DriverKnown
<1>4. GitTypes'
  <2>1. overlapped \in BOOLEAN
    BY FlowTyped DEF FlowInv
  <2>2. QED
    BY <1>1, <1>3, <2>1, StepTyped DEF FlowSteps
<1>5. StageFits(calls[c].pc, Copy(c), hub) /\ IssueKnown(Copy(c), hub) =>
          StageFits("confirm", Copy(c), hub') /\ IssueKnown(Copy(c), hub')
  BY <1>1, <1>3 DEF StageFits, IssueKnown, LocalActive, RemoteActive, MergeActive
<1>6. QED
  BY <1>1, <1>2, <1>4, <1>5, DriverSteps DEF FlowSteps

LEMMA ConfirmKeeps ==
    ASSUME FlowInv, NEW c \in Calls, Confirm(c)
    PROVE  FlowInv'
<1>1. /\ calls[c].pc = "confirm" /\ Step(c, "report") /\ hub.pr = "merged"
      /\ UNCHANGED <<proposal, repo, policy, hub, overlapped, flowFaults>>
  BY DEF Confirm, At
<1>2. Driving(c)
  BY <1>1 DEF Driving, MergeActive
<1>3. GitTypes'
  <2>1. overlapped \in BOOLEAN
    BY FlowTyped DEF FlowInv
  <2>2. QED
    BY <1>1, <2>1, StepTyped, DriverKnown DEF FlowSteps
<1>4. StageFits(calls[c].pc, Copy(c), hub) /\ IssueKnown(Copy(c), hub) =>
          StageFits("report", Copy(c), hub') /\ IssueKnown(Copy(c), hub')
  BY <1>1 DEF StageFits, IssueKnown, LocalActive, RemoteActive, MergeActive
<1>5. QED
  BY <1>1, <1>2, <1>3, <1>4, DriverSteps DEF FlowSteps

LEMMA ReportEndKeeps ==
    ASSUME FlowInv, NEW c \in Calls, ReportEnd(c)
    PROVE  FlowInv'
<1>1. calls[c].pc = "report" /\ UNCHANGED <<repo, policy, hub, overlapped, flowFaults>>
  BY DEF ReportEnd, At
<1>2. Driving(c)
  BY <1>1 DEF Driving, MergeActive
<1>3. PICK s \in {"completed", "failed"} : SaveAs(c, [Copy(c) EXCEPT !.status = s], "idle")
  BY DEF ReportEnd
<1>4. s \in ProposalStatuses
  BY DEF ProposalStatuses
<1>5. PICK p \in Proposals : /\ p = [Copy(c) EXCEPT !.status = s]
                             /\ p.status = s /\ p.issue = Copy(c).issue
                             /\ p.unknown = Copy(c).unknown /\ p.review = Copy(c).review
  BY <1>4, DriverKnown, WithStatus
<1>6. SaveAs(c, p, "idle")
  BY <1>3, <1>5
<1>7. StageFits(calls[c].pc, Copy(c), hub) /\ IssueKnown(Copy(c), hub) =>
          /\ p.status # "absent"
          /\ StageFits("idle", p, hub') /\ IssueKnown(p, hub') /\ MergedIf(p, hub')
  BY <1>1, <1>5 DEF StageFits, IssueKnown, MergedIf, LocalActive, RemoteActive, MergeActive
<1>8. QED
  BY <1>1, <1>2, <1>6, <1>7, DriverKnown, DriverSaves DEF FlowSteps

LEMMA ValidateKeeps ==
    ASSUME FlowInv, NEW c \in Calls, Validate(c)
    PROVE  FlowInv'
<1>1. calls[c].pc = "validating" /\ Step(c, "staging") /\ UNCHANGED <<proposal, repo, policy, hub, overlapped, flowFaults>>
  BY DEF Validate, At
<1>2. Driving(c)
  BY <1>1 DEF Driving, LocalActive
<1>3. GitTypes'
  <2>1. overlapped \in BOOLEAN
    BY FlowTyped DEF FlowInv
  <2>2. QED
    BY <1>1, <2>1, StepTyped, DriverKnown DEF FlowSteps, LocalSteps
<1>4. StageFits(calls[c].pc, Copy(c), hub) /\ IssueKnown(Copy(c), hub) =>
          StageFits("staging", Copy(c), hub') /\ IssueKnown(Copy(c), hub')
  BY <1>1 DEF StageFits, IssueKnown, LocalActive, RemoteActive, MergeActive
<1>5. QED
  BY <1>1, <1>2, <1>3, <1>4, DriverSteps DEF FlowSteps, LocalSteps

LEMMA StageIndexKeeps ==
    ASSUME FlowInv, NEW c \in Calls, Stage(c)
    PROVE  FlowInv'
<1>1. /\ calls[c].pc = "staging" /\ Step(c, "committing") /\ repo.changes # 0
      /\ repo' = [repo EXCEPT !.staged = repo.changes]
      /\ UNCHANGED <<proposal, policy, hub, overlapped, flowFaults>>
  BY DEF Stage, At
<1>2. Driving(c)
  BY <1>1 DEF Driving, LocalActive
<1>3. GitTypes'
  <2>1. repo \in [edits: 1..MaxEdits, changes: 0..MaxEdits, staged: 0..MaxEdits, head: 0..MaxEdits]
    BY FlowTyped DEF FlowInv
  <2>2. /\ repo' \in [edits: 1..MaxEdits, changes: 0..MaxEdits, staged: 0..MaxEdits, head: 0..MaxEdits]
        /\ repo'.edits = repo.edits /\ repo'.changes = repo.changes /\ repo'.head = repo.head
        /\ repo'.staged = repo.changes
    BY <1>1, <2>1
  <2>3. RepoFits'
    BY <1>1, <2>1, <2>2, FlowAssumption DEF FlowInv, GitTypes, RepoFits
  <2>4. calls' \in [Calls -> CallTypes]
    BY <1>1, StepLeaves DEF FlowInv, FlowSteps, LocalSteps
  <2>5. QED
    BY <1>1, <2>2, <2>3, <2>4 DEF FlowInv, GitTypes, FlowTypeOK, CallTypes
<1>4. StageFits(calls[c].pc, Copy(c), hub) /\ IssueKnown(Copy(c), hub) =>
          StageFits("committing", Copy(c), hub') /\ IssueKnown(Copy(c), hub')
  BY <1>1 DEF StageFits, IssueKnown, LocalActive, RemoteActive, MergeActive
<1>5. QED
  BY <1>1, <1>2, <1>3, <1>4, DriverSteps DEF FlowSteps, LocalSteps

LEMMA CommitKeeps ==
    ASSUME FlowInv, NEW c \in Calls, Commit(c)
    PROVE  FlowInv'
<1>1. /\ calls[c].pc = "committing" /\ repo.staged # 0
      /\ calls' = [calls EXCEPT ![c].pc = "recording", ![c].copy.commit = repo.head + 1]
      /\ UNCHANGED <<proposal, policy, hub, overlapped, flowFaults>>
  BY DEF Commit, At
<1>2. Driving(c)
  BY <1>1 DEF Driving, LocalActive
<1>3. repo \in [edits: 1..MaxEdits, changes: 0..MaxEdits, staged: 0..MaxEdits, head: 0..MaxEdits] /\ RepoFits
  BY FlowTyped DEF FlowInv, GitTypes
<1>4. repo.head + 1 \in 0..MaxEdits
  BY <1>1, <1>3, FlowAssumption DEF RepoFits
<1>5. /\ repo' \in [edits: 1..MaxEdits, changes: 0..MaxEdits, staged: 0..MaxEdits, head: 0..MaxEdits]
      /\ repo'.edits = repo.edits /\ repo'.changes = (IF repo.changes = repo.staged THEN 0 ELSE repo.changes)
      /\ repo'.head = repo.head + 1 /\ repo'.staged = 0
  <2>1. PICK n \in 0..MaxEdits : n = IF repo.changes = repo.staged THEN 0 ELSE repo.changes
    BY <1>3, FlowAssumption
  <2>2. repo' = [repo EXCEPT !.head = @ + 1, !.staged = 0, !.changes = n]
    BY <2>1 DEF Commit
  <2>3. 0 \in 0..MaxEdits
    BY FlowAssumption
  <2>4. QED
    BY <1>3, <1>4, <2>1, <2>2, <2>3
<1>6. RepoFits'
  BY <1>1, <1>3, <1>5, FlowAssumption DEF RepoFits
<1>7. /\ calls' \in [Calls -> CallTypes] /\ calls'[c].pc = "recording"
      /\ \A d \in Calls \ {c} : calls'[d] = calls[d]
      /\ Same(calls'[c].copy, Copy(c))
  <2>1. calls \in [Calls -> CallTypes]
    BY FlowTyped DEF FlowInv
  <2>2. calls'[c].pc = "recording" /\ \A d \in Calls \ {c} : calls'[d] = calls[d]
    BY <1>1, <2>1 DEF CallTypes
  <2>3. calls' \in [Calls -> CallTypes]
    <3>1. PICK q \in Proposals : q = [Copy(c) EXCEPT !.commit = repo.head + 1]
      BY <1>4, DriverKnown DEF Proposals
    <3>2. calls' = [calls EXCEPT ![c].pc = "recording", ![c].copy = q]
      BY <1>1, <2>1, <3>1 DEF Copy, CallTypes
    <3>3. "recording" \in FlowSteps
      BY DEF FlowSteps, LocalSteps
    <3>4. QED
      BY <2>1, <3>1, <3>2, <3>3 DEF CallTypes
  <2>4. Same(calls'[c].copy, Copy(c))
    BY <1>1, <2>1 DEF CallTypes, Proposals, Same, Copy
  <2>5. QED
    BY <2>2, <2>3, <2>4
<1>8. GitTypes'
  BY <1>1, <1>5, <1>6, <1>7 DEF FlowInv, GitTypes, FlowTypeOK, CallTypes
<1>9. ASSUME ~overlapped
      PROVE  /\ \A d \in Calls \ {c} : calls[d].pc \in {"idle", "next"}
             /\ proposal'.status # "absent" /\ StageFits("recording", proposal', hub')
             /\ IssueKnown(proposal', hub') /\ MergedIf(proposal', hub')
             /\ Same(calls'[c].copy, proposal')
  <2>1. /\ \A d \in Calls \ {c} : calls[d].pc \in {"idle", "next"}
        /\ Same(Copy(c), proposal)
        /\ StageFits(calls[c].pc, Copy(c), hub) /\ IssueKnown(Copy(c), hub)
    BY <1>2, <1>9, DriverAlone
  <2>2. QED
    BY <1>1, <1>7, <2>1
    DEF Same, StageFits, IssueKnown, MergedIf, LocalActive, RemoteActive, MergeActive
<1>10. QED
  <2>1. CASE overlapped
    BY <1>1, <1>8, <2>1 DEF FlowInv
  <2>2. CASE ~overlapped
    BY <1>1, <1>7, <1>8, <1>9, <2>2, DriverGoes
  <2>3. QED
    BY <2>1, <2>2

LEMMA RecordKeeps ==
    ASSUME FlowInv, NEW c \in Calls, Record(c)
    PROVE  FlowInv'
<1>1. calls[c].pc = "recording" /\ UNCHANGED <<repo, policy, hub, overlapped, flowFaults>>
  BY DEF Record, At
<1>2. Driving(c)
  BY <1>1 DEF Driving, LocalActive
<1>3. PICK s \in {"completed", "awaiting_remote_approval"} :
           /\ s = "completed" => Mode # "merge"
           /\ SaveAs(c, [Copy(c) EXCEPT !.status = s], Ends(c))
  BY DEF Record
<1>4. s \in ProposalStatuses
  BY DEF ProposalStatuses
<1>5. PICK p \in Proposals : /\ p = [Copy(c) EXCEPT !.status = s]
                             /\ p.status = s /\ p.issue = Copy(c).issue
                             /\ p.unknown = Copy(c).unknown /\ p.review = Copy(c).review
  BY <1>4, DriverKnown, WithStatus
<1>6. PICK pc \in {"next", "idle"} : pc = Ends(c)
  BY EndsIn
<1>7. SaveAs(c, p, pc) /\ pc \in FlowSteps /\ pc \notin {"checking", "planning"}
  BY <1>3, <1>5, <1>6, EndsIn
<1>8. StageFits(calls[c].pc, Copy(c), hub) /\ IssueKnown(Copy(c), hub) =>
          /\ p.status # "absent"
          /\ StageFits(pc, p, hub') /\ IssueKnown(p, hub') /\ MergedIf(p, hub')
  BY <1>1, <1>3, <1>5 DEF StageFits, IssueKnown, MergedIf, LocalActive, RemoteActive, MergeActive
<1>9. QED
  BY <1>1, <1>2, <1>7, <1>8, DriverKnown, DriverSaves

\* A call outside the gates changes nothing that matters to the driver.
LEMMA CallWaits ==
    ASSUME FlowInv, GitTypes', NEW c \in Calls,
           UNCHANGED <<hub, overlapped>>, Same(proposal', proposal),
           \A d \in Calls \ {c} : calls'[d] = calls[d],
           \/ calls'[c].pc = "idle"
           \/ calls'[c].pc = "next" /\ proposal.status # "absent"
           \/ calls'[c].pc = "checking" /\ proposal.status = "awaiting_approval"
    PROVE  FlowInv'
<1> SUFFICES ASSUME ~overlapped
             PROVE  OneDriver' /\ WaitsFit' /\ IssueFits' /\ MergeFits'
  BY DEF FlowInv
<1>1. ~Driving(c)' /\ \A d \in Calls \ {c} : Driving(d)' <=> Driving(d)
  BY DEF Driving, LocalActive, RemoteActive, MergeActive
<1>2. ASSUME NEW d \in Calls \ {c}, Driving(d)
      PROVE  Follows(d)'
  <2>1. Follows(d)
    BY <1>2 DEF FlowInv, OneDriver
  <2>2. QED
    BY <2>1 DEF Follows, Same, StageFits, Copy
<1>3. OneDriver'
  BY <1>1, <1>2 DEF FlowInv, OneDriver
<1>4. WaitsFit'
  BY DEF FlowInv, WaitsFit, Same
<1>5. IssueFits'
  BY <1>1 DEF FlowInv, IssueFits, IssueKnown, Same
<1>6. MergeFits'
  BY DEF FlowInv, MergeFits, MergedIf, Same
<1>7. QED
  BY <1>3, <1>4, <1>5, <1>6

LEMMA SameAsItself == \A p \in Proposals : Same(p, p)
  BY DEF Same

LEMMA AuthorizeKeeps ==
    ASSUME FlowInv, NEW c \in Calls, Authorize(c)
    PROVE  FlowInv'
<1>1. PICK p \in Proposals : /\ proposal' = p /\ Same(p, proposal)
                             /\ calls' = [calls EXCEPT ![c] = [all |-> TRUE, pc |-> "next", copy |-> p]]
  <2>1. CASE proposal.status = "awaiting_approval"
    <3>1. PICK q \in Proposals : q = [proposal EXCEPT !.auth = TRUE] /\ Same(q, proposal)
      BY FlowTyped, WithAuth DEF FlowInv, Same
    <3>2. QED
      BY <2>1, <3>1 DEF Authorize
  <2>2. CASE proposal.status # "awaiting_approval"
    BY <2>2, FlowTyped DEF Authorize, FlowInv, Same
  <2>3. QED
    BY <2>1, <2>2
<1>2. UNCHANGED <<repo, policy, hub, overlapped, flowFaults>> /\ proposal.status # "absent"
  BY DEF Authorize
<1>3. /\ calls' \in [Calls -> CallTypes] /\ calls'[c].pc = "next"
      /\ \A d \in Calls \ {c} : calls'[d] = calls[d]
  BY <1>1, FlowTyped DEF FlowInv, CallTypes, FlowSteps
<1>4. GitTypes'
  BY <1>1, <1>2, <1>3, FlowTyped, CallsTyped DEF FlowInv
<1>5. QED
  BY <1>1, <1>2, <1>3, <1>4, CallWaits

LEMMA LeaveKeeps ==
    ASSUME FlowInv, NEW c \in Calls, Leave(c)
    PROVE  FlowInv'
<1>1. Step(c, "idle") /\ UNCHANGED <<proposal, repo, policy, hub, overlapped, flowFaults>>
  BY DEF Leave
<1>2. /\ calls' \in [Calls -> CallTypes] /\ calls'[c].pc = "idle"
      /\ \A d \in Calls \ {c} : calls'[d] = calls[d]
  BY <1>1, StepLeaves DEF FlowInv, FlowSteps
<1>3. GitTypes'
  BY <1>1, <1>2, FlowTyped, CallsTyped DEF FlowInv
<1>4. QED
  BY <1>1, <1>2, <1>3, CallWaits DEF Same

\* What Begins leaves of the calls.
LEMMA BeginLeaves ==
    ASSUME FlowInv, NEW c \in Calls, NEW pc \in FlowSteps, NEW p \in Proposals, Begins(c, pc, p)
    PROVE  /\ calls' \in [Calls -> CallTypes] /\ calls'[c].pc = pc /\ calls'[c].copy = p
           /\ \A d \in Calls \ {c} : calls'[d] = calls[d]
<1>1. PICK all \in BOOLEAN : all = At(c, "next")
  BY DEF At
<1>2. calls' = [calls EXCEPT ![c] = [all |-> all, pc |-> pc, copy |-> p]]
  BY <1>1 DEF Begins
<1>3. QED
  BY <1>2, FlowTyped DEF FlowInv, CallTypes

LEMMA ApproveReadsKeeps ==
    ASSUME FlowInv, NEW c \in Calls, ApproveReads(c)
    PROVE  FlowInv'
<1>1. /\ proposal.status = "awaiting_approval" /\ Begins(c, "checking", proposal)
      /\ UNCHANGED <<proposal, repo, policy, hub, overlapped, flowFaults>>
  BY DEF ApproveReads, MayApprove, Enters
<1>2. /\ calls' \in [Calls -> CallTypes] /\ calls'[c].pc = "checking"
      /\ \A d \in Calls \ {c} : calls'[d] = calls[d]
  BY <1>1, BeginLeaves, FlowTyped DEF FlowInv, FlowSteps, LocalSteps
<1>3. GitTypes'
  BY <1>1, <1>2, FlowTyped, CallsTyped DEF FlowInv
<1>4. QED
  BY <1>1, <1>2, <1>3, CallWaits DEF Same

\* The check begins to drive: any other call in the local stage is an overlap.
LEMMA ApproveChecksKeeps ==
    ASSUME FlowInv, NEW c \in Calls, ApproveChecks(c)
    PROVE  FlowInv'
<1>1. calls[c].pc = "checking" /\ UNCHANGED <<repo, policy, hub, flowFaults>>
  BY DEF ApproveChecks, At
<1>2. CASE SnapshotIs(Copy(c))
  <2>1. PICK p \in Proposals : /\ p = [Copy(c) EXCEPT !.status = "executing"]
                               /\ p.status = "executing"
    BY DriverKnown, WithStatus DEF ProposalStatuses
  <2>2. SaveAs(c, p, "validating")
    BY <1>2, <2>1 DEF ApproveChecks
  <2>3. /\ calls' \in [Calls -> CallTypes] /\ proposal' = p
        /\ calls'[c].pc = "validating" /\ calls'[c].copy = p
        /\ \A d \in Calls \ {c} : calls'[d] = calls[d]
    BY <2>2, SaveLeaves DEF FlowInv, FlowSteps, LocalSteps
  <2>4. overlapped' = (overlapped \/ \E o \in Calls \ {c} : calls[o].pc \in LocalSteps)
    BY <1>2 DEF ApproveChecks
  <2>5. overlapped' \in BOOLEAN
    BY <2>4
  <2>6. GitTypes'
    BY <1>1, <2>3, <2>5, DriverKnown, CallsTyped DEF FlowInv
  <2>7. ASSUME ~overlapped'
        PROVE  /\ ~overlapped
               /\ \A d \in Calls \ {c} : calls[d].pc \in {"idle", "next"}
               /\ IssueKnown(proposal, hub) /\ hub.issues = 0
    <3>1. ~overlapped /\ \A d \in Calls \ {c} : calls[d].pc \notin LocalSteps
      BY <2>4, <2>7
    <3>2. proposal.status = "awaiting_approval"
      BY <1>1, <3>1 DEF FlowInv, WaitsFit
    <3>3. /\ \A d \in Calls : calls[d].pc \in {"idle", "next", "checking"}
          /\ IssueKnown(proposal, hub)
      BY <3>1, <3>2, NobodyDrives
    <3>4. QED
      BY <3>1, <3>2, <3>3 DEF LocalSteps, IssueKnown
  <2>8. ~overlapped' => /\ StageFits("validating", proposal', hub') /\ IssueKnown(proposal', hub')
                        /\ MergedIf(proposal', hub')
    BY <1>1, <2>1, <2>3, <2>7 DEF StageFits, IssueKnown, MergedIf, LocalActive, RemoteActive, MergeActive
  <2>9. Same(calls'[c].copy, proposal') /\ proposal'.status # "absent"
    BY <2>1, <2>3 DEF Same
  <2>10. QED
    BY <2>3, <2>6, <2>7, <2>8, <2>9, DriverGoes
<1>3. CASE ~SnapshotIs(Copy(c))
  <2>1. Step(c, "idle") /\ UNCHANGED <<proposal, overlapped>>
    BY <1>3 DEF ApproveChecks
  <2>2. /\ calls' \in [Calls -> CallTypes] /\ calls'[c].pc = "idle"
        /\ \A d \in Calls \ {c} : calls'[d] = calls[d]
    BY <2>1, StepLeaves DEF FlowInv, FlowSteps
  <2>3. GitTypes'
    BY <1>1, <2>1, <2>2, FlowTyped, CallsTyped DEF FlowInv
  <2>4. QED
    BY <1>1, <2>1, <2>2, <2>3, CallWaits DEF Same
<1>4. QED
  BY <1>2, <1>3

\* A call that takes a waiting proposal through the remote or the merge gate.
LEMMA GateOpens ==
    ASSUME FlowInv, NEW c \in Calls, NEW pc \in {"branch", "state"}, NEW s \in {"publishing", "merging"},
           proposal.status \in {"awaiting_remote_approval", "awaiting_merge_approval"},
           proposal' = [proposal EXCEPT !.status = s], Begins(c, pc, [proposal EXCEPT !.status = s]),
           UNCHANGED <<repo, policy, hub, overlapped, flowFaults>>,
           pc = "branch" => s = "publishing",
           pc = "state" => s = "merging" /\ proposal.review = "accepted"
    PROVE  FlowInv'
<1>1. PICK p \in Proposals : /\ p = [proposal EXCEPT !.status = s]
                             /\ p.status = s /\ p.issue = proposal.issue
                             /\ p.unknown = proposal.unknown /\ p.review = proposal.review
  <2>1. proposal \in Proposals
    BY FlowTyped DEF FlowInv
  <2>2. s \in ProposalStatuses
    BY DEF ProposalStatuses
  <2>3. QED
    BY <2>1, <2>2, WithStatus
<1>2. Begins(c, pc, p) /\ proposal' = p
  BY <1>1
<1>3. /\ calls' \in [Calls -> CallTypes] /\ calls'[c].pc = pc /\ calls'[c].copy = p
      /\ \A d \in Calls \ {c} : calls'[d] = calls[d]
  BY <1>2, BeginLeaves DEF FlowSteps
<1>4. GitTypes'
  BY <1>2, <1>3, FlowTyped, CallsTyped DEF FlowInv
<1>5. ~overlapped => /\ \A d \in Calls : calls[d].pc \in {"idle", "next"}
                     /\ IssueKnown(proposal, hub)
  BY NobodyDrives
<1>6. ~overlapped => /\ StageFits(pc, proposal', hub') /\ IssueKnown(proposal', hub')
                     /\ MergedIf(proposal', hub')
  BY <1>1, <1>2, <1>5 DEF StageFits, IssueKnown, MergedIf, LocalActive, RemoteActive, MergeActive
<1>7. Same(calls'[c].copy, proposal') /\ proposal'.status # "absent"
  BY <1>1, <1>2, <1>3 DEF Same
<1>8. QED
  BY <1>3, <1>4, <1>5, <1>6, <1>7, DriverGoes

LEMMA GateKeeps ==
    ASSUME FlowInv, NEW c \in Calls, PublishReads(c) \/ MergeReads(c)
    PROVE  FlowInv'
<1>1. CASE PublishReads(c)
  <2>1. /\ proposal.status = "awaiting_remote_approval"
        /\ proposal' = [proposal EXCEPT !.status = "publishing"]
        /\ Begins(c, "branch", [proposal EXCEPT !.status = "publishing"])
        /\ UNCHANGED <<repo, policy, hub, overlapped, flowFaults>>
    BY <1>1 DEF PublishReads, MayPublish, Enters
  <2>2. QED
    BY <2>1, GateOpens
<1>2. CASE MergeReads(c)
  <2>1. /\ proposal.status = "awaiting_merge_approval" /\ proposal.review = "accepted"
        /\ proposal' = [proposal EXCEPT !.status = "merging"]
        /\ Begins(c, "state", [proposal EXCEPT !.status = "merging"])
        /\ UNCHANGED <<repo, policy, hub, overlapped, flowFaults>>
    BY <1>2 DEF MergeReads, MayMerge, Enters
  <2>2. QED
    BY <2>1, GateOpens
<1>3. QED
  BY <1>1, <1>2

LEMMA PrepareKeeps ==
    ASSUME FlowInv, NEW c \in Calls, Prepare(c)
    PROVE  FlowInv'
<1>1. /\ proposal.status = "absent" /\ \A o \in Calls : calls[o].pc # "planning"
      /\ UNCHANGED <<proposal, repo, policy, hub, overlapped, flowFaults>>
  BY DEF Prepare, At
<1>2. PICK p \in Proposals : calls' = [calls EXCEPT ![c] = [all |-> FALSE, pc |-> "planning", copy |-> p]]
  <2>1. PICK v \in 0..MaxPolicy, n \in 0..MaxEdits, h \in 0..MaxEdits :
          v = policy.version /\ n = repo.changes /\ h = repo.head
    BY FlowTyped DEF FlowInv
  <2>2. \A p \in Proposals : [p EXCEPT !.version = v, !.snapshot = n, !.base = h] \in Proposals
    BY DEF Proposals
  <2>3. [NoProposal EXCEPT !.version = policy.version, !.snapshot = repo.changes, !.base = repo.head] \in Proposals
    BY <2>1, <2>2, NoCallTyped
  <2>4. QED
    BY <2>3 DEF Prepare
<1>3. /\ calls' \in [Calls -> CallTypes] /\ calls'[c].pc = "planning"
      /\ \A d \in Calls \ {c} : calls'[d] = calls[d]
  BY <1>2, FlowTyped DEF FlowInv, CallTypes, FlowSteps
<1>4. GitTypes'
  BY <1>1, <1>3, FlowTyped, CallsTyped DEF FlowInv
<1>5. ASSUME ~overlapped'
      PROVE  OneDriver' /\ WaitsFit' /\ IssueFits' /\ MergeFits'
  <2>1. \A d \in Calls : calls[d].pc = "idle"
    BY <1>1, <1>5 DEF FlowInv, WaitsFit
  <2>2. \A d \in Calls : ~Driving(d)'
    BY <1>3, <2>1 DEF Driving, LocalActive, RemoteActive, MergeActive
  <2>3. OneDriver'
    BY <2>2 DEF OneDriver
  <2>4. WaitsFit'
    BY <1>1, <1>3, <2>1 DEF WaitsFit
  <2>5. IssueFits' /\ MergeFits'
    BY <1>1, <1>5 DEF FlowInv, IssueFits, IssueKnown, MergeFits, MergedIf
  <2>6. QED
    BY <2>3, <2>4, <2>5
<1>6. QED
  BY <1>4, <1>5 DEF FlowInv

LEMMA PlanKeeps ==
    ASSUME FlowInv, NEW c \in Calls, Plan(c)
    PROVE  FlowInv'
<1>1. calls[c].pc = "planning" /\ UNCHANGED <<repo, policy, hub, overlapped, flowFaults>>
  BY DEF Plan, At
<1>2. ASSUME ~overlapped
      PROVE  /\ proposal.status = "absent" /\ hub.issues = 0 /\ IssueKnown(proposal, hub)
             /\ \A d \in Calls \ {c} : calls[d].pc = "idle"
  BY <1>1, <1>2 DEF FlowInv, WaitsFit, IssueFits, IssueKnown
<1>3. CASE \E s \in {"awaiting_approval", "changes_requested"} : SaveAs(c, [Copy(c) EXCEPT !.status = s], "idle")
  <2>1. PICK s \in {"awaiting_approval", "changes_requested"} : SaveAs(c, [Copy(c) EXCEPT !.status = s], "idle")
    BY <1>3
  <2>2. s \in ProposalStatuses
    BY DEF ProposalStatuses
  <2>3. PICK p \in Proposals : /\ p = [Copy(c) EXCEPT !.status = s]
                               /\ p.status = s /\ p.issue = Copy(c).issue
                               /\ p.unknown = Copy(c).unknown /\ p.review = Copy(c).review
    BY <2>2, DriverKnown, WithStatus
  <2>4. SaveAs(c, p, "idle")
    BY <2>1, <2>3
  <2>5. /\ calls' \in [Calls -> CallTypes] /\ proposal' = p /\ calls'[c].pc = "idle"
        /\ \A d \in Calls \ {c} : calls'[d] = calls[d]
    BY <2>4, SaveLeaves DEF FlowInv, FlowSteps
  <2>6. GitTypes'
    BY <1>1, <2>5, FlowTyped, CallsTyped DEF FlowInv
  <2>7. ~overlapped => /\ StageFits("idle", proposal', hub') /\ IssueKnown(proposal', hub')
                       /\ MergedIf(proposal', hub')
    BY <1>1, <1>2, <2>3, <2>5 DEF StageFits, IssueKnown, MergedIf, LocalActive, RemoteActive, MergeActive
  <2>8. proposal'.status # "absent"
    BY <2>3, <2>5
  <2>9. QED
    BY <1>1, <1>2, <2>5, <2>6, <2>7, <2>8, DriverGoes
<1>4. CASE Step(c, "idle") /\ UNCHANGED proposal
  <2>1. /\ calls' \in [Calls -> CallTypes] /\ calls'[c].pc = "idle"
        /\ \A d \in Calls \ {c} : calls'[d] = calls[d]
    BY <1>4, StepLeaves DEF FlowInv, FlowSteps
  <2>2. GitTypes'
    BY <1>1, <1>4, <2>1, FlowTyped, CallsTyped DEF FlowInv
  <2>3. QED
    BY <1>1, <1>4, <2>1, <2>2, CallWaits DEF Same
<1>5. QED
  BY <1>3, <1>4 DEF Plan

\* The operator and GitHub: a merge that was reported stays one.
LEMMA OutsideKeeps ==
    ASSUME FlowInv, GitTypes', UNCHANGED <<proposal, calls, overlapped>>,
           hub'.issues = hub.issues, hub.pr = "merged" => hub'.pr = "merged"
    PROVE  FlowInv'
<1> SUFFICES ASSUME ~overlapped
             PROVE  OneDriver' /\ WaitsFit' /\ IssueFits' /\ MergeFits'
  BY DEF FlowInv
<1>1. ASSUME NEW d \in Calls, Driving(d)
      PROVE  Follows(d)'
  <2>1. Follows(d)
    BY <1>1 DEF FlowInv, OneDriver
  <2>2. QED
    BY <2>1 DEF Follows, StageFits, Same, Copy
<1>2. OneDriver'
  BY <1>1 DEF FlowInv, OneDriver, Driving
<1>3. WaitsFit' /\ IssueFits'
  BY DEF FlowInv, WaitsFit, IssueFits, IssueKnown, Driving
<1>4. MergeFits'
  BY DEF FlowInv, MergeFits, MergedIf
<1>5. QED
  BY <1>2, <1>3, <1>4

LEMMA RepoKeeps ==
    ASSUME FlowInv, Edit \/ OperatorCommits
    PROVE  FlowInv'
<1>1. repo \in [edits: 1..MaxEdits, changes: 0..MaxEdits, staged: 0..MaxEdits, head: 0..MaxEdits] /\ RepoFits
  BY FlowTyped DEF FlowInv, GitTypes
<1>2. UNCHANGED <<proposal, calls, policy, hub, overlapped, flowFaults>>
  BY DEF Edit, OperatorCommits
<1>3. /\ repo' \in [edits: 1..MaxEdits, changes: 0..MaxEdits, staged: 0..MaxEdits, head: 0..MaxEdits]
      /\ RepoFits'
  <2>1. CASE Edit
    <3>1. repo.edits < MaxEdits /\ repo' = [repo EXCEPT !.edits = @ + 1, !.changes = repo.edits + 1]
      BY <2>1 DEF Edit
    <3>2. repo.edits + 1 \in 1..MaxEdits /\ repo.edits + 1 \in 0..MaxEdits
      BY <1>1, <3>1, FlowAssumption
    <3>3. /\ repo' \in [edits: 1..MaxEdits, changes: 0..MaxEdits, staged: 0..MaxEdits, head: 0..MaxEdits]
          /\ repo'.edits = repo.edits + 1 /\ repo'.changes = repo.edits + 1
          /\ repo'.staged = repo.staged /\ repo'.head = repo.head
      BY <1>1, <3>1, <3>2
    <3>4. QED
      BY <1>1, <3>3, FlowAssumption DEF RepoFits
  <2>2. CASE OperatorCommits
    <3>1. repo.changes # 0 /\ repo' = [repo EXCEPT !.head = @ + 1, !.changes = 0, !.staged = 0]
      BY <2>2 DEF OperatorCommits
    <3>2. repo.head + 1 \in 0..MaxEdits /\ 0 \in 0..MaxEdits
      BY <1>1, <3>1, FlowAssumption DEF RepoFits
    <3>3. /\ repo' \in [edits: 1..MaxEdits, changes: 0..MaxEdits, staged: 0..MaxEdits, head: 0..MaxEdits]
          /\ repo'.edits = repo.edits /\ repo'.changes = 0
          /\ repo'.staged = 0 /\ repo'.head = repo.head + 1
      BY <1>1, <3>1, <3>2
    <3>4. QED
      BY <1>1, <3>1, <3>3, FlowAssumption DEF RepoFits
  <2>3. QED
    BY <2>1, <2>2
<1>4. GitTypes'
  BY <1>2, <1>3 DEF FlowInv, GitTypes, FlowTypeOK
<1>5. QED
  BY <1>2, <1>4, OutsideKeeps

LEMMA PolicyKeeps ==
    ASSUME FlowInv, SetPolicy
    PROVE  FlowInv'
<1>1. UNCHANGED <<proposal, calls, repo, hub, overlapped, flowFaults>>
  BY DEF SetPolicy
<1>2. policy' \in [version: 1..MaxPolicy, remote: BOOLEAN]
  <2>1. policy \in [version: 1..MaxPolicy, remote: BOOLEAN]
    BY FlowTyped DEF FlowInv
  <2>2. PICK r \in BOOLEAN : policy' = [version |-> policy.version + 1, remote |-> r]
    BY DEF SetPolicy
  <2>3. policy.version + 1 \in 1..MaxPolicy
    BY <2>1, FlowAssumption DEF SetPolicy
  <2>4. QED
    BY <2>2, <2>3
<1>3. GitTypes'
  BY <1>1, <1>2 DEF FlowInv, GitTypes, FlowTypeOK, RepoFits
<1>4. QED
  BY <1>1, <1>3, OutsideKeeps

LEMMA GitHubKeeps ==
    ASSUME FlowInv, IndexIssue \/ ClosePullRequest
    PROVE  FlowInv'
<1>1. UNCHANGED <<proposal, calls, repo, policy, overlapped>> /\ (flowFaults' = flowFaults \/ Fault)
  BY DEF IndexIssue, ClosePullRequest
<1>2. /\ hub' \in [issues: Nat, indexed: BOOLEAN, pr: {"none", "open", "merged", "closed"}]
      /\ hub'.issues = hub.issues /\ (hub.pr = "merged" => hub'.pr = "merged")
  <2>1. hub \in [issues: Nat, indexed: BOOLEAN, pr: {"none", "open", "merged", "closed"}]
    BY FlowTyped DEF FlowInv
  <2>2. CASE IndexIssue
    BY <2>1, <2>2 DEF IndexIssue
  <2>3. CASE ClosePullRequest
    BY <2>1, <2>3 DEF ClosePullRequest
  <2>4. QED
    BY <2>2, <2>3
<1>3. GitTypes'
  BY <1>1, <1>2, FlowTyped, CallsTyped DEF FlowInv
<1>4. QED
  BY <1>1, <1>2, <1>3, OutsideKeeps

LEMMA FlowCrashKeeps ==
    ASSUME FlowInv, FlowCrash
    PROVE  FlowInv'
<1>1. /\ calls' = [c \in Calls |-> NoCall] /\ Fault
      /\ UNCHANGED <<proposal, repo, policy, overlapped>>
  BY DEF FlowCrash
<1>2. /\ hub' \in [issues: Nat, indexed: BOOLEAN, pr: {"none", "open", "merged", "closed"}]
      /\ hub'.pr = hub.pr
      /\ \/ hub'.issues = hub.issues
         \/ hub'.issues = hub.issues + 1 /\ \E c \in Calls : calls[c].pc = "create_issue"
  <2>1. hub \in [issues: Nat, indexed: BOOLEAN, pr: {"none", "open", "merged", "closed"}]
    BY FlowTyped DEF FlowInv
  <2>2. hub' = hub \/ (hub' = [hub EXCEPT !.issues = @ + 1] /\ \E c \in Calls : calls[c].pc = "create_issue")
    BY DEF FlowCrash, At
  <2>3. QED
    BY <2>1, <2>2
<1>3. calls' \in [Calls -> CallTypes] /\ \A c \in Calls : calls'[c].pc = "idle"
  BY <1>1, NoCallTyped
<1>4. GitTypes'
  BY <1>1, <1>2, <1>3, FlowTyped, CallsTyped DEF FlowInv
<1>5. ASSUME ~overlapped'
      PROVE  OneDriver' /\ WaitsFit' /\ IssueFits' /\ MergeFits'
  <2>1. \A c \in Calls : ~Driving(c)'
    BY <1>3 DEF Driving, LocalActive, RemoteActive, MergeActive
  <2>2. OneDriver' /\ WaitsFit'
    BY <1>3, <2>1 DEF OneDriver, WaitsFit
  <2>3. MergeFits'
    BY <1>1, <1>2, <1>5 DEF FlowInv, MergeFits, MergedIf
  <2>4. IssueFits'
    <3>1. CASE hub'.issues = hub.issues
      BY <1>1, <1>5, <2>1, <3>1 DEF FlowInv, IssueFits, IssueKnown
    <3>2. CASE hub'.issues = hub.issues + 1 /\ \E c \in Calls : calls[c].pc = "create_issue"
      <4>1. PICK c \in Calls : calls[c].pc = "create_issue"
        BY <3>2
      <4>2. Driving(c)
        BY <4>1 DEF Driving, RemoteActive
      <4>3. Same(Copy(c), proposal) /\ StageFits("create_issue", Copy(c), hub)
        BY <1>1, <1>5, <4>1, <4>2, DriverAlone
      <4>4. hub.issues = 0 /\ proposal.status = "publishing"
        BY <4>3 DEF StageFits, Same, RemoteActive
      <4>5. QED
        BY <1>1, <2>1, <3>2, <4>4 DEF IssueFits
    <3>3. QED
      BY <1>2, <3>1, <3>2
  <2>5. QED
    BY <2>2, <2>3, <2>4
<1>6. QED
  BY <1>4, <1>5 DEF FlowInv

LEMMA FlowInvInductive ==
    ASSUME FlowInv, [FlowNext]_flowVars
    PROVE  FlowInv'
<1>1. CASE FlowNext
  <2>1. ASSUME NEW c \in Calls,
               \/ Prepare(c) \/ Plan(c) \/ Authorize(c) \/ Leave(c)
               \/ ApproveReads(c) \/ ApproveChecks(c) \/ Validate(c) \/ Stage(c) \/ Commit(c)
               \/ Record(c) \/ LocalFails(c)
        PROVE  FlowInv'
    BY <2>1, PrepareKeeps, PlanKeeps, AuthorizeKeeps, LeaveKeeps, ApproveReadsKeeps, ApproveChecksKeeps,
       ValidateKeeps, StageIndexKeeps, CommitKeeps, RecordKeeps, LocalFailsKeeps
  <2>2. ASSUME NEW c \in Calls,
               \/ PublishReads(c) \/ CheckHead(c) \/ FindIssue(c) \/ CreateIssue(c)
               \/ IssueUnknown(c) \/ Push(c) \/ FindPullRequest(c) \/ CreatePullRequest(c)
               \/ Review(c) \/ RemoteFails(c)
        PROVE  FlowInv'
    BY <2>2, GateKeeps, CheckHeadKeeps, FindIssueKeeps, CreateIssueKeeps, IssueUnknownKeeps, PushKeeps,
       PullRequestKeeps, ReviewKeeps, RemoteFailsKeeps
  <2>3. ASSUME NEW c \in Calls,
               MergeReads(c) \/ MergePullRequest(c) \/ Confirm(c) \/ ReportEnd(c) \/ MergeFails(c)
        PROVE  FlowInv'
    BY <2>3, GateKeeps, MergePullRequestKeeps, ConfirmKeeps, ReportEndKeeps, MergeFailsKeeps
  <2>4. QED
    BY <1>1, <2>1, <2>2, <2>3, RepoKeeps, PolicyKeeps, GitHubKeeps, FlowCrashKeeps DEF FlowNext
<1>2. CASE UNCHANGED flowVars
  <2>1. UNCHANGED <<proposal, calls, repo, policy, hub, overlapped, flowFaults>>
    BY <1>2 DEF flowVars
  <2>2. GitTypes'
    BY <2>1 DEF FlowInv, GitTypes, FlowTypeOK, RepoFits
  <2>3. QED
    BY <2>1, <2>2, OutsideKeeps
<1>3. QED
  BY <1>1, <1>2

LEMMA FlowInvHolds == FlowSpec => []FlowInv
  BY FlowInvInit, FlowInvInductive, PTL DEF FlowSpec

LEMMA FlowInvEnough == FlowInv => FlowTypeOK /\ IssueOnce /\ CompletedIsMerged
<1> SUFFICES ASSUME FlowInv
             PROVE  FlowTypeOK /\ IssueOnce /\ CompletedIsMerged
  OBVIOUS
<1>1. FlowTypeOK
  BY DEF FlowInv, GitTypes
<1>2. IssueOnce
  BY DEF FlowInv, IssueOnce, IssueFits, IssueKnown
<1>3. CompletedIsMerged
  BY DEF FlowInv, CompletedIsMerged, MergeFits, MergedIf
<1>4. QED
  BY <1>1, <1>2, <1>3

\* The proposal, the calls, the tree, the policy and GitHub keep their types.
THEOREM FlowTypeCorrect == FlowSpec => []FlowTypeOK
<1>1. FlowInv => FlowTypeOK
  BY FlowInvEnough
<1>2. QED
  BY <1>1, FlowInvHolds, PTL

\* An answer of GitHub that is lost does not make a second Issue: the next call
\* looks for the one that may be there.  It holds unless two calls overlapped.
THEOREM ProposalsHaveOneIssue == FlowSpec => []IssueOnce
<1>1. FlowInv => IssueOnce
  BY FlowInvEnough
<1>2. QED
  BY <1>1, FlowInvHolds, PTL

\* A proposal is completed only when its pull request was merged, and only a
\* review that was accepted leads there.  It holds unless two calls overlapped.
THEOREM ProposalsMergeAsReviewed == FlowSpec => []CompletedIsMerged
<1>1. FlowInv => CompletedIsMerged
  BY FlowInvEnough
<1>2. QED
  BY <1>1, FlowInvHolds, PTL

-----------------------------------------------------------------------------
(****************************************************************************)
(* GENERAL RUNS. Why the budget holds whatever the order of the calls, and  *)
(* why the row, the request and the trace of a job agree: the stage says    *)
(* who may be called, what a call has reserved is promised once, and each   *)
(* record is written in a stage that only the one before it leads to.       *)
(****************************************************************************)

MemberCalls == [state: {"none", "due", "out"}, reserved: 0 .. Prompt + Output]

\* Who may be called in which stage; only a call that is out has tokens reserved.
CallsFit(j) ==
    /\ \A c \in Callers : memberCall[j][c].state # "out" => memberCall[j][c].reserved = 0
    /\ runJob[j].stage \in Calling \ {"working"} => \A c \in Assignments : memberCall[j][c] = NotCalled
    /\ runJob[j].stage = "working" => memberCall[j][Chief] = NotCalled
    /\ runJob[j].status = "absent" \/ runJob[j].stage \in {"entering", "snapshot"} =>
           \A c \in Callers : memberCall[j][c] = NotCalled

CountFits(j) ==
    /\ promised[j] = Cardinality(Outstanding(j))
    /\ used[j] + promised[j] <= Budget + over[j]

\* What the three records say in which stage.
RecordsFit(j) ==
    /\ runJob[j].status \in {"queued", "running"} <=> runJob[j].stage # "none"
    /\ request[j] = "absent" => row[j].status = "absent" /\ trace[j] = "absent" /\ runJob[j].stage = "none"
    /\ runJob[j].stage # "none" => row[j].status \in {"absent", "queued", "running"}
    /\ runJob[j].stage \notin {"none", "ending"} => request[j] = "open"
    /\ runJob[j].stage \in Calling \cup {"throwing", "ran", "entering", "snapshot", "threw"} => trace[j] # "completed"
    /\ runJob[j].stage = "returned" => trace[j] = "completed"
    /\ runJob[j].stage = "ending" =>
           /\ runJob[j].end # "none"
           /\ runJob[j].end = "completed" => request[j] = "completed"
           /\ runJob[j].end = "cancelled" => request[j] = "failed" /\ trace[j] # "completed"
    /\ row[j].status = "completed" => request[j] = "completed"
    /\ row[j].status = "cancelled" => request[j] = "failed" /\ trace[j] # "completed"
    /\ request[j] = "completed" => trace[j] = "completed"

RunFits(j) == CallsFit(j) /\ CountFits(j) /\ RecordsFit(j)

RunsInv == RunsTypeOK /\ \A j \in RunJobs : RunFits(j)

\* The tokens that a vector of calls may still count.
TokensOf(m) == {p \in Callers \X (1 .. Prompt + Output) : p[2] <= m[p[1]].reserved}

LEMMA TokensFinite ==
    ASSUME NEW m \in [Callers -> MemberCalls]
    PROVE  IsFiniteSet(TokensOf(m)) /\ Cardinality(TokensOf(m)) \in Nat
<1>1. IsFiniteSet(Callers)
  BY RunsAssumption, FS_AddElement DEF Callers
<1>2. IsFiniteSet(1 .. Prompt + Output)
  BY RunsAssumption, FS_Interval
<1>3. IsFiniteSet(Callers \X (1 .. Prompt + Output))
  BY <1>1, <1>2, FS_Product
<1>4. TokensOf(m) \subseteq Callers \X (1 .. Prompt + Output)
  BY DEF TokensOf
<1>5. QED
  BY <1>3, <1>4, FS_Subset, FS_CardinalityType

\* A reservation of one caller adds its tokens, and no others.
LEMMA ReservationAdds ==
    ASSUME NEW m \in [Callers -> MemberCalls], NEW n \in [Callers -> MemberCalls], NEW c \in Callers,
           m[c].reserved = 0, \A d \in Callers \ {c} : n[d].reserved = m[d].reserved
    PROVE  Cardinality(TokensOf(n)) = Cardinality(TokensOf(m)) + n[c].reserved
<1> DEFINE r == n[c].reserved
           new == {c} \X (1 .. r)
<1>1. r \in 0 .. Prompt + Output /\ r \in Nat
  BY RunsAssumption DEF MemberCalls
<1>2. IsFiniteSet(new) /\ Cardinality(new) = r
  <2>1. IsFiniteSet({c}) /\ Cardinality({c}) = 1
    BY FS_Singleton
  <2>2. IsFiniteSet(1 .. r) /\ Cardinality(1 .. r) = r
    BY <1>1, FS_Interval
  <2>3. IsFiniteSet(new) /\ Cardinality(new) = Cardinality({c}) * Cardinality(1 .. r)
    <3>1. IsFiniteSet({c} \X (1 .. r)) /\ Cardinality({c} \X (1 .. r)) = Cardinality({c}) * Cardinality(1 .. r)
      BY <2>1, <2>2, FS_Product, Zenon
    <3>2. QED
      BY <3>1
  <2>4. Cardinality({c}) * Cardinality(1 .. r) = r
    <3>1. 1 * r = r
      BY <1>1
    <3>2. QED
      BY <2>1, <2>2, <3>1
  <2>5. QED
    BY <2>3, <2>4
<1>3. TokensOf(n) = TokensOf(m) \cup new
  <2>1. ASSUME NEW p \in Callers \X (1 .. Prompt + Output)
        PROVE  p \in TokensOf(n) <=> p \in TokensOf(m) \cup new
    <3>1. CASE p[1] = c
      BY <3>1, <1>1, RunsAssumption DEF TokensOf
    <3>2. CASE p[1] # c
      BY <3>2 DEF TokensOf
    <3>3. QED
      BY <3>1, <3>2
  <2>2. new \subseteq Callers \X (1 .. Prompt + Output)
    BY <1>1, RunsAssumption
  <2>3. TokensOf(n) \subseteq Callers \X (1 .. Prompt + Output) /\ TokensOf(m) \subseteq Callers \X (1 .. Prompt + Output)
    BY DEF TokensOf
  <2>4. QED
    BY <2>1, <2>2, <2>3
<1>4. TokensOf(m) \cap new = {}
  <2>1. ASSUME NEW p \in TokensOf(m), p \in new
        PROVE  FALSE
    BY <2>1, RunsAssumption DEF TokensOf
  <2>2. QED
    BY <2>1
<1> HIDE DEF r, new
<1>5. QED
  <2>1. IsFiniteSet(TokensOf(m)) /\ Cardinality(TokensOf(m)) \in Nat
    BY TokensFinite
  <2>2. Cardinality(TokensOf(m) \cup new) =
            Cardinality(TokensOf(m)) + Cardinality(new) - Cardinality(TokensOf(m) \cap new)
    BY <1>2, <2>1, FS_Union
  <2>3. Cardinality(TokensOf(m) \cap new) = 0
    BY <1>4, FS_EmptySet
  <2>4. Cardinality(TokensOf(n)) = Cardinality(TokensOf(m)) + r
    BY <1>1, <1>2, <1>3, <2>1, <2>2, <2>3
  <2>5. QED
    BY <2>4 DEF r

LEMMA RunsKnown ==
    ASSUME RunsInv, NEW j \in RunJobs
    PROVE  /\ memberCall \in [RunJobs -> [Callers -> MemberCalls]]
           /\ memberCall[j] \in [Callers -> MemberCalls]
           /\ Outstanding(j) = TokensOf(memberCall[j])
           /\ runJob \in [RunJobs -> [status: RunStatuses, retryable: BOOLEAN, stage: GeneralStages,
                                      end: {"none", "completed", "failed", "cancelled"}]]
           /\ row \in [RunJobs -> [status: RunStatuses, retryable: BOOLEAN]]
           /\ request \in [RunJobs -> {"absent", "open", "completed", "failed"}]
           /\ trace \in [RunJobs -> {"absent", "running", "completed", "failed", "cancelled"}]
           /\ aborted \in [RunJobs -> BOOLEAN]
           /\ used \in [RunJobs -> Nat] /\ promised \in [RunJobs -> Nat] /\ over \in [RunJobs -> Nat]
           /\ CallsFit(j) /\ CountFits(j) /\ RecordsFit(j)
           /\ NotCalled \in MemberCalls
  BY RunsAssumption DEF RunsInv, RunsTypeOK, RunFits, MemberCalls, Outstanding, TokensOf, NotCalled

\* Nothing but the job of the step changes.
LEMMA OneRun ==
    ASSUME RunsInv, RunsTypeOK', NEW j \in RunJobs, RunFits(j)',
           \A i \in RunJobs \ {j} :
               /\ runJob'[i] = runJob[i] /\ row'[i] = row[i] /\ request'[i] = request[i]
               /\ trace'[i] = trace[i] /\ memberCall'[i] = memberCall[i]
               /\ used'[i] = used[i] /\ promised'[i] = promised[i] /\ over'[i] = over[i]
    PROVE  RunsInv'
<1>1. ASSUME NEW i \in RunJobs
      PROVE  RunFits(i)'
  <2>1. CASE i = j
    BY <2>1
  <2>2. CASE i # j
    <3>1. RunFits(i)
      BY DEF RunsInv
    <3>2. CallsFit(i)'
      BY <3>1, <2>2 DEF RunFits, CallsFit
    <3>3. CountFits(i)'
      BY <3>1, <2>2 DEF RunFits, CountFits, Outstanding
    <3>4. RecordsFit(i)'
      BY <3>1, <2>2 DEF RunFits, RecordsFit
    <3>5. QED
      BY <3>2, <3>3, <3>4 DEF RunFits
  <2>3. QED
    BY <2>1, <2>2
<1>2. QED
  BY <1>1 DEF RunsInv

LEMMA DueIs ==
    ASSUME NEW callers \in SUBSET Callers
    PROVE  /\ Due(callers) \in [Callers -> MemberCalls]
           /\ \A c \in Callers : Due(callers)[c].reserved = 0 /\ Due(callers)[c].state # "out"
           /\ \A c \in Callers \ callers : Due(callers)[c] = NotCalled
<1>1. [NotCalled EXCEPT !.state = "due"] = [state |-> "due", reserved |-> 0]
  BY DEF NotCalled
<1>2. QED
  BY <1>1, RunsAssumption DEF Due, NotCalled, MemberCalls

\* The budget when the calls of a job go from m to n and reserve nothing new.
LEMMA NothingOutstanding ==
    ASSUME NEW m \in [Callers -> MemberCalls], \A c \in Callers : m[c].reserved = 0
    PROVE  Cardinality(TokensOf(m)) = 0
<1>1. TokensOf(m) = {}
  BY DEF TokensOf
<1>2. QED
  BY <1>1, FS_EmptySet

LEMMA RunsInvInit == RunsInit => RunsInv
<1> SUFFICES ASSUME RunsInit
             PROVE  RunsInv
  OBVIOUS
<1>1. /\ Due({}) \in [Callers -> MemberCalls]
      /\ \A c \in Callers : Due({})[c] = NotCalled /\ Due({})[c].reserved = 0
  BY DueIs
<1>2. RunsTypeOK
  BY <1>1, RunsAssumption DEF RunsInit, RunsTypeOK, NoRunJob, RunStatuses, GeneralStages, MemberCalls
<1>3. ASSUME NEW j \in RunJobs
      PROVE  RunFits(j)
  <2>1. CallsFit(j)
    BY <1>1, RunsAssumption DEF RunsInit, CallsFit, NoRunJob, Calling, Callers
  <2>2. CountFits(j)
    <3>1. Outstanding(j) = TokensOf(Due({}))
      BY DEF RunsInit, Outstanding, TokensOf
    <3>2. QED
      BY <3>1, <1>1, NothingOutstanding, RunsAssumption DEF RunsInit, CountFits
  <2>3. RecordsFit(j)
    BY DEF RunsInit, RecordsFit, NoRunJob, Calling
  <2>4. QED
    BY <2>1, <2>2, <2>3 DEF RunFits
<1>4. QED
  BY <1>2, <1>3 DEF RunsInv

RunJobType == [status: RunStatuses, retryable: BOOLEAN, stage: GeneralStages,
               end: {"none", "completed", "failed", "cancelled"}]

LEMMA RunJobTyped ==
    ASSUME RunsInv
    PROVE  runJob \in [RunJobs -> RunJobType]
  BY DEF RunsInv, RunsTypeOK, RunJobType

\* What a change of the stage alone leaves of the job.
LEMMA StageMoves ==
    ASSUME RunsInv, NEW j \in RunJobs, NEW s \in GeneralStages, runJob' = [runJob EXCEPT ![j].stage = s]
    PROVE  /\ runJob' \in [RunJobs -> RunJobType]
           /\ \A i \in RunJobs \ {j} : runJob'[i] = runJob[i]
           /\ runJob'[j].status = runJob[j].status /\ runJob'[j].stage = s
  BY RunJobTyped DEF RunJobType

LEMMA EnqueueRunKeeps ==
    ASSUME RunsInv, NEW j \in RunJobs, EnqueueRun(j)
    PROVE  RunsInv'
<1>1. /\ runJob[j].status = "absent" /\ request[j] = "absent"
      /\ request' = [request EXCEPT ![j] = "open"]
      /\ UNCHANGED <<row, trace, aborted, memberCall, used, promised, over, runStops>>
  BY DEF EnqueueRun
<1>2. /\ runJob' \in [RunJobs -> RunJobType]
      /\ \A i \in RunJobs \ {j} : runJob'[i] = runJob[i]
      /\ runJob'[j].status = "queued" /\ runJob'[j].stage = "entering"
  BY RunJobTyped DEF EnqueueRun, NoRunJob, RunStatuses, GeneralStages, RunJobType
<1>3. RunsTypeOK'
  BY <1>1, <1>2 DEF RunsInv, RunsTypeOK, RunJobType
<1>4. CallsFit(j)'
  BY <1>1, <1>2, RunsKnown DEF CallsFit, Calling
<1>5. CountFits(j)'
  BY <1>1, RunsKnown DEF CountFits, Outstanding
<1>6. RecordsFit(j)'
  BY <1>1, <1>2, RunsKnown DEF RecordsFit, Calling
<1>7. QED
  BY <1>1, <1>2, <1>3, <1>4, <1>5, <1>6, RunsKnown, OneRun DEF RunFits

\* The facts of a step that changes what is told of a job, and calls nobody.
LEMMA SaveJobKeeps ==
    ASSUME RunsInv, NEW j \in RunJobs, SaveJob(j)
    PROVE  RunsInv'
<1>1. /\ runJob[j].stage = "entering"
      /\ row' = [row EXCEPT ![j] = [status |-> "queued", retryable |-> FALSE]]
      /\ UNCHANGED <<request, trace, aborted, memberCall, used, promised, over, runStops>>
  BY DEF SaveJob, SaveRow
<1>2. /\ runJob' \in [RunJobs -> RunJobType]
      /\ \A i \in RunJobs \ {j} : runJob'[i] = runJob[i]
      /\ runJob'[j].status = "running" /\ runJob'[j].stage = "snapshot"
  BY RunJobTyped DEF SaveJob, RunStatuses, GeneralStages, RunJobType
<1>3. RunsTypeOK'
  BY <1>1, <1>2, RunsKnown DEF RunsInv, RunsTypeOK, RunStatuses, RunJobType
<1>4. CallsFit(j)'
  BY <1>1, <1>2, RunsKnown DEF CallsFit, Calling
<1>5. CountFits(j)'
  BY <1>1, RunsKnown DEF CountFits, Outstanding
<1>6. RecordsFit(j)'
  BY <1>1, <1>2, RunsKnown DEF RecordsFit, Calling
<1>7. QED
  BY <1>1, <1>2, <1>3, <1>4, <1>5, <1>6, RunsKnown, OneRun DEF RunFits

LEMMA CancelKeeps ==
    ASSUME RunsInv, NEW j \in RunJobs, Cancel(j)
    PROVE  RunsInv'
<1>1. /\ runJob[j].status = "running" /\ runJob[j].stage # "ending"
      /\ aborted' = [aborted EXCEPT ![j] = TRUE]
      /\ row' = [row EXCEPT ![j] = [status |-> "running", retryable |-> FALSE]]
      /\ UNCHANGED <<runJob, request, trace, memberCall, used, promised, over, runStops>>
  BY DEF Cancel, SaveRow
<1>2. RunsTypeOK'
  BY <1>1, RunsKnown DEF RunsInv, RunsTypeOK, RunStatuses
<1>3. CallsFit(j)'
  BY <1>1, RunsKnown DEF CallsFit
<1>4. CountFits(j)'
  BY <1>1, RunsKnown DEF CountFits, Outstanding
<1>5. RecordsFit(j)'
  BY <1>1, RunsKnown DEF RecordsFit, Calling
<1>6. QED
  BY <1>1, <1>2, <1>3, <1>4, <1>5, RunsKnown, OneRun DEF RunFits

\* The ends of a run: a failed snapshot, the trace of a failure or of a result.
LEMMA EndKeeps ==
    ASSUME RunsInv, NEW j \in RunJobs, SnapshotFails(j) \/ TraceFailure(j) \/ TraceCompleted(j)
    PROVE  RunsInv'
<1>1. \/ runJob[j].stage \in {"snapshot", "throwing"} /\ trace'[j] # "completed" /\ runJob'[j].stage = "threw"
      \/ runJob[j].stage = "ran" /\ trace'[j] = "completed" /\ runJob'[j].stage = "returned"
  BY RunsKnown DEF SnapshotFails, TraceFailure, TraceCompleted, RecordsFit
<1>2. UNCHANGED <<row, request, aborted, memberCall, used, promised, over, runStops>>
  BY DEF SnapshotFails, TraceFailure, TraceCompleted
<1>3. /\ runJob' \in [RunJobs -> RunJobType]
      /\ \A i \in RunJobs \ {j} : runJob'[i] = runJob[i]
      /\ runJob'[j].status = runJob[j].status
  <2>1. \E s \in {"threw", "returned"} : runJob' = [runJob EXCEPT ![j].stage = s]
    BY DEF SnapshotFails, TraceFailure, TraceCompleted
  <2>2. QED
    BY <2>1, StageMoves DEF GeneralStages
<1>4. /\ trace' \in [RunJobs -> {"absent", "running", "completed", "failed", "cancelled"}]
      /\ \A i \in RunJobs \ {j} : trace'[i] = trace[i]
  BY RunsKnown DEF SnapshotFails, TraceFailure, TraceCompleted
<1>5. RunsTypeOK'
  BY <1>2, <1>3, <1>4 DEF RunsInv, RunsTypeOK, RunJobType
<1>6. CallsFit(j)'
  BY <1>1, <1>2, <1>3, RunsKnown DEF CallsFit, Calling
<1>7. CountFits(j)'
  BY <1>2, RunsKnown DEF CountFits, Outstanding
<1>8. RecordsFit(j)'
  BY <1>1, <1>2, <1>3, RunsKnown DEF RecordsFit, Calling
<1>9. QED
  BY <1>2, <1>3, <1>4, <1>5, <1>6, <1>7, <1>8, RunsKnown, OneRun DEF RunFits

LEMMA SettleKeeps ==
    ASSUME RunsInv, NEW j \in RunJobs, NEW retryable \in BOOLEAN, SettleRequest(j, retryable)
    PROVE  RunsInv'
<1>1. \/ /\ runJob[j].stage = "returned" /\ request'[j] = "completed"
         /\ runJob'[j].stage = "ending" /\ runJob'[j].end = "completed"
      \/ /\ runJob[j].stage = "threw" /\ request'[j] = "failed"
         /\ runJob'[j].stage = "ending" /\ runJob'[j].end \in {"cancelled", "failed"}
  BY RunsKnown DEF SettleRequest
<1>2. UNCHANGED <<row, trace, aborted, memberCall, used, promised, over, runStops>>
  BY DEF SettleRequest
<1>3. /\ runJob' \in [RunJobs -> RunJobType]
      /\ \A i \in RunJobs \ {j} : runJob'[i] = runJob[i]
      /\ runJob'[j].status = runJob[j].status
  <2>1. CASE runJob' = [runJob EXCEPT ![j].stage = "ending", ![j].end = "completed"]
    BY <2>1, RunJobTyped DEF GeneralStages, RunJobType
  <2>2. ASSUME NEW b \in BOOLEAN, NEW e \in {"cancelled", "failed"},
               runJob' = [runJob EXCEPT ![j].stage = "ending", ![j].retryable = b, ![j].end = e]
        PROVE  /\ runJob' \in [RunJobs -> RunJobType]
               /\ \A i \in RunJobs \ {j} : runJob'[i] = runJob[i]
               /\ runJob'[j].status = runJob[j].status
    BY <2>2, RunJobTyped DEF GeneralStages, RunJobType
  <2>3. aborted[j] \in BOOLEAN
    BY RunsKnown
  <2>4. \/ runJob' = [runJob EXCEPT ![j].stage = "ending", ![j].end = "completed"]
        \/ runJob' = [runJob EXCEPT ![j].stage = "ending", ![j].retryable = retryable /\ ~aborted[j],
                                    ![j].end = IF aborted[j] THEN "cancelled" ELSE "failed"]
    BY DEF SettleRequest
  <2>5. QED
    BY <2>1, <2>2, <2>3, <2>4
<1>4. /\ request' \in [RunJobs -> {"absent", "open", "completed", "failed"}]
      /\ \A i \in RunJobs \ {j} : request'[i] = request[i]
  BY RunsKnown DEF SettleRequest
<1>5. RunsTypeOK'
  BY <1>2, <1>3, <1>4 DEF RunsInv, RunsTypeOK, RunJobType
<1>6. CallsFit(j)'
  BY <1>1, <1>2, <1>3, RunsKnown DEF CallsFit, Calling
<1>7. CountFits(j)'
  BY <1>2, RunsKnown DEF CountFits, Outstanding
<1>8. RecordsFit(j)'
  BY <1>1, <1>2, <1>3, RunsKnown DEF RecordsFit, Calling
<1>9. QED
  BY <1>2, <1>3, <1>4, <1>5, <1>6, <1>7, <1>8, RunsKnown, OneRun DEF RunFits

LEMMA EndJobKeeps ==
    ASSUME RunsInv, NEW j \in RunJobs, EndJob(j)
    PROVE  RunsInv'
<1>1. /\ runJob[j].stage = "ending"
      /\ row' = [row EXCEPT ![j] = [status |-> runJob[j].end, retryable |-> runJob[j].retryable]]
      /\ aborted' = [aborted EXCEPT ![j] = TRUE]
      /\ UNCHANGED <<request, trace, memberCall, used, promised, over, runStops>>
  BY DEF EndJob, Ended, SaveRow
<1>2. runJob[j].end \in {"completed", "failed", "cancelled"} /\ runJob[j].end \in RunStatuses
  BY <1>1, RunsKnown DEF RecordsFit, RunStatuses
<1>3. /\ runJob' \in [RunJobs -> RunJobType]
      /\ \A i \in RunJobs \ {j} : runJob'[i] = runJob[i]
      /\ runJob'[j].status = runJob[j].end /\ runJob'[j].stage = "none"
  <2>1. PICK e \in RunStatuses : e = runJob[j].end
    BY <1>2
  <2>2. runJob' = [runJob EXCEPT ![j].status = e, ![j].stage = "none"]
    BY <2>1 DEF EndJob, Ended
  <2>3. QED
    BY <2>1, <2>2, RunJobTyped DEF GeneralStages, RunJobType
<1>4. RunsTypeOK'
  BY <1>1, <1>2, <1>3, RunsKnown DEF RunsInv, RunsTypeOK, RunJobType
<1>5. CallsFit(j)'
  BY <1>1, <1>2, <1>3, RunsKnown DEF CallsFit, Calling
<1>6. CountFits(j)'
  BY <1>1, RunsKnown DEF CountFits, Outstanding
<1>7. RecordsFit(j)'
  BY <1>1, <1>2, <1>3, RunsKnown DEF RecordsFit, Calling
<1>8. QED
  BY <1>1, <1>3, <1>4, <1>5, <1>6, <1>7, RunsKnown, OneRun DEF RunFits
\* BeginRun finds nobody called: whoever it calls has nothing reserved.
LEMMA BeginRunKeeps ==
    ASSUME RunsInv, NEW j \in RunJobs, BeginRun(j)
    PROVE  RunsInv'
<1>1. /\ runJob[j].stage = "snapshot"
      /\ trace' = [trace EXCEPT ![j] = "running"]
      /\ row' = [row EXCEPT ![j] = [status |-> "running", retryable |-> FALSE]]
      /\ runJob' = [runJob EXCEPT ![j].stage = "planning"]
      /\ memberCall' = [memberCall EXCEPT ![j] = Due({Chief})]
      /\ UNCHANGED <<request, aborted, used, promised, over, runStops>>
  BY DEF BeginRun, SaveRow
<1>2. /\ runJob' \in [RunJobs -> RunJobType]
      /\ \A i \in RunJobs \ {j} : runJob'[i] = runJob[i]
      /\ runJob'[j].status = runJob[j].status /\ runJob'[j].stage = "planning"
  BY <1>1, StageMoves DEF GeneralStages, Calling
<1>3. /\ Due({Chief}) \in [Callers -> MemberCalls]
      /\ \A c \in Callers : Due({Chief})[c].reserved = 0 /\ Due({Chief})[c].state # "out"
      /\ \A c \in Callers \ {Chief} : Due({Chief})[c] = NotCalled
  BY DueIs DEF Callers
<1>4. memberCall' \in [RunJobs -> [Callers -> MemberCalls]] /\ memberCall'[j] = Due({Chief})
  BY <1>1, <1>3, RunsKnown
<1>5. RunsTypeOK'
  BY <1>1, <1>2, <1>4, RunsKnown DEF RunsInv, RunsTypeOK, RunStatuses, RunJobType, MemberCalls
<1>6. CallsFit(j)'
  BY <1>1, <1>2, <1>3, <1>4, RunsKnown, RunsAssumption DEF CallsFit, Calling, Callers, RecordsFit
<1>7. CountFits(j)'
  <2>1. Cardinality(TokensOf(memberCall[j])) = 0
    <3>1. memberCall[j] \in [Callers -> MemberCalls]
      BY RunsKnown
    <3>2. \A c \in Callers : memberCall[j][c].reserved = 0
      BY <1>1, RunsKnown DEF CallsFit, NotCalled
    <3>3. QED
      BY <3>1, <3>2, NothingOutstanding
  <2>2. Cardinality(TokensOf(Due({Chief}))) = 0
    BY <1>3, NothingOutstanding
  <2>3. Outstanding(j)' = TokensOf(Due({Chief}))
    BY <1>4 DEF Outstanding, TokensOf
  <2>4. QED
    BY <1>1, <2>1, <2>2, <2>3, RunsKnown DEF CountFits
<1>8. RecordsFit(j)'
  BY <1>1, <1>2, RunsKnown DEF RecordsFit, Calling
<1>9. QED
  BY <1>1, <1>2, <1>5, <1>6, <1>7, <1>8, RunsKnown, OneRun DEF RunFits

\* A call starts with what it has reserved, and no more is reserved than remains.
LEMMA ReserveKeeps ==
    ASSUME RunsInv, NEW j \in RunJobs, NEW c \in Callers, Reserve(j, c)
    PROVE  RunsInv'
<1> DEFINE r == Prompt + Allowed(j)
           new == [state |-> "out", reserved |-> r]
<1>1. /\ memberCall[j][c].state = "due" /\ Allowed(j) > 0
      /\ memberCall' = [memberCall EXCEPT ![j][c] = new]
      /\ promised' = [promised EXCEPT ![j] = @ + Prompt + Allowed(j)]
      /\ UNCHANGED <<runJob, row, request, trace, aborted, used, over, runStops>>
  BY DEF Reserve
<1>2. r \in 0 .. Prompt + Output /\ used[j] + promised[j] + r <= Budget /\ Allowed(j) \in Nat
  BY <1>1, RunsAssumption, RunsKnown DEF Allowed, Remaining
<1> HIDE DEF r
<1>3. /\ memberCall' \in [RunJobs -> [Callers -> MemberCalls]] /\ memberCall'[j] \in [Callers -> MemberCalls]
      /\ memberCall'[j][c] = new /\ \A d \in Callers \ {c} : memberCall'[j][d] = memberCall[j][d]
  BY <1>1, <1>2, RunsKnown DEF MemberCalls
<1>4. promised' = [promised EXCEPT ![j] = @ + r]
  <2>1. promised[j] + Prompt + Allowed(j) = promised[j] + r
    BY <1>2, RunsKnown, RunsAssumption DEF r
  <2>2. QED
    BY <1>1, <2>1
<1>5. promised' \in [RunJobs -> Nat] /\ promised'[j] = promised[j] + r
  BY <1>2, <1>4, RunsKnown, RunsAssumption
<1>6. RunsTypeOK'
  BY <1>1, <1>3, <1>5 DEF RunsInv, RunsTypeOK, MemberCalls
<1>7. CallsFit(j)'
  <2>1. CallsFit(j) /\ memberCall[j][c] # NotCalled
    BY <1>1, RunsKnown DEF NotCalled
  <2>2. new.state = "out"
    OBVIOUS
  <2>3. \A d \in Callers : memberCall'[j][d].state # "out" => memberCall'[j][d].reserved = 0
    BY <1>3, <2>1, <2>2 DEF CallsFit
  <2>4. runJob[j].stage \in Calling \ {"working"} => \A d \in Assignments : memberCall'[j][d] = NotCalled
    BY <1>3, <2>1 DEF CallsFit, Callers
  <2>5. runJob[j].stage = "working" => memberCall'[j][Chief] = NotCalled
    BY <1>3, <2>1 DEF CallsFit, Callers
  <2>6. ~(runJob[j].status = "absent" \/ runJob[j].stage \in {"entering", "snapshot"})
    BY <2>1 DEF CallsFit
  <2>7. QED
    BY <1>1, <2>3, <2>4, <2>5, <2>6 DEF CallsFit
<1>8. CountFits(j)'
  <2>1. memberCall[j][c].reserved = 0
    BY <1>1, RunsKnown DEF CallsFit
  <2>2. Cardinality(TokensOf(memberCall'[j])) = Cardinality(TokensOf(memberCall[j])) + memberCall'[j][c].reserved
    <3>1. memberCall[j] \in [Callers -> MemberCalls]
      BY RunsKnown
    <3>2. \A d \in Callers \ {c} : memberCall'[j][d].reserved = memberCall[j][d].reserved
      BY <1>3
    <3>3. QED
      BY <1>3, <2>1, <3>1, <3>2, ReservationAdds
  <2>3. Outstanding(j)' = TokensOf(memberCall'[j])
    BY DEF Outstanding, TokensOf
  <2>4. promised'[j] = Cardinality(Outstanding(j)')
    BY <1>3, <1>5, <2>2, <2>3, RunsKnown DEF CountFits
  <2>5. used'[j] + promised'[j] <= Budget + over'[j]
    BY <1>1, <1>2, <1>5, RunsKnown, RunsAssumption
  <2>6. QED
    BY <2>4, <2>5 DEF CountFits
<1>9. RecordsFit(j)'
  BY <1>1, RunsKnown DEF RecordsFit
<1>10. QED
  BY <1>1, <1>3, <1>5, <1>6, <1>7, <1>8, <1>9, RunsKnown, OneRun DEF RunFits

\* A call that is over gives back what it had reserved.
LEMMA ReleaseFits ==
    ASSUME RunsInv, NEW j \in RunJobs, NEW c \in Callers, Released(j, c),
           memberCall'[j] \in [Callers -> MemberCalls], memberCall'[j][c].reserved = 0,
           \A d \in Callers \ {c} : memberCall'[j][d].reserved = memberCall[j][d].reserved
    PROVE  /\ promised' \in [RunJobs -> Nat] /\ promised'[j] = Cardinality(Outstanding(j)')
           /\ promised[j] = promised'[j] + memberCall[j][c].reserved
           /\ \A i \in RunJobs \ {j} : promised'[i] = promised[i]
<1> DEFINE r == memberCall[j][c].reserved
<1>1. /\ memberCall[j] \in [Callers -> MemberCalls] /\ promised \in [RunJobs -> Nat]
      /\ promised[j] = Cardinality(TokensOf(memberCall[j]))
      /\ r \in Nat
  BY RunsKnown, RunsAssumption DEF CountFits, MemberCalls
<1> HIDE DEF r
<1>2. Cardinality(TokensOf(memberCall[j])) = Cardinality(TokensOf(memberCall'[j])) + r
  <2>1. \A d \in Callers \ {c} : memberCall[j][d].reserved = memberCall'[j][d].reserved
    OBVIOUS
  <2>2. QED
    BY <1>1, <2>1, ReservationAdds DEF r
<1>3. Cardinality(TokensOf(memberCall'[j])) \in Nat
  BY TokensFinite
<1>4. promised' = [promised EXCEPT ![j] = @ - r]
  BY DEF Released, r
<1>5. promised'[j] = Cardinality(TokensOf(memberCall'[j])) /\ promised' \in [RunJobs -> Nat]
  BY <1>1, <1>2, <1>3, <1>4
<1>6. Outstanding(j)' = TokensOf(memberCall'[j])
  BY DEF Outstanding, TokensOf
<1>7. QED
  BY <1>1, <1>2, <1>4, <1>5, <1>6 DEF r

LEMMA CallFailsKeeps ==
    ASSUME RunsInv, NEW j \in RunJobs, NEW c \in Callers, CallFails(j, c)
    PROVE  RunsInv'
<1>1. /\ memberCall[j][c].state \in {"due", "out"}
      /\ memberCall' = [memberCall EXCEPT ![j][c] = NotCalled]
      /\ Released(j, c)
      /\ UNCHANGED <<row, request, trace, aborted, used, over, runStops>>
  BY DEF CallFails
<1>2. PICK s \in GeneralStages : /\ runJob' = [runJob EXCEPT ![j].stage = s]
                                 /\ IF runJob[j].stage \in Calling THEN s = "throwing" ELSE s = runJob[j].stage
  <2>1. runJob[j].stage \in GeneralStages
    BY RunJobTyped DEF RunJobType
  <2>2. CASE runJob[j].stage \in Calling
    BY <2>2 DEF CallFails, GeneralStages
  <2>3. CASE runJob[j].stage \notin Calling
    BY <2>1, <2>3 DEF CallFails
  <2>4. QED
    BY <2>2, <2>3
<1>3. /\ runJob' \in [RunJobs -> RunJobType]
      /\ \A i \in RunJobs \ {j} : runJob'[i] = runJob[i]
      /\ runJob'[j].status = runJob[j].status /\ runJob'[j].stage = s
  BY <1>2, StageMoves
<1>4. /\ memberCall' \in [RunJobs -> [Callers -> MemberCalls]] /\ memberCall'[j] \in [Callers -> MemberCalls]
      /\ memberCall'[j][c] = NotCalled /\ \A d \in Callers \ {c} : memberCall'[j][d] = memberCall[j][d]
      /\ NotCalled.reserved = 0
  BY <1>1, RunsKnown DEF NotCalled
<1>5. /\ promised' \in [RunJobs -> Nat] /\ promised'[j] = Cardinality(Outstanding(j)')
      /\ promised[j] = promised'[j] + memberCall[j][c].reserved
      /\ \A i \in RunJobs \ {j} : promised'[i] = promised[i]
  <2>1. \A d \in Callers \ {c} : memberCall'[j][d].reserved = memberCall[j][d].reserved
    BY <1>4
  <2>2. QED
    BY <1>1, <1>4, <2>1, ReleaseFits
<1>6. RunsTypeOK'
  BY <1>1, <1>3, <1>4, <1>5 DEF RunsInv, RunsTypeOK, MemberCalls, RunJobType
<1>7. CallsFit(j)'
  <2>1. CallsFit(j) /\ memberCall[j][c] # NotCalled
    BY <1>1, RunsKnown DEF NotCalled
  <2>2. \A d \in Callers : memberCall'[j][d].state # "out" => memberCall'[j][d].reserved = 0
    BY <1>4, <2>1 DEF CallsFit
  <2>3. s \notin Calling
    BY <1>2 DEF Calling
  <2>4. ~(runJob[j].status = "absent" \/ s \in {"entering", "snapshot"})
    BY <1>2, <2>1 DEF CallsFit
  <2>5. QED
    BY <1>3, <2>2, <2>3, <2>4 DEF CallsFit, Calling
<1>8. CountFits(j)'
  <2>1. memberCall[j][c].reserved \in Nat
    BY RunsKnown, RunsAssumption DEF MemberCalls
  <2>2. QED
    BY <1>1, <1>5, <2>1, RunsKnown, RunsAssumption DEF CountFits
<1>9. RecordsFit(j)'
  <2>1. RecordsFit(j)
    BY RunsKnown
  <2>2. CASE runJob[j].stage \in Calling
    BY <1>1, <1>2, <1>3, <2>1, <2>2 DEF RecordsFit, Calling
  <2>3. CASE runJob[j].stage \notin Calling
    <3>1. runJob'[j].stage = runJob[j].stage /\ runJob'[j].status = runJob[j].status /\ runJob'[j].end = runJob[j].end
      BY <1>2, <1>3, <2>3, RunJobTyped DEF RunJobType
    <3>2. QED
      BY <1>1, <2>1, <3>1 DEF RecordsFit
  <2>4. QED
    BY <2>2, <2>3
<1>10. QED
  BY <1>1, <1>3, <1>4, <1>5, <1>6, <1>7, <1>8, <1>9, RunsKnown, OneRun DEF RunFits

\* What an answer leaves: its caller, and whoever is called next, has nothing
\* reserved; the stage it leads to is one of a run that goes on.
LEMMA AnswerFits ==
    ASSUME RunsInv, NEW j \in RunJobs, NEW c \in Callers, Answer(j, c)
    PROVE  /\ memberCall' \in [RunJobs -> [Callers -> MemberCalls]]
           /\ \A i \in RunJobs \ {j} : memberCall'[i] = memberCall[i]
           /\ memberCall'[j][c].reserved = 0
           /\ \A d \in Callers \ {c} : memberCall'[j][d].reserved = memberCall[j][d].reserved
           /\ \/ runJob' = runJob
              \/ /\ runJob[j].stage \in Calling
                 /\ \E s \in Calling \cup {"throwing", "ran"} : runJob' = [runJob EXCEPT ![j].stage = s]
           /\ CallsFit(j)'
<1>1. CallsFit(j) /\ memberCall[j][c].state = "out" /\ memberCall[j][c] # NotCalled
  BY RunsKnown DEF Answer, Count, NotCalled
<1>2. NotCalled.reserved = 0 /\ NotCalled.state # "out" /\ NotCalled \in MemberCalls
  BY RunsKnown DEF NotCalled
<1>3. ~(runJob[j].status = "absent" \/ runJob[j].stage \in {"entering", "snapshot"})
  BY <1>1 DEF CallsFit
<1>4. CASE c # Chief /\ MemberAnswers(j, c)
  <2> USE <1>4
  <2>1. c \in Assignments /\ runJob[j].stage \notin Calling \ {"working"}
    BY <1>1 DEF CallsFit, Callers
  <2>2. CASE /\ memberCall' = [memberCall EXCEPT ![j][c] = NotCalled]
             /\ runJob' = runJob \/ (runJob[j].stage = "working" /\ runJob' = [runJob EXCEPT ![j].stage = "throwing"])
    <3>1. /\ memberCall' \in [RunJobs -> [Callers -> MemberCalls]]
          /\ \A i \in RunJobs \ {j} : memberCall'[i] = memberCall[i]
          /\ memberCall'[j][c] = NotCalled
          /\ \A d \in Callers \ {c} : memberCall'[j][d] = memberCall[j][d]
      BY <2>2, <1>2, RunsKnown
    <3>2. runJob'[j].status = runJob[j].status /\ runJob'[j].stage \in {runJob[j].stage, "throwing"}
      BY <2>2, RunJobTyped DEF RunJobType
    <3>3. CallsFit(j)'
      <4>1. \A d \in Callers : memberCall'[j][d].state # "out" => memberCall'[j][d].reserved = 0
        BY <3>1, <1>1, <1>2 DEF CallsFit
      <4>2. runJob'[j].stage \notin Calling \ {"working"}
        BY <2>1, <3>2 DEF Calling
      <4>3. runJob'[j].stage = "working" => memberCall'[j][Chief] = NotCalled
        BY <3>1, <3>2, <1>1 DEF CallsFit, Callers
      <4>4. ~(runJob'[j].status = "absent" \/ runJob'[j].stage \in {"entering", "snapshot"})
        BY <1>3, <3>2
      <4>5. QED
        BY <4>1, <4>2, <4>3, <4>4 DEF CallsFit
    <3>4. \/ runJob' = runJob
          \/ /\ runJob[j].stage \in Calling
             /\ \E s \in Calling \cup {"throwing", "ran"} : runJob' = [runJob EXCEPT ![j].stage = s]
      BY <2>2 DEF Calling
    <3>5. QED
      BY <3>1, <3>3, <3>4, <1>2
  <2>3. CASE /\ memberCall' = [memberCall EXCEPT ![j] = Due({Chief})]
             /\ runJob' = [runJob EXCEPT ![j].stage = "reviewing"]
             /\ runJob[j].stage = "working"
             /\ \A d \in Assignments \ {c} : memberCall[j][d] = NotCalled
    <3>1. /\ Due({Chief}) \in [Callers -> MemberCalls]
          /\ \A d \in Callers : Due({Chief})[d].reserved = 0 /\ Due({Chief})[d].state # "out"
          /\ \A d \in Callers \ {Chief} : Due({Chief})[d] = NotCalled
      BY DueIs DEF Callers
    <3>2. /\ memberCall' \in [RunJobs -> [Callers -> MemberCalls]] /\ memberCall'[j] = Due({Chief})
          /\ \A i \in RunJobs \ {j} : memberCall'[i] = memberCall[i]
      BY <2>3, <3>1, RunsKnown
    <3>3. \A d \in Callers \ {c} : memberCall[j][d] = NotCalled
      BY <2>3, <1>1 DEF CallsFit, Callers
    <3>4. runJob'[j].status = runJob[j].status /\ runJob'[j].stage = "reviewing"
      BY <2>3, RunJobTyped DEF RunJobType
    <3>5. CallsFit(j)'
      BY <3>1, <3>2, <3>4, <1>3, RunsAssumption DEF CallsFit, Callers
    <3>6. \E s \in Calling \cup {"throwing", "ran"} : runJob' = [runJob EXCEPT ![j].stage = s]
      BY <2>3 DEF Calling
    <3>7. runJob[j].stage \in Calling
      BY <2>3 DEF Calling
    <3>8. QED
      BY <3>1, <3>2, <3>3, <3>5, <3>6, <3>7, <1>2
  <2>4. \/ /\ memberCall' = [memberCall EXCEPT ![j][c] = NotCalled]
           /\ runJob' = runJob \/ (runJob[j].stage = "working" /\ runJob' = [runJob EXCEPT ![j].stage = "throwing"])
        \/ /\ memberCall' = [memberCall EXCEPT ![j] = Due({Chief})]
           /\ runJob' = [runJob EXCEPT ![j].stage = "reviewing"]
           /\ runJob[j].stage = "working"
           /\ {d \in Assignments \ {c} : memberCall[j][d] # NotCalled} = {}
    BY DEF MemberAnswers
  <2>5. QED
    BY <2>2, <2>3, <2>4
<1>5. CASE \E next \in Calling \cup {"throwing", "ran"}, plan \in SUBSET Assignments :
               c = Chief /\ ChiefAnswers(j, next, plan)
  <2>1. PICK next \in Calling \cup {"throwing", "ran"}, plan \in SUBSET Assignments :
             c = Chief /\ ChiefAnswers(j, next, plan)
    BY <1>5
  <2>2. PICK callers \in SUBSET Callers :
             /\ memberCall' = [memberCall EXCEPT ![j] = Due(callers)]
             /\ next \in Calling \ {"working"} => callers = {Chief}
             /\ next = "working" => callers \subseteq Assignments
    <3>1. CASE next \in Calling \ {"working"}
      BY <2>1, <3>1 DEF ChiefAnswers, Callers
    <3>2. CASE next \notin Calling \ {"working"}
      BY <2>1, <3>2 DEF ChiefAnswers, Callers
    <3>3. QED
      BY <3>1, <3>2
  <2>3. /\ Due(callers) \in [Callers -> MemberCalls]
        /\ \A d \in Callers : Due(callers)[d].reserved = 0 /\ Due(callers)[d].state # "out"
        /\ \A d \in Callers \ callers : Due(callers)[d] = NotCalled
    BY DueIs
  <2>4. /\ memberCall' \in [RunJobs -> [Callers -> MemberCalls]] /\ memberCall'[j] = Due(callers)
        /\ \A i \in RunJobs \ {j} : memberCall'[i] = memberCall[i]
    BY <2>2, <2>3, RunsKnown
  <2>5. runJob[j].stage \in Calling \ {"working"}
    BY <2>1, <1>1 DEF ChiefAnswers, CallsFit
  <2>6. \A d \in Callers \ {c} : memberCall[j][d] = NotCalled
    BY <2>1, <2>5, <1>1 DEF CallsFit, Callers
  <2>7. runJob' = [runJob EXCEPT ![j].stage = next]
    BY <2>1 DEF ChiefAnswers
  <2>8. runJob'[j].status = runJob[j].status /\ runJob'[j].stage = next
    BY <2>7, RunJobTyped DEF RunJobType
  <2>9. next \notin {"entering", "snapshot"}
    BY DEF Calling
  <2>10. CallsFit(j)'
    BY <2>2, <2>3, <2>4, <2>8, <2>9, <1>3, RunsAssumption DEF CallsFit, Callers
  <2>11. /\ memberCall'[j][c].reserved = 0
         /\ \A d \in Callers \ {c} : memberCall'[j][d].reserved = memberCall[j][d].reserved
    BY <2>3, <2>4, <2>6, <1>2
  <2>12. \E s \in Calling \cup {"throwing", "ran"} : runJob' = [runJob EXCEPT ![j].stage = s]
    BY <2>7
  <2>13. QED
    BY <2>4, <2>5, <2>10, <2>11, <2>12
<1>6. QED
  BY <1>4, <1>5 DEF Answer

LEMMA AnswerKeeps ==
    ASSUME RunsInv, NEW j \in RunJobs, NEW c \in Callers, Answer(j, c)
    PROVE  RunsInv'
<1>1. /\ memberCall' \in [RunJobs -> [Callers -> MemberCalls]]
      /\ \A i \in RunJobs \ {j} : memberCall'[i] = memberCall[i]
      /\ memberCall'[j][c].reserved = 0
      /\ \A d \in Callers \ {c} : memberCall'[j][d].reserved = memberCall[j][d].reserved
      /\ CallsFit(j)'
  BY AnswerFits
<1>2. /\ runJob' \in [RunJobs -> RunJobType]
      /\ \A i \in RunJobs \ {j} : runJob'[i] = runJob[i]
      /\ \/ runJob'[j] = runJob[j]
         \/ /\ runJob[j].stage \in Calling /\ runJob'[j].status = runJob[j].status
            /\ runJob'[j].stage \in Calling \cup {"throwing", "ran"}
  <2>1. CASE runJob' = runJob
    BY <2>1, RunJobTyped
  <2>2. CASE /\ runJob[j].stage \in Calling
             /\ \E s \in Calling \cup {"throwing", "ran"} : runJob' = [runJob EXCEPT ![j].stage = s]
    <3>1. PICK s \in Calling \cup {"throwing", "ran"} : runJob' = [runJob EXCEPT ![j].stage = s]
      BY <2>2
    <3>2. s \in GeneralStages
      BY DEF GeneralStages
    <3>3. QED
      BY <2>2, <3>1, <3>2, StageMoves
  <2>3. QED
    BY <2>1, <2>2, AnswerFits
<1>3. /\ Released(j, c)
      /\ UNCHANGED <<row, request, trace, aborted, runStops>>
  BY DEF Answer, Count
<1>4. PICK t \in 1 .. Prompt + Output, e \in 0 .. Excess :
           /\ t <= memberCall[j][c].reserved
           /\ used' = [used EXCEPT ![j] = @ + t + e]
           /\ over' = [over EXCEPT ![j] = @ + e]
  BY DEF Answer, Count
<1>5. /\ used' \in [RunJobs -> Nat] /\ over' \in [RunJobs -> Nat]
      /\ used'[j] = used[j] + t + e /\ over'[j] = over[j] + e
      /\ \A i \in RunJobs \ {j} : used'[i] = used[i] /\ over'[i] = over[i]
  BY <1>4, RunsKnown, RunsAssumption
<1>6. /\ promised' \in [RunJobs -> Nat] /\ promised'[j] = Cardinality(Outstanding(j)')
      /\ promised[j] = promised'[j] + memberCall[j][c].reserved
      /\ \A i \in RunJobs \ {j} : promised'[i] = promised[i]
  BY <1>1, <1>3, ReleaseFits
<1>7. RunsTypeOK'
  BY <1>1, <1>2, <1>3, <1>5, <1>6 DEF RunsInv, RunsTypeOK, MemberCalls, RunJobType
<1>8. CountFits(j)'
  <2>1. memberCall[j][c].reserved \in Nat /\ t \in Nat /\ e \in Nat
    BY RunsKnown, RunsAssumption DEF MemberCalls
  <2>2. used[j] + promised[j] <= Budget + over[j] /\ used[j] \in Nat /\ over[j] \in Nat /\ promised'[j] \in Nat
    BY <1>6, RunsKnown DEF CountFits
  <2>3. used'[j] + promised'[j] <= Budget + over'[j]
    BY <1>4, <1>5, <1>6, <2>1, <2>2, RunsAssumption
  <2>4. QED
    BY <1>6, <2>3 DEF CountFits
<1>9. RecordsFit(j)'
  <2>1. RecordsFit(j)
    BY RunsKnown
  <2>2. CASE runJob'[j] = runJob[j]
    BY <1>3, <2>1, <2>2 DEF RecordsFit
  <2>3. CASE /\ runJob[j].stage \in Calling /\ runJob'[j].status = runJob[j].status
             /\ runJob'[j].stage \in Calling \cup {"throwing", "ran"}
    BY <1>3, <2>1, <2>3 DEF RecordsFit, Calling
  <2>4. QED
    BY <1>2, <2>2, <2>3
<1>10. QED
  BY <1>1, <1>2, <1>3, <1>5, <1>6, <1>7, <1>8, <1>9, OneRun DEF RunFits

LEMMA RunsRestartKeeps ==
    ASSUME RunsInv, RunsRestart
    PROVE  RunsInv'
<1> DEFINE hydrated(j) == IF row[j].status \in {"queued", "running"}
                          THEN [status |-> "failed", retryable |-> TRUE] ELSE row[j]
<1>1. /\ row' = [j \in RunJobs |-> hydrated(j)]
      /\ runJob' = [j \in RunJobs |-> [NoRunJob EXCEPT !.status = hydrated(j).status,
                                            !.retryable = hydrated(j).retryable]]
      /\ aborted' = [j \in RunJobs |-> FALSE]
      /\ memberCall' = [j \in RunJobs |-> Due({})]
      /\ used' = [j \in RunJobs |-> 0] /\ promised' = [j \in RunJobs |-> 0] /\ over' = [j \in RunJobs |-> 0]
      /\ UNCHANGED <<request, trace>>
  BY DEF RunsRestart
<1>0. runStops' \in 0 .. MaxRunStops
  <2>1. runStops \in 0 .. MaxRunStops
    BY DEF RunsInv, RunsTypeOK
  <2>2. runStops < MaxRunStops /\ runStops' = runStops + 1
    BY DEF RunsRestart
  <2>3. QED
    BY <2>1, <2>2, RunsAssumption
<1>2. ASSUME NEW j \in RunJobs
      PROVE  /\ hydrated(j) \in [status: RunStatuses, retryable: BOOLEAN]
             /\ hydrated(j).status \notin {"queued", "running"}
             /\ \/ hydrated(j).status = row[j].status
                \/ row[j].status \in {"queued", "running"} /\ hydrated(j).status = "failed"
  <2>1. row[j] \in [status: RunStatuses, retryable: BOOLEAN]
    BY RunsKnown
  <2>2. CASE row[j].status \in {"queued", "running"}
    BY <2>2 DEF RunStatuses
  <2>3. CASE row[j].status \notin {"queued", "running"}
    BY <2>1, <2>3
  <2>4. QED
    BY <2>2, <2>3
<1> HIDE DEF hydrated
<1>3. /\ row' \in [RunJobs -> [status: RunStatuses, retryable: BOOLEAN]]
      /\ runJob' \in [RunJobs -> RunJobType]
      /\ \A j \in RunJobs : /\ row'[j].status = hydrated(j).status /\ runJob'[j].status = hydrated(j).status
                            /\ runJob'[j].stage = "none"
  BY <1>1, <1>2 DEF RunJobType, NoRunJob, GeneralStages
<1>4. /\ Due({}) \in [Callers -> MemberCalls]
      /\ \A c \in Callers : Due({})[c] = NotCalled /\ Due({})[c].reserved = 0
  BY DueIs
<1>5. RunsTypeOK'
  BY <1>0, <1>1, <1>3, <1>4, RunsAssumption DEF RunsInv, RunsTypeOK, MemberCalls, RunJobType
<1>6. ASSUME NEW j \in RunJobs
      PROVE  RunFits(j)'
  <2>1. memberCall'[j] = Due({})
    BY <1>1
  <2>2. CallsFit(j)'
    BY <2>1, <1>3, <1>4, RunsAssumption DEF CallsFit, Calling, Callers
  <2>3. CountFits(j)'
    <3>1. Outstanding(j)' = TokensOf(Due({}))
      BY <2>1 DEF Outstanding, TokensOf
    <3>2. QED
      <4>1. Cardinality(TokensOf(Due({}))) = 0
        BY <1>4, NothingOutstanding
      <4>2. used'[j] = 0 /\ promised'[j] = 0 /\ over'[j] = 0
        BY <1>1
      <4>3. QED
        BY <3>1, <4>1, <4>2, RunsAssumption DEF CountFits
  <2>4. RecordsFit(j)'
    <3>1. RecordsFit(j)
      BY RunsKnown
    <3>2. QED
      BY <1>1, <1>2, <1>3, <3>1 DEF RecordsFit, Calling
  <2>5. QED
    BY <2>2, <2>3, <2>4 DEF RunFits
<1>7. QED
  BY <1>5, <1>6 DEF RunsInv

LEMMA RunsInvInductive ==
    ASSUME RunsInv, [RunsNext]_runsVars
    PROVE  RunsInv'
<1>1. CASE RunsNext
  BY <1>1, EnqueueRunKeeps, SaveJobKeeps, CancelKeeps, BeginRunKeeps, EndKeeps, SettleKeeps, EndJobKeeps,
     ReserveKeeps, CallFailsKeeps, AnswerKeeps, RunsRestartKeeps DEF RunsNext, RetryRun
<1>2. CASE UNCHANGED runsVars
  <2>1. RunsTypeOK'
    BY <1>2 DEF runsVars, RunsInv, RunsTypeOK
  <2>2. ASSUME NEW j \in RunJobs
        PROVE  RunFits(j)'
    <3>1. RunFits(j)
      BY DEF RunsInv
    <3>2. CallsFit(j)' /\ RecordsFit(j)'
      BY <3>1, <1>2 DEF runsVars, RunFits, CallsFit, RecordsFit
    <3>3. CountFits(j)'
      BY <3>1, <1>2 DEF runsVars, RunFits, CountFits, Outstanding
    <3>4. QED
      BY <3>2, <3>3 DEF RunFits
  <2>3. QED
    BY <2>1, <2>2 DEF RunsInv
<1>3. QED
  BY <1>1, <1>2

LEMMA RunsInvHolds == RunsSpec => []RunsInv
  BY RunsInvInit, RunsInvInductive, PTL DEF RunsSpec

LEMMA RunsInvEnough == RunsInv => RunsTypeOK /\ WithinBudget /\ RecordsAgree
  BY DEF RunsInv, RunFits, CountFits, RecordsFit, WithinBudget, RecordsAgree

\* The jobs, their records, the calls and the counts of tokens keep their types.
THEOREM RunsTypeCorrect == RunsSpec => []RunsTypeOK
<1>1. RunsInv => RunsTypeOK
  BY RunsInvEnough
<1>2. QED
  BY <1>1, RunsInvHolds, PTL

\* What is reserved is what the calls that are out asked for, and what is used and
\* reserved stays within the budget: only an answer that was longer than the
\* reservation goes over it, by as much.
THEOREM BudgetsHold == RunsSpec => []WithinBudget
<1>1. RunsInv => WithinBudget
  BY RunsInvEnough
<1>2. QED
  BY <1>1, RunsInvHolds, PTL

\* The row, the request and the trace of a job never contradict its status,
\* wherever the process stops between the writes.
THEOREM RecordsTellOneStory == RunsSpec => []RecordsAgree
<1>1. RunsInv => RecordsAgree
  BY RunsInvEnough
<1>2. QED
  BY <1>1, RunsInvHolds, PTL

-----------------------------------------------------------------------------
(****************************************************************************)
(* GROWTH. Why every version of a member was earned: a proposal is asked    *)
(* for, and approved, against the version it is based on, and the credit    *)
(* that was remembered under a version is never taken away.                 *)
(****************************************************************************)

\* The sources that were credited while a version was in force.
CreditOf(v) == {s \in Sources : credited[s] = v}

EarnedUnder(v) == v >= 1 /\ Cardinality(CreditOf(v)) >= Threshold

Approvals == {n \in Evolutions : evolution[n].status = "approved"}

\* A proposal under way was earned under its base, and there is one approved
\* proposal for every version but the first.
GrowthInv ==
    /\ GrowthTypeOK
    /\ version = 1 + Cardinality(Approvals)
    /\ chat = "guiding" => guidance <= MaxGuidance
    /\ \A r \in Proposers : asking[r].pc = "mentor" => EarnedUnder(asking[r].base)
    /\ \A n \in Evolutions : evolution[n].status = "pending" => EarnedUnder(evolution[n].base)
    /\ \A v \in 1..version - 1 : EarnedUnder(v)

\* What one step leaves: no credit of an older version is lost.
LEMMA CreditStays ==
    ASSUME GrowthInv, credited' \in [Sources -> 0..version'], NEW v \in Nat, EarnedUnder(v),
           \A s \in Sources : credited[s] = v => credited'[s] = v
    PROVE  EarnedUnder(v)'
<1>1. CreditOf(v) \subseteq CreditOf(v)' /\ IsFiniteSet(CreditOf(v)')
  BY GrowthAssumption, FS_Subset DEF CreditOf
<1>2. /\ Cardinality(CreditOf(v)) <= Cardinality(CreditOf(v)')
      /\ Cardinality(CreditOf(v)) \in Nat /\ Cardinality(CreditOf(v)') \in Nat
  BY <1>1, FS_Subset, FS_CardinalityType
<1>3. QED
  BY <1>2, GrowthAssumption DEF EarnedUnder

LEMMA ApprovalsFinite ==
    /\ IsFiniteSet(Evolutions) /\ Cardinality(Evolutions) = MaxProposals
    /\ IsFiniteSet(Approvals) /\ Cardinality(Approvals) \in 0..MaxProposals
<1>1. IsFiniteSet(Evolutions) /\ Cardinality(Evolutions) = MaxProposals
  BY GrowthAssumption, FS_Interval DEF Evolutions
<1>2. Approvals \subseteq Evolutions
  BY DEF Approvals
<1>3. QED
  BY <1>1, <1>2, FS_Subset, FS_CardinalityType

LEMMA GrowthInvInit == GrowthInit => GrowthInv
<1> SUFFICES ASSUME GrowthInit
             PROVE  GrowthInv
  OBVIOUS
<1>1. /\ evolution \in [Evolutions -> [status: {"absent"}, base: {0}, reviewed: {0}]]
      /\ asking \in [Proposers -> [pc: {"idle"}, base: {0}]]
  BY DEF GrowthInit, NoEvolution, NotAsking
<1>2. Approvals = {}
  BY <1>1 DEF Approvals
<1>3. GrowthTypeOK
  BY <1>1, GrowthAssumption DEF GrowthInit, GrowthTypeOK
<1>4. QED
  BY <1>1, <1>2, <1>3, FS_EmptySet DEF GrowthInv, GrowthInit

\* A step that reviews nothing: it may remember, ask, propose or talk.
LEMMA NothingReviewed ==
    ASSUME GrowthInv, GrowthTypeOK', version' = version,
           \A s \in Sources : credited[s] # 0 => credited'[s] = credited[s],
           \A n \in Evolutions : evolution'[n].status = "approved" <=> evolution[n].status = "approved",
           chat' = "guiding" => guidance' <= MaxGuidance,
           \A r \in Proposers : asking'[r].pc = "mentor" =>
               EarnedUnder(asking'[r].base) /\ asking'[r].base \in Nat,
           \A n \in Evolutions : evolution'[n].status = "pending" =>
               EarnedUnder(evolution'[n].base) /\ evolution'[n].base \in Nat
    PROVE  GrowthInv'
<1>1. credited' \in [Sources -> 0..version'] /\ version \in Nat
  BY DEF GrowthTypeOK, GrowthInv
<1>2. ASSUME NEW v \in Nat, EarnedUnder(v)
      PROVE  EarnedUnder(v)'
  <2>1. \A s \in Sources : credited[s] = v => credited'[s] = v
    BY <1>2 DEF EarnedUnder
  <2>2. QED
    BY <1>1, <1>2, <2>1, CreditStays
<1>3. Approvals' = Approvals
  BY DEF Approvals
<1>4. (\A r \in Proposers : asking[r].pc = "mentor" => EarnedUnder(asking[r].base))'
  <2> SUFFICES ASSUME NEW r \in Proposers, asking'[r].pc = "mentor"
               PROVE  EarnedUnder(asking[r].base)'
    OBVIOUS
  <2>1. PICK v \in Nat : v = asking'[r].base /\ EarnedUnder(v)
    OBVIOUS
  <2>2. EarnedUnder(v)'
    BY <1>2, <2>1
  <2>3. QED
    BY <2>1, <2>2 DEF EarnedUnder, CreditOf
<1>5. (\A n \in Evolutions : evolution[n].status = "pending" => EarnedUnder(evolution[n].base))'
  <2> SUFFICES ASSUME NEW n \in Evolutions, evolution'[n].status = "pending"
               PROVE  EarnedUnder(evolution[n].base)'
    BY DEF Evolutions
  <2>1. PICK v \in Nat : v = evolution'[n].base /\ EarnedUnder(v)
    OBVIOUS
  <2>2. EarnedUnder(v)'
    BY <1>2, <2>1
  <2>3. QED
    BY <2>1, <2>2 DEF EarnedUnder, CreditOf
<1>6. \A v \in 1..version - 1 : EarnedUnder(v)'
  BY <1>1, <1>2 DEF GrowthInv
<1>7. QED
  BY <1>3, <1>4, <1>5, <1>6 DEF GrowthInv

\* What the step lemmas know of the state.
LEMMA GrowthKnown ==
    ASSUME GrowthInv
    PROVE  /\ version \in Nat /\ credited \in [Sources -> 0..version]
           /\ evolution \in [Evolutions -> [status: {"absent", "pending", "approved", "rejected"},
                                            base: 0..version, reviewed: 0..day]]
           /\ asking \in [Proposers -> [pc: {"idle", "mentor"}, base: 0..version]]
           /\ day \in Nat /\ guidance \in Nat
  BY DEF GrowthInv, GrowthTypeOK

LEMMA PassDayKeeps ==
    ASSUME GrowthInv, PassDay
    PROVE  GrowthInv'
<1>1. /\ MaxDays \in Nat /\ day \in 0..MaxDays /\ day < MaxDays /\ day' = day + 1
      /\ UNCHANGED <<credited, failures, version, evolution, asking, chat, guidance, noting, milestones>>
  BY GrowthAssumption DEF GrowthInv, GrowthTypeOK, PassDay
<1>2. day' \in 0..MaxDays /\ 0..day \subseteq 0..day'
  BY <1>1
<1>3. evolution' \in [Evolutions -> [status: {"absent", "pending", "approved", "rejected"},
                                     base: 0..version, reviewed: 0..day']]
  BY <1>1, <1>2, GrowthKnown
<1>4. GrowthTypeOK'
  BY <1>1, <1>2, <1>3 DEF GrowthInv, GrowthTypeOK, ReviewedProposals
<1>5. QED
  BY <1>4, NothingReviewed, GrowthKnown DEF GrowthInv, PassDay

LEMMA RememberKeeps ==
    ASSUME GrowthInv, NEW s \in Sources, NEW success \in BOOLEAN, RememberEvent(s, success)
    PROVE  GrowthInv'
<1>1. /\ UNCHANGED <<day, version, evolution, asking, chat, guidance, noting, milestones, memberStops>>
      /\ \/ UNCHANGED <<credited, failures>>
         \/ credited[s] = 0 /\ credited' = [credited EXCEPT ![s] = version] /\ UNCHANGED failures
         \/ failures' = failures \cup {s} /\ UNCHANGED credited
  BY DEF RememberEvent, Remembered
<1>2. /\ credited' \in [Sources -> 0..version] /\ failures' \subseteq Sources
      /\ \A x \in Sources : credited[x] # 0 => credited'[x] = credited[x]
  BY <1>1 DEF GrowthInv, GrowthTypeOK
<1>3. GrowthTypeOK'
  BY <1>1, <1>2 DEF GrowthInv, GrowthTypeOK, ReviewedProposals
<1>4. QED
  BY <1>1, <1>2, <1>3, NothingReviewed, GrowthKnown DEF GrowthInv

LEMMA AskKeeps ==
    ASSUME GrowthInv, NEW r \in Proposers, Ask(r) \/ MentorDeclines(r)
    PROVE  GrowthInv'
<1>1. /\ UNCHANGED <<day, credited, failures, version, evolution, chat, guidance, noting, milestones, memberStops>>
      /\ \/ asking' = [asking EXCEPT ![r] = [pc |-> "mentor", base |-> version]] /\ Eligible
         \/ asking' = [asking EXCEPT ![r] = [pc |-> "idle", base |-> 0]]
  BY DEF Ask, MentorDeclines, NotAsking
<1>2. Eligible => EarnedUnder(version)
  BY DEF Eligible, EarnedUnder, NewCredit, CreditOf, GrowthInv, GrowthTypeOK
<1>3. asking' \in [Proposers -> [pc: {"idle", "mentor"}, base: 0..version]]
  BY <1>1, GrowthKnown
<1>4. \A x \in Proposers : asking'[x].pc = "mentor" => EarnedUnder(asking'[x].base)
  BY <1>1, <1>2, GrowthKnown DEF GrowthInv
<1>5. GrowthTypeOK'
  BY <1>1, <1>3 DEF GrowthInv, GrowthTypeOK, ReviewedProposals
<1>6. QED
  BY <1>1, <1>3, <1>4, <1>5, NothingReviewed, GrowthKnown DEF GrowthInv

LEMMA ProposeKeeps ==
    ASSUME GrowthInv, NEW r \in Proposers, NEW n \in Evolutions, Propose(r, n)
    PROVE  GrowthInv'
<1> DEFINE new == [status |-> "pending", base |-> asking[r].base, reviewed |-> 0]
<1>1. /\ UNCHANGED <<day, credited, failures, version, chat, guidance, noting, milestones, memberStops>>
      /\ asking' = [asking EXCEPT ![r] = [pc |-> "idle", base |-> 0]]
      /\ evolution' = evolution \/ evolution' = [evolution EXCEPT ![n] = new]
      /\ asking[r].pc = "mentor"
  BY DEF Propose, NotAsking
<1>2. evolution[n].status = "absent"
  <2>1. n \in Nat
    BY GrowthAssumption DEF Evolutions
  <2>2. evolution[n] = NoEvolution
    BY <2>1 DEF Propose
  <2>3. QED
    BY <2>2 DEF NoEvolution
<1>3. /\ asking' \in [Proposers -> [pc: {"idle", "mentor"}, base: 0..version]]
      /\ evolution' \in [Evolutions -> [status: {"absent", "pending", "approved", "rejected"},
                                        base: 0..version, reviewed: 0..day]]
  BY <1>1, GrowthKnown
<1>4. \A x \in Proposers : asking'[x].pc = "mentor" => EarnedUnder(asking'[x].base)
  BY <1>1, GrowthKnown DEF GrowthInv
<1>5. \A m \in Evolutions :
          /\ evolution'[m].status = "pending" => EarnedUnder(evolution'[m].base)
          /\ evolution'[m].status \in {"approved", "rejected"} <=> evolution[m].status \in {"approved", "rejected"}
          /\ evolution'[m].status = "approved" <=> evolution[m].status = "approved"
  BY <1>1, <1>2, GrowthKnown DEF GrowthInv
<1>6. ReviewedProposals' = ReviewedProposals
  BY <1>5 DEF ReviewedProposals
<1>7. GrowthTypeOK'
  BY <1>1, <1>3, <1>6 DEF GrowthInv, GrowthTypeOK
<1>8. QED
  BY <1>1, <1>3, <1>4, <1>5, <1>7, NothingReviewed, GrowthKnown DEF GrowthInv

LEMMA ChatKeeps ==
    ASSUME GrowthInv, Chat
    PROVE  GrowthInv'
<1>1. /\ UNCHANGED <<day, credited, failures, version, evolution, asking, noting, milestones, memberStops>>
      /\ chat' \in {"idle", "guiding", "replying"} /\ guidance' \in 0..MaxGuidance + 1
      /\ chat' = "guiding" => guidance' <= MaxGuidance
  BY GrowthAssumption DEF Chat, Talk, GrowthInv, GrowthTypeOK
<1>2. GrowthTypeOK'
  BY <1>1 DEF GrowthInv, GrowthTypeOK, ReviewedProposals
<1>3. QED
  BY <1>1, <1>2, NothingReviewed, GrowthKnown DEF GrowthInv

LEMMA MemberStopKeeps ==
    ASSUME GrowthInv, MemberStop
    PROVE  GrowthInv'
<1>1. /\ UNCHANGED <<day, credited, failures, version, evolution, guidance, milestones>>
      /\ chat' = "idle" /\ noting' = {}
      /\ asking' = [r \in Proposers |-> [pc |-> "idle", base |-> 0]]
  BY DEF MemberStop, NotAsking
<1>2. asking' \in [Proposers -> [pc: {"idle", "mentor"}, base: 0..version]]
  BY <1>1, GrowthKnown
<1>3. GrowthTypeOK'
  BY <1>1, <1>2 DEF GrowthInv, GrowthTypeOK, ReviewedProposals
<1>4. QED
  BY <1>1, <1>3, NothingReviewed, GrowthKnown DEF GrowthInv

\* Reviewed is reviewed: what else a review does to a proposal.
LEMMA ReviewFits ==
    ASSUME GrowthInv, NEW n \in Evolutions, NEW status \in {"approved", "rejected"},
           evolution[n].status = "pending", ReviewProposal(n, status)
    PROVE  /\ evolution' \in [Evolutions -> [status: {"absent", "pending", "approved", "rejected"},
                                             base: 0..version, reviewed: 0..day]]
           /\ \A m \in Evolutions \ {n} : evolution'[m] = evolution[m]
           /\ evolution'[n].status = status
           /\ ReviewedProposals' = ReviewedProposals \cup {n}
<1>1. /\ evolution' \in [Evolutions -> [status: {"absent", "pending", "approved", "rejected"},
                                        base: 0..version, reviewed: 0..day]]
      /\ \A m \in Evolutions \ {n} : evolution'[m] = evolution[m]
      /\ evolution'[n].status = status
  <2>1. PICK new : new = [status |-> status, base |-> evolution[n].base, reviewed |-> day]
    OBVIOUS
  <2>2. evolution' = [evolution EXCEPT ![n] = new]
    BY <2>1, GrowthKnown DEF ReviewProposal
  <2>3. new \in [status: {"absent", "pending", "approved", "rejected"}, base: 0..version, reviewed: 0..day]
    BY <2>1, GrowthKnown
  <2>4. QED
    BY <2>1, <2>2, <2>3, GrowthKnown
<1>2. QED
  BY <1>1 DEF ReviewedProposals

LEMMA RejectKeeps ==
    ASSUME GrowthInv, NEW n \in Evolutions, Reject(n) \/ RememberRejection(n)
    PROVE  GrowthInv'
<1>1. /\ UNCHANGED <<day, credited, failures, version, asking, chat, guidance, memberStops>>
      /\ n \in ReviewedProposals'
      /\ ReviewedProposals \subseteq ReviewedProposals'
      /\ milestones' \subseteq milestones \cup {n} /\ noting' \subseteq noting \cup {n}
      /\ evolution' \in [Evolutions -> [status: {"absent", "pending", "approved", "rejected"},
                                        base: 0..version, reviewed: 0..day]]
  <2>1. CASE Reject(n)
    BY <2>1, ReviewFits DEF Reject
  <2>2. CASE RememberRejection(n)
    BY <2>2, GrowthKnown DEF RememberRejection, GrowthInv, GrowthTypeOK, ReviewedProposals
  <2>3. QED
    BY <2>1, <2>2
<1>2. \A m \in Evolutions :
          /\ evolution'[m].status = "pending" => evolution'[m] = evolution[m]
          /\ evolution'[m].status = "approved" <=> evolution[m].status = "approved"
  <2>1. CASE Reject(n)
    BY <2>1, ReviewFits DEF Reject
  <2>2. CASE RememberRejection(n)
    BY <2>2 DEF RememberRejection
  <2>3. QED
    BY <2>1, <2>2
<1>3. GrowthTypeOK'
  BY <1>1 DEF GrowthInv, GrowthTypeOK
<1>4. QED
  BY <1>1, <1>2, <1>3, NothingReviewed, GrowthKnown DEF GrowthInv

LEMMA ApproveKeeps ==
    ASSUME GrowthInv, NEW n \in Evolutions, Approve(n)
    PROVE  GrowthInv'
<1>1. /\ evolution[n].status = "pending" /\ evolution[n].base = version
      /\ version' = version + 1
      /\ milestones' = milestones \cup {n}
      /\ UNCHANGED <<day, credited, failures, asking, chat, guidance, noting, memberStops>>
  BY DEF Approve, Based
<1>2. /\ evolution' \in [Evolutions -> [status: {"absent", "pending", "approved", "rejected"},
                                        base: 0..version, reviewed: 0..day]]
      /\ \A m \in Evolutions \ {n} : evolution'[m] = evolution[m]
      /\ evolution'[n].status = "approved"
      /\ ReviewedProposals' = ReviewedProposals \cup {n}
  BY ReviewFits DEF Approve
<1>3. Approvals' = Approvals \cup {n} /\ n \notin Approvals
  BY <1>1, <1>2 DEF Approvals
<1>4. version' = 1 + Cardinality(Approvals') /\ version' \in 1..MaxProposals + 1
  <2>1. Cardinality(Approvals') = Cardinality(Approvals) + 1
    BY <1>3, ApprovalsFinite, FS_AddElement
  <2>2. Approvals' \subseteq Evolutions
    BY DEF Approvals
  <2>3. Cardinality(Approvals') <= MaxProposals
    BY <2>2, ApprovalsFinite, FS_Subset
  <2>4. QED
    BY <1>1, <2>1, <2>3, ApprovalsFinite, GrowthAssumption DEF GrowthInv
<1>5. \A v \in 1..version : EarnedUnder(v)
  BY <1>1, GrowthKnown DEF GrowthInv
<1>6. \A v \in Nat : EarnedUnder(v) => EarnedUnder(v)'
  BY <1>1 DEF EarnedUnder, CreditOf
<1>7. GrowthTypeOK'
  BY <1>1, <1>2, <1>4, GrowthKnown DEF GrowthInv, GrowthTypeOK
<1>8. (\A r \in Proposers : asking[r].pc = "mentor" => EarnedUnder(asking[r].base))'
  BY <1>1 DEF GrowthInv, EarnedUnder, CreditOf
<1>9. (\A m \in Evolutions : evolution[m].status = "pending" => EarnedUnder(evolution[m].base))'
  BY <1>1, <1>2 DEF GrowthInv, EarnedUnder, CreditOf
<1>10. (\A v \in 1..version - 1 : EarnedUnder(v))'
  BY <1>1, <1>5, <1>6, GrowthKnown
<1>11. QED
  BY <1>1, <1>4, <1>7, <1>8, <1>9, <1>10 DEF GrowthInv

LEMMA GrowthInvInductive ==
    ASSUME GrowthInv, [GrowthNext]_growthVars
    PROVE  GrowthInv'
<1>1. CASE GrowthNext
  BY <1>1, PassDayKeeps, RememberKeeps, AskKeeps, ProposeKeeps, ChatKeeps, MemberStopKeeps,
     RejectKeeps, ApproveKeeps DEF GrowthNext
<1>2. CASE UNCHANGED growthVars
  BY <1>2 DEF growthVars, GrowthInv, GrowthTypeOK, ReviewedProposals, Approvals, EarnedUnder, CreditOf
<1>3. QED
  BY <1>1, <1>2

LEMMA GrowthInvHolds == GrowthSpec => []GrowthInv
  BY GrowthInvInit, GrowthInvInductive, PTL DEF GrowthSpec

LEMMA GrowthInvEnough == GrowthInv => GrowthTypeOK /\ VersionsEarned
  BY GrowthKnown, GrowthAssumption DEF GrowthInv, VersionsEarned, EarnedUnder, CreditOf

\* The credits, the proposals and the guidance of a member keep their types.
THEOREM GrowthTypeCorrect == GrowthSpec => []GrowthTypeOK
<1>1. GrowthInv => GrowthTypeOK
  BY GrowthInvEnough
<1>2. QED
  BY <1>1, GrowthInvHolds, PTL

\* Each version of a member after the first rests on enough credit that was
\* remembered under the version before, whatever reviews and restarts cross.
THEOREM VersionsWereEarned == GrowthSpec => []VersionsEarned
<1>1. GrowthInv => VersionsEarned
  BY GrowthInvEnough
<1>2. QED
  BY <1>1, GrowthInvHolds, PTL

-----------------------------------------------------------------------------
(****************************************************************************)
(* CONTENT. Why a work's adoption is credited once and a settled            *)
(* notification is left alone: the phases of a work, its runner and its     *)
(* notification keep clear of each other, whatever restarts and late saves  *)
(* do to the record.                                                        *)
(****************************************************************************)

\* The phases of the runner before its envelope is closed.
Early == {"creating", "announcing", "writing", "drawing", "closing"}

\* A record that may be written back misses only uses that overlap a redraw.
Counted(w) == w.copies <= uses /\ w.copies >= uses - overlapping

\* Of the uses, the record and the copies that redraws hold of it.
CountInv ==
    /\ UsesCounted /\ overlapping <= uses
    /\ uses \in 0..MaxCopies /\ overlapping \in 0..MaxCopies
    /\ work.status = "absent" => uses = 0
    /\ \A r \in Redraws : redraw[r].pc = "drawing" => Counted(redraw[r].copy)

ContentInv ==
    /\ ContentTypeOK
    /\ CountInv
    /\ dispatching # "none" => note.status = "pending"
    /\ runner # "none" => note.status = "absent" /\ dispatching = "none"
    /\ runner \in Early => envelope # "completed"
    /\ work.status = "absent" => /\ note.status = "absent"
                                 /\ envelope = "absent" /\ runner = "none"
    /\ note.status = "absent" => note.attempts = 0
    /\ \A r \in Redraws : redraw[r].pc = "drawing" => redraw[r].copy.status = "ready"

\* A step that is neither a use nor a redraw keeps the count.
LEMMA CountKept ==
    ASSUME ContentInv, UNCHANGED counts,
           UNCHANGED work \/ (work'.copies = work.copies /\ work'.status # "absent"),
           \A r \in Redraws : redraw'[r].pc = "drawing" => redraw'[r] = redraw[r]
    PROVE  CountInv' /\ uses' \in 0..MaxCopies /\ overlapping' \in 0..MaxCopies
  BY DEF ContentInv, CountInv, UsesCounted, Counted, counts

LEMMA RecordTypes ==
    /\ NoWork \in Works /\ OldWork \in Works
    /\ NoWork.status = "absent" /\ OldWork.status = "ready"
    /\ NoWork.copies = 0 /\ OldWork.copies = 0
    /\ [NoWork EXCEPT !.status = "queued", !.picture = "pending"] \in Works
    /\ [NoWork EXCEPT !.status = "queued", !.picture = "pending"].status = "queued"
    /\ [NoWork EXCEPT !.status = "queued", !.picture = "pending"].copies = 0
    /\ NoRedraw \in [pc : {"idle", "drawing"}, copy : Works] /\ NoRedraw.pc = "idle"
<1>1. 0 \in 0..MaxCopies
  BY ContentAssumption
<1>2. /\ NoWork \in Works /\ OldWork \in Works
      /\ NoWork.status = "absent" /\ OldWork.status = "ready"
      /\ NoWork.copies = 0 /\ OldWork.copies = 0
  BY <1>1 DEF Works, WorkStatuses, Active, Pictures, NoWork, OldWork
<1>3. ASSUME NEW w \in Works
      PROVE  /\ [w EXCEPT !.status = "queued", !.picture = "pending"] \in Works
             /\ [w EXCEPT !.status = "queued", !.picture = "pending"].status = "queued"
             /\ [w EXCEPT !.status = "queued", !.picture = "pending"].copies = w.copies
  BY DEF Works, WorkStatuses, Active, Pictures
<1>4. NoRedraw \in [pc : {"idle", "drawing"}, copy : Works] /\ NoRedraw.pc = "idle"
  BY <1>2 DEF NoRedraw
<1>5. QED
  BY <1>2, <1>3, <1>4

LEMMA ContentInvInit == ContentInit => ContentInv
<1> SUFFICES ASSUME ContentInit
             PROVE  ContentInv
  OBVIOUS
<1>1. work \in Works /\ (work.status = "absent" => envelope = "absent") /\ work.copies = 0
  BY RecordTypes DEF ContentInit
<1>2. /\ redraw \in [Redraws -> [pc : {"idle", "drawing"}, copy : Works]]
      /\ \A r \in Redraws : redraw[r].pc = "idle"
  BY RecordTypes DEF ContentInit
<1>3. credit \in [Members -> {0, 1}]
  BY DEF ContentInit
<1>4. CountInv
  BY <1>1, <1>2, ContentAssumption DEF ContentInit, CountInv, UsesCounted
<1>5. QED
  BY <1>1, <1>2, <1>3, <1>4, ContentAssumption
  DEF ContentInit, ContentInv, ContentTypeOK, CountInv, Early

\* The steps of the runner.
LEMMA RunnerKeeps ==
    ASSUME ContentInv,
           \/ \E t \in {"web", "scheduled"} : CreateQueued(t)
           \/ OpenEnvelope \/ Collaborate \/ Illustrate \/ CloseEnvelope \/ NotifyScheduled
    PROVE  ContentInv'
<1>1. ASSUME NEW t \in {"web", "scheduled"}, CreateQueued(t)
      PROVE  ContentInv'
  <2>1. work' \in Works /\ work'.status = "queued" /\ work'.copies = 0
    BY <1>1, RecordTypes DEF CreateQueued
  <2>2. uses = 0 /\ overlapping = 0 /\ UNCHANGED <<uses, overlapping, redraw>>
    BY <1>1, ContentAssumption DEF CreateQueued, counts, ContentInv, CountInv
  <2>3. CountInv'
    BY <2>1, <2>2, ContentAssumption DEF UsesCounted, Counted, ContentInv, CountInv
  <2>4. QED
    BY <1>1, <2>1, <2>2, <2>3 DEF CreateQueued, ContentInv, ContentTypeOK, Early
<1>2. CASE OpenEnvelope
  <2>1. CountInv' /\ uses' \in 0..MaxCopies /\ overlapping' \in 0..MaxCopies
    BY <1>2, CountKept DEF OpenEnvelope
  <2>2. QED
    BY <1>2, <2>1 DEF OpenEnvelope, ContentInv, ContentTypeOK, Works, Early
<1>3. CASE Collaborate
  <2>1. work' \in Works /\ work'.status # "absent" /\ work'.copies = work.copies
    BY <1>3 DEF Collaborate, ContentInv, ContentTypeOK, Works, WorkStatuses, Active, Stages
  <2>2. runner' \in {"writing", "drawing", "closing"} /\ runner = "writing"
    BY <1>3 DEF Collaborate
  <2>3. CountInv' /\ uses' \in 0..MaxCopies /\ overlapping' \in 0..MaxCopies
    BY <1>3, <2>1, CountKept DEF Collaborate
  <2>4. QED
    BY <1>3, <2>1, <2>2, <2>3 DEF Collaborate, ContentInv, ContentTypeOK, Early
<1>4. CASE Illustrate
  <2>1. work' \in Works /\ work'.status = "ready" /\ work'.copies = work.copies
    BY <1>4 DEF Illustrate, ContentInv, ContentTypeOK, Works, WorkStatuses, Pictures
  <2>2. CountInv' /\ uses' \in 0..MaxCopies /\ overlapping' \in 0..MaxCopies
    BY <1>4, <2>1, CountKept DEF Illustrate
  <2>3. QED
    BY <1>4, <2>1, <2>2 DEF Illustrate, ContentInv, ContentTypeOK, Early
<1>5. CASE CloseEnvelope
  <2>1. CountInv' /\ uses' \in 0..MaxCopies /\ overlapping' \in 0..MaxCopies
    BY <1>5, CountKept DEF CloseEnvelope
  <2>2. QED
    BY <1>5, <2>1 DEF CloseEnvelope, ContentInv, ContentTypeOK, Works, Early
<1>6. CASE NotifyScheduled
  <2>1. CountInv' /\ uses' \in 0..MaxCopies /\ overlapping' \in 0..MaxCopies
    BY <1>6, CountKept DEF NotifyScheduled
  <2>2. QED
    BY <1>6, <2>1, ContentAssumption
    DEF NotifyScheduled, Begin, ContentInv, ContentTypeOK, Works, Early
<1>7. QED
  BY <1>1, <1>2, <1>3, <1>4, <1>5, <1>6

\* The steps of the user, whose saves race those of the illustration.
LEMMA UserKeeps ==
    ASSUME ContentInv,
           \/ MarkCopied
           \/ \E m \in Members : Remember(m)
           \/ \E r \in Redraws :
                \/ RetryIllustration(r)
                \/ \E p \in {"working", "ready", "failed"} : Redraw(r, p)
    PROVE  ContentInv'
<1>1. CASE MarkCopied
  <2> DEFINE drawing == \E r \in Redraws : redraw[r].pc = "drawing"
  <2>1. /\ work \in Works /\ uses \in 0..MaxCopies /\ uses + 1 \in 0..MaxCopies
        /\ overlapping \in 0..MaxCopies /\ Counted(work) /\ overlapping <= uses
    BY <1>1, ContentAssumption
    DEF MarkCopied, ContentInv, ContentTypeOK, CountInv, UsesCounted, Counted
  <2>2. /\ work' \in Works /\ work'.status = "ready" /\ work'.copies = work.copies + 1
        /\ uses' = uses + 1 /\ uses' \in 0..MaxCopies
        /\ overlapping' = IF drawing THEN overlapping + 1 ELSE overlapping
    <3>1. work.copies \in Nat /\ work.copies + 1 \in 0..MaxCopies
      BY <2>1, ContentAssumption DEF Works, Counted
    <3>2. QED
      BY <1>1, <2>1, <3>1 DEF MarkCopied, Works
  <2>3. overlapping' \in 0..MaxCopies /\ overlapping' <= uses'
    BY <2>1, <2>2, ContentAssumption
  <2>4. UsesCounted'
    BY <2>1, <2>2, ContentAssumption DEF UsesCounted, Counted, Works
  <2>5. ASSUME NEW r \in Redraws, redraw'[r].pc = "drawing"
        PROVE  Counted(redraw[r].copy)'
    <3>1. redraw' = redraw
      BY <1>1 DEF MarkCopied
    <3>2. /\ redraw[r].copy \in Works
          /\ Counted(redraw[r].copy) /\ overlapping' = overlapping + 1
      BY <2>2, <2>5, <3>1 DEF ContentInv, ContentTypeOK, CountInv
    <3>3. QED
      BY <2>1, <2>2, <3>1, <3>2, ContentAssumption DEF Counted, Works
  <2>6. CountInv'
    BY <2>2, <2>3, <2>4, <2>5 DEF CountInv
  <2>7. QED
    BY <1>1, <2>2, <2>3, <2>6 DEF MarkCopied, ContentInv, ContentTypeOK
<1>2. ASSUME NEW m \in Members, Remember(m)
      PROVE  ContentInv'
  <2>1. credit' \in [Members -> {0, 1}]
    BY <1>2, ContentAssumption DEF Remember, ContentInv, ContentTypeOK
  <2>2. adopting' \subseteq Members
    BY <1>2 DEF Remember, ContentInv, ContentTypeOK
  <2>3. CountInv' /\ uses' \in 0..MaxCopies /\ overlapping' \in 0..MaxCopies
    BY <1>2, CountKept DEF Remember
  <2>4. QED
    BY <1>2, <2>1, <2>2, <2>3 DEF Remember, ContentInv, ContentTypeOK
<1>3. ASSUME NEW r \in Redraws, RetryIllustration(r)
      PROVE  ContentInv'
  <2>1. work' \in Works /\ work'.status = "ready" /\ work'.copies = work.copies
    BY <1>3 DEF RetryIllustration, ContentInv, ContentTypeOK, Works, Pictures
  <2>2. redraw' = [redraw EXCEPT ![r] = [pc |-> "drawing", copy |-> work']]
    BY <1>3 DEF RetryIllustration
  <2>3. UNCHANGED <<uses, overlapping>>
    BY <1>3 DEF RetryIllustration, counts
  <2>4. UsesCounted' /\ Counted(work)'
    BY <2>1, <2>3 DEF ContentInv, CountInv, UsesCounted, Counted
  <2>5. \A s \in Redraws : redraw'[s].pc = "drawing" => Counted(redraw[s].copy)'
    BY <2>2, <2>3, <2>4 DEF ContentInv, ContentTypeOK, CountInv, Counted
  <2>6. CountInv'
    BY <2>1, <2>3, <2>4, <2>5 DEF ContentInv, CountInv
  <2>7. QED
    BY <1>3, <2>1, <2>2, <2>3, <2>6 DEF RetryIllustration, ContentInv, ContentTypeOK
<1>4. ASSUME NEW r \in Redraws, NEW p \in {"working", "ready", "failed"}, Redraw(r, p)
      PROVE  ContentInv'
  <2>1. redraw[r].copy \in Works /\ redraw[r].copy.status = "ready" /\ Counted(redraw[r].copy)
    BY <1>4 DEF Redraw, ContentInv, ContentTypeOK, CountInv
  <2>2. /\ work' \in Works /\ work'.status = "ready" /\ work'.copies = redraw[r].copy.copies
        /\ [redraw[r].copy EXCEPT !.picture = p] \in Works
        /\ [redraw[r].copy EXCEPT !.picture = p].status = "ready"
        /\ [redraw[r].copy EXCEPT !.picture = p].copies = redraw[r].copy.copies
    BY <1>4, <2>1 DEF Redraw, Works, Pictures
  <2>3. redraw[r] \in [pc : {"idle", "drawing"}, copy : Works]
    BY DEF ContentInv, ContentTypeOK
  <2>4. /\ redraw'[r] \in [pc : {"idle", "drawing"}, copy : Works]
        /\ redraw'[r].pc = "drawing" => /\ redraw'[r].copy.status = "ready"
                                        /\ redraw'[r].copy.copies = redraw[r].copy.copies
    BY SMTT(20), <1>4, <2>1, <2>2, <2>3, RecordTypes DEF Redraw, ContentInv, ContentTypeOK, Pictures, Works
  <2>5. UNCHANGED <<uses, overlapping>>
    BY <1>4 DEF Redraw, counts
  <2>6. UsesCounted'
    BY <2>1, <2>2, <2>5 DEF UsesCounted, Counted
  <2>7. redraw' \in [Redraws -> [pc : {"idle", "drawing"}, copy : Works]]
    BY <1>4, <2>4 DEF Redraw, ContentInv, ContentTypeOK
  <2>8. ASSUME NEW s \in Redraws, redraw'[s].pc = "drawing"
        PROVE  redraw'[s].copy.status = "ready" /\ Counted(redraw[s].copy)'
    <3>1. CASE s = r
      BY <2>1, <2>4, <2>5, <2>8, <3>1 DEF Counted
    <3>2. CASE s # r
      BY <1>4, <2>5, <2>8, <3>2 DEF Redraw, ContentInv, ContentTypeOK, CountInv, Counted
    <3>3. QED
      BY <3>1, <3>2
  <2>9. CountInv'
    BY <2>2, <2>5, <2>6, <2>8 DEF ContentInv, CountInv
  <2>10. QED
    BY <1>4, <2>2, <2>5, <2>7, <2>8, <2>9 DEF Redraw, ContentInv, ContentTypeOK
<1>5. QED
  BY <1>1, <1>2, <1>3, <1>4

\* The steps of the notification, and a restart.
LEMMA NoteKeeps ==
    ASSUME ContentInv,
           \/ RetryNotification
           \/ \E s \in {"completed", "uncertain", "failed"} : FinishNotification(s)
           \/ RetryFallsDue \/ Restart
    PROVE  ContentInv'
<1>1. CASE RetryNotification
  <2>1. runner = "none" /\ dispatching # "runner" /\ note.attempts + 1 \in 0..MaxAttempts
    BY <1>1, ContentAssumption DEF RetryNotification, NoteDue, ContentInv, ContentTypeOK, Early
  <2>2. CountInv' /\ uses' \in 0..MaxCopies /\ overlapping' \in 0..MaxCopies
    BY <1>1, CountKept DEF RetryNotification
  <2>3. QED
    <3>1. CASE note' = [note EXCEPT !.status = "suppressed"] /\ UNCHANGED dispatching
      BY <1>1, <2>1, <2>2, <3>1 DEF RetryNotification, ContentInv, ContentTypeOK, Early
    <3>2. CASE Begin("tick")
      BY <1>1, <2>1, <2>2, <3>2 DEF RetryNotification, Begin, ContentInv, ContentTypeOK, Early
    <3>3. QED
      BY <1>1, <3>1, <3>2 DEF RetryNotification
<1>2. ASSUME NEW s \in {"completed", "uncertain", "failed"}, FinishNotification(s)
      PROVE  ContentInv'
  <2>1. CountInv' /\ uses' \in 0..MaxCopies /\ overlapping' \in 0..MaxCopies
    BY <1>2, CountKept DEF FinishNotification
  <2>2. QED
    BY <1>2, <2>1 DEF FinishNotification, ContentInv, ContentTypeOK
<1>3. CASE RetryFallsDue
  <2>1. CountInv' /\ uses' \in 0..MaxCopies /\ overlapping' \in 0..MaxCopies
    BY <1>3, CountKept DEF RetryFallsDue
  <2>2. QED
    BY <1>3, <2>1 DEF RetryFallsDue, ContentInv, ContentTypeOK
<1>4. CASE Restart
  <2>1. /\ work' \in Works /\ (work'.status = "absent" <=> work.status = "absent")
        /\ UNCHANGED work \/ (work'.copies = work.copies /\ work'.status # "absent")
    BY <1>4 DEF Restart, ContentInv, ContentTypeOK, Works, WorkStatuses, Active
  <2>2. redraw' \in [Redraws -> [pc : {"idle", "drawing"}, copy : Works]]
        /\ \A r \in Redraws : redraw'[r].pc = "idle"
    BY <1>4, RecordTypes DEF Restart
  <2>3. restarts' \in 0..MaxRestarts
    BY <1>4, ContentAssumption DEF Restart, ContentInv, ContentTypeOK
  <2>4. envelope' = envelope \/ (envelope' = "failed" /\ work.status \in Active)
    BY <1>4 DEF Restart
  <2>5. CountInv' /\ uses' \in 0..MaxCopies /\ overlapping' \in 0..MaxCopies
    BY <1>4, <2>1, <2>2, CountKept DEF Restart
  <2>6. QED
    BY <1>4, <2>1, <2>2, <2>3, <2>4, <2>5 DEF Restart, ContentInv, ContentTypeOK, Early, Active
<1>5. QED
  BY <1>1, <1>2, <1>3, <1>4

LEMMA ContentInvInductive ==
    ASSUME ContentInv, [ContentNext]_contentVars
    PROVE  ContentInv'
<1>1. CASE UNCHANGED contentVars
  <2>1. CountInv' /\ uses' \in 0..MaxCopies /\ overlapping' \in 0..MaxCopies
    BY <1>1, CountKept DEF contentVars, counts
  <2>2. QED
    BY <1>1, <2>1 DEF contentVars, ContentInv, ContentTypeOK
<1>2. CASE ContentNext
  BY <1>2, RunnerKeeps, UserKeeps, NoteKeeps DEF ContentNext
<1>3. QED
  BY <1>1, <1>2

LEMMA ContentInvHolds == ContentSpec => []ContentInv
  BY ContentInvInit, ContentInvInductive, PTL DEF ContentSpec

\* The record, the runner and the notification of a work keep their types.
THEOREM ContentTypeCorrect == ContentSpec => []ContentTypeOK
<1>1. ContentInv => ContentTypeOK
  BY DEF ContentInv
<1>2. QED
  BY <1>1, ContentInvHolds, PTL

\* However many redraws write their copies of the record back, only uses of the
\* copy button that were made while one of them drew are lost.
THEOREM OnlyOverlappedUsesAreLost == ContentSpec => []UsesCounted
<1>1. ContentInv => UsesCounted
  BY DEF ContentInv, CountInv
<1>2. QED
  BY <1>1, ContentInvHolds, PTL

\* Neither the runner, a tick nor the end of a dispatch touches a notification
\* that is delivered, in doubt or put away.
THEOREM SettledNotesStand == ContentSpec => NoteStands
<1> DEFINE Stands == note.status \in {"completed", "uncertain", "suppressed"} => note' = note
<1>1. ASSUME ContentInv, [ContentNext]_contentVars
      PROVE  Stands
  <2> SUFFICES ASSUME note.status \in {"completed", "uncertain", "suppressed"}
               PROVE  note' = note
    OBVIOUS
  <2>1. runner = "none" /\ dispatching = "none" /\ ~NoteDue
    BY <1>1 DEF ContentInv, NoteDue
  <2>2. QED
    BY <1>1, <2>1
    DEF ContentNext, contentVars, CreateQueued, OpenEnvelope, Collaborate, Illustrate,
        CloseEnvelope, NotifyScheduled, MarkCopied, Remember, RetryIllustration, Redraw,
        RetryNotification, FinishNotification, RetryFallsDue, Restart
<1>2. []ContentInv /\ [][ContentNext]_contentVars => [][Stands]_contentVars
  BY <1>1, PTL
<1>3. QED
  BY <1>2, ContentInvHolds, PTL DEF ContentSpec, NoteStands

-----------------------------------------------------------------------------
(****************************************************************************)
(* SKILL TRIALS. Why a Skill in use has passed its trials: the package of a *)
(* commission is fixed when it leaves the dialogue, its trials are recorded *)
(* only while it is on trial and with that package, and what is activated   *)
(* or put back had enough of them. Why a run that has ended stays: who      *)
(* executes it may have lost the lease, but whoever has the lease has a run *)
(* that has not ended.                                                      *)
(****************************************************************************)

\* What is known of the commissions.  The package of a commission that has left
\* the dialogue is fixed, and its trials ran with it.
CommissionsInv ==
    /\ IsFiniteSet(trials)
    /\ \A c \in Commissions :
        /\ CommissionStatus(c) \in {"trial", "activation_proposed"} => commission[c].pkg # NoDraft
        /\ CommissionStatus(c) = "active" <=> commission[c].activation = "active"
        /\ \/ CommissionStatus(c) = "activation_proposed"
           \/ commission[c].activation \in {"active", "superseded"}
           => Cardinality(AcceptedTrials(c)) >= Needed
    /\ \A c, d \in Actives : c = d
    /\ \A t \in trials :
        /\ CommissionStatus(t.of) \notin {"absent", "discovering", "draft"}
        /\ t.pkg = commission[t.of].pkg

\* What is known of the automatic trials.  A run holds the lease of its
\* commission from its queueing to its end, and while it runs the lease is claimed.
TrialRunsInv ==
    /\ \A r \in TrialRuns :
        /\ run[r].stage # "absent" => run[r].of \in Commissions
        /\ executing[r] # "none" => run[r].of \in Commissions
        /\ Unfinished(r) => lease[run[r].of].run = r
    /\ \A c \in Commissions, r \in TrialRuns :
        lease[c].run = r => /\ run[r].of = c /\ Unfinished(r)
                            /\ lease[c].claimed <=> run[r].stage \in RunningStages

SkillsInv == SkillsTypeOK /\ CommissionsInv /\ TrialRunsInv

CommissionTypes == [status: CommissionStatuses, pkg: Nat, base: Nat, version: Nat,
                    activation: ActivationStatuses]

RunTypes == [stage: RunStages, of: Commissions \cup {NoCommission}, situation: Situations,
             baseline: Loads, trial: Loads, worked: BOOLEAN, outcome: BOOLEAN]

LeaseTypes == [run: TrialRuns \cup {NoTrialRun}, claimed: BOOLEAN, live: BOOLEAN]

TrialTypes == [of: Commissions, by: EvidenceIds, pkg: Nat \ {NoDraft}, accepted: BOOLEAN]

FlowTypes == [state: {"none", "open", "closed"}, loaded: Loads, situation: Situations,
              accepted: BOOLEAN]

\* A finite set of numbers has a greatest one: a set without one has a subset
\* that has none and of whose subsets each has one, but take an element away.
LEMMA FiniteHasGreatest ==
    ASSUME NEW S \in SUBSET Nat, IsFiniteSet(S), S # {}
    PROVE  \E v \in S : \A w \in S : w <= v
<1> DEFINE Bounded(X) == \E v \in X : \A w \in X : w <= v
           Bad == {X \in FiniteSubsetsOf(S) : X # {} /\ ~Bounded(X)}
<1>1. ASSUME ~Bounded(S)
      PROVE  FALSE
  <2>1. S \in Bad /\ Bad \subseteq FiniteSubsetsOf(S)
    BY <1>1 DEF FiniteSubsetsOf
  <2>2. PICK X \in Bad : \A Y \in Bad : ~(<<Y, X>> \in StrictSubsetOrdering(S))
    <3> HIDE DEF Bad
    <3>1. QED
      BY <2>1, WFMin, FS_StrictSubsetOrderingWellFounded, Zenon
  <2>3. X \in SUBSET S /\ IsFiniteSet(X) /\ X # {} /\ ~Bounded(X)
    BY <2>2 DEF FiniteSubsetsOf
  <2>4. PICK x \in X : TRUE
    BY <2>3
  <2> DEFINE Y == X \ {x}
  <2>5. IsFiniteSet(Y) /\ Y \in SUBSET S /\ Y # X
    BY <2>3, <2>4, FS_Subset
  <2>6. Y \notin Bad
    BY <2>2, <2>3, <2>5 DEF StrictSubsetOrdering
  <2>7. CASE Y = {}
    BY <2>3, <2>4, <2>7
  <2>8. CASE Y # {}
    <3>1. PICK v \in Y : \A w \in Y : w <= v
      BY <2>5, <2>6, <2>8 DEF FiniteSubsetsOf
    <3>2. x \in Nat /\ v \in Nat /\ X \subseteq Nat
      BY <2>3, <2>4
    <3>3. \A w \in X : w = x \/ w <= v
      BY <3>1
    <3>4. CASE x <= v
      BY <2>3, <3>1, <3>3, <3>4
    <3>5. CASE v < x
      BY <2>3, <2>4, <3>2, <3>3, <3>5
    <3>6. QED
      BY <3>2, <3>4, <3>5
  <2>9. QED
    BY <2>7, <2>8
<1>2. QED
  BY <1>1

\* The versions of some commissions, and one more.
LEMMA HighestIsVersion ==
    ASSUME SkillsTypeOK, NEW C \in SUBSET Commissions, NEW n \in Nat
    PROVE  Highest({commission[c].version : c \in C} \cup {n}) \in Nat
<1> DEFINE V == {commission[c].version : c \in C}
<1>1. IsFiniteSet(C)
  BY SkillsAssumption, FS_Subset
<1>2. [c \in C |-> commission[c].version] \in Surjection(C, V)
  BY DEF Surjection
<1>3. IsFiniteSet(V)
  <2> HIDE DEF V
  <2>1. QED
    BY <1>1, <1>2, FS_Surjection
<1>4. V \cup {n} \in SUBSET Nat /\ V \cup {n} # {}
  BY DEF SkillsTypeOK
<1>5. IsFiniteSet(V \cup {n})
  BY <1>3, FS_AddElement
<1>6. \E v \in V \cup {n} : \A w \in V \cup {n} : w <= v
  <2> HIDE DEF V
  <2>1. QED
    BY <1>4, <1>5, FiniteHasGreatest
<1>7. QED
  BY <1>4, <1>6 DEF Highest

LEMMA SkillsInvInit == SkillsInit => SkillsInv
<1> SUFFICES ASSUME SkillsInit
             PROVE  SkillsInv
  OBVIOUS
<1>1. Unmanaged \in Loads /\ Freed \in LeaseTypes
  BY DEF Unmanaged, Loads, Freed, LeaseTypes, NoDraft
<1>2. SkillsTypeOK
  <2>1. flowTask \in [FlowTasks -> FlowTypes]
    BY <1>1 DEF SkillsInit, FlowTypes
  <2>2. run \in [TrialRuns -> RunTypes]
    BY <1>1 DEF SkillsInit, RunTypes, RunStages
  <2>3. commission \in [Commissions -> CommissionTypes]
    BY DEF SkillsInit, CommissionTypes, CommissionStatuses, ActivationStatuses, NoDraft
  <2>4. overlay \in [version: Nat, base: [Additions -> Nat],
                     status: [Additions -> {"absent", "pending", "approved"}]]
    BY DEF SkillsInit
  <2>5. QED
    BY <1>1, <2>1, <2>2, <2>3, <2>4
    DEF SkillsInit, SkillsTypeOK, CommissionTypes, RunTypes, FlowTypes, LeaseTypes, TaskStatuses
<1>3. CommissionsInv
  BY FS_EmptySet DEF SkillsInit, CommissionsInv, CommissionStatus, Actives
<1>4. TrialRunsInv
  BY SkillsAssumption DEF SkillsInit, TrialRunsInv, Unfinished, RunningStages, Freed
<1>5. QED
  BY <1>2, <1>3, <1>4 DEF SkillsInv

LEMMA SkillsKnown ==
    ASSUME SkillsInv
    PROVE  /\ commission \in [Commissions -> CommissionTypes]
           /\ replies \in [Commissions -> {"none", "fresh", "stale"}]
           /\ drafts \in Nat /\ trials \subseteq TrialTypes
           /\ flowTask \in [FlowTasks -> FlowTypes]
           /\ run \in [TrialRuns -> RunTypes]
           /\ trialTask \in [TrialRuns -> TaskStatuses]
           /\ executing \in [TrialRuns -> {"none"} \cup RunningStages]
           /\ lease \in [Commissions -> LeaseTypes]
           /\ overlay.version \in Nat
  BY DEF SkillsInv, SkillsTypeOK, CommissionTypes, TrialTypes, FlowTypes, RunTypes, LeaseTypes

-----------------------------------------------------------------------------
(* Steps that change the commissions only.                                 *)

LEMMA CommissionStep ==
    ASSUME SkillsInv, commission' \in [Commissions -> CommissionTypes],
           replies' \in [Commissions -> {"none", "fresh", "stale"}], drafts' \in Nat,
           UNCHANGED <<flowTask, trials, runVars, overlay>>, CommissionsInv'
    PROVE  SkillsInv'
<1>1. SkillsTypeOK'
  BY DEF SkillsInv, SkillsTypeOK, CommissionTypes, runVars, EvidenceIds, Loads
<1>2. TrialRunsInv'
  BY DEF SkillsInv, TrialRunsInv, runVars, Unfinished
<1>3. QED
  BY <1>1, <1>2 DEF SkillsInv

\* One commission changes its status or its package.
LEMMA RowKeeps ==
    ASSUME SkillsInv, NEW c \in Commissions, NEW new \in CommissionTypes,
           commission' = [commission EXCEPT ![c] = new], UNCHANGED trials,
           new.activation = commission[c].activation,
           new.status = "active" <=> CommissionStatus(c) = "active",
           new.status \in {"trial", "activation_proposed"} => new.pkg # NoDraft,
           new.status = "activation_proposed" => Cardinality(AcceptedTrials(c)) >= Needed,
           \/ \A t \in trials : t.of # c
           \/ new.status \notin {"absent", "discovering", "draft"} /\ new.pkg = commission[c].pkg
    PROVE  CommissionsInv'
<1>1. \A d \in Commissions : commission'[d] = IF d = c THEN new ELSE commission[d]
  BY SkillsKnown
<1>2. \A d \in Commissions : commission'[d].activation = commission[d].activation
  BY <1>1
<1>3. Actives' = Actives
  BY <1>2 DEF Actives
<1>4. ASSUME NEW d \in Commissions
      PROVE  AcceptedTrials(d)' = AcceptedTrials(d)
  BY DEF AcceptedTrials
<1>5. ASSUME NEW d \in Commissions
      PROVE  /\ CommissionStatus(d)' \in {"trial", "activation_proposed"} => commission'[d].pkg # NoDraft
             /\ CommissionStatus(d)' = "active" <=> commission'[d].activation = "active"
             /\ \/ CommissionStatus(d)' = "activation_proposed"
                \/ commission'[d].activation \in {"active", "superseded"}
                => Cardinality(AcceptedTrials(d)') >= Needed
  <2>1. CASE d = c
    BY <1>1, <1>4, <2>1 DEF SkillsInv, CommissionsInv, CommissionStatus
  <2>2. CASE d # c
    BY <1>1, <1>4, <2>2 DEF SkillsInv, CommissionsInv, CommissionStatus
  <2>3. QED
    BY <2>1, <2>2
<1>6. ASSUME NEW t \in trials
      PROVE  /\ CommissionStatus(t.of)' \notin {"absent", "discovering", "draft"}
             /\ t.pkg = commission'[t.of].pkg
  <2>1. t.of \in Commissions
    BY SkillsKnown DEF TrialTypes
  <2>2. QED
    BY <1>1, <2>1 DEF SkillsInv, CommissionsInv, CommissionStatus
<1>7. QED
  BY <1>3, <1>5, <1>6 DEF SkillsInv, CommissionsInv

LEMMA DialogueKeeps ==
    ASSUME SkillsInv, NEW c \in Commissions,
           \/ AddMessage(c) \/ ChiefReplies(c) \/ ReplyLost(c) \/ ValidatePackage(c)
           \/ CancelCommission(c) \/ ProposeActivation(c)
    PROVE  SkillsInv'
<1>1. commission[c] \in CommissionTypes /\ UNCHANGED <<flowTask, trials, runVars, overlay>>
  BY SkillsKnown DEF AddMessage, ChiefReplies, ReplyLost, ValidatePackage, CancelCommission,
     ProposeActivation
<1>2. replies' \in [Commissions -> {"none", "fresh", "stale"}] /\ drafts' \in Nat
  BY SkillsKnown DEF AddMessage, ChiefReplies, ReplyLost, ValidatePackage, CancelCommission,
     ProposeActivation, UpdateCommission, Stale
<1>3. CommissionStatus(c) \in {"absent", "discovering", "draft"} => \A t \in trials : t.of # c
  BY DEF SkillsInv, CommissionsInv
<1>4. ASSUME NEW new \in CommissionTypes, commission' = [commission EXCEPT ![c] = new],
             new.activation = commission[c].activation,
             new.status = "active" <=> CommissionStatus(c) = "active",
             new.status \in {"trial", "activation_proposed"} => new.pkg # NoDraft,
             new.status = "activation_proposed" => Cardinality(AcceptedTrials(c)) >= Needed,
             \/ CommissionStatus(c) \in {"absent", "discovering", "draft"}
             \/ new.status \notin {"absent", "discovering", "draft"} /\ new.pkg = commission[c].pkg
      PROVE  SkillsInv'
  <2>1. CommissionsInv'
    BY <1>1, <1>3, <1>4, RowKeeps
  <2>2. commission' \in [Commissions -> CommissionTypes]
    BY <1>4, SkillsKnown
  <2>3. QED
    BY <1>1, <1>2, <2>1, <2>2, CommissionStep
<1>5. CASE AddMessage(c)
  <2> DEFINE new == [commission[c] EXCEPT
                         !.status = IF commission[c].status = "absent" THEN "discovering" ELSE commission[c].status]
  <2>1. commission' = [commission EXCEPT ![c] = new]
    BY <1>1, <1>5 DEF AddMessage, CommissionTypes
  <2>2. new \in CommissionTypes /\ new.activation = commission[c].activation
        /\ new.status \in {"discovering", "draft"}
        /\ CommissionStatus(c) \in {"absent", "discovering", "draft"}
    BY <1>1, <1>5 DEF AddMessage, CommissionTypes, CommissionStatuses, CommissionStatus
  <2> HIDE DEF new
  <2>3. QED
    BY <1>4, <2>1, <2>2
<1>6. CASE ChiefReplies(c)
  <2>1. CommissionStatus(c) \in {"discovering", "draft"}
    BY <1>6 DEF ChiefReplies, Current
  <2>2. CASE commission' = [commission EXCEPT ![c] = Drafted(c)]
    <3>1. ActiveVersion \in Nat
      <4>1. Actives \in SUBSET Commissions
        BY DEF Actives
      <4>2. QED
        BY <4>1, SkillsKnown, HighestIsVersion DEF ActiveVersion, SkillsInv
    <3>2. NextVersion \in Nat
      <4> DEFINE C == {d \in Commissions : commission[d].activation # "none"}
      <4>1. C \in SUBSET Commissions
        OBVIOUS
      <4>2. Highest({commission[d].version : d \in C} \cup {0}) \in Nat
        <5> HIDE DEF C
        <5>1. QED
          BY <4>1, HighestIsVersion DEF SkillsInv
      <4>3. QED
        BY <4>2 DEF NextVersion
    <3>3. Drafted(c) \in CommissionTypes /\ Drafted(c).activation = commission[c].activation
          /\ Drafted(c).status = "draft"
      <4>1. drafts + 1 \in Nat /\ "draft" \in CommissionStatuses
        BY SkillsKnown DEF CommissionStatuses
      <4> HIDE DEF CommissionStatuses
      <4>2. QED
        BY <1>1, <3>1, <3>2, <4>1 DEF Drafted, CommissionTypes
    <3>4. QED
      BY <1>4, <2>1, <2>2, <3>3
  <2>3. CASE commission' = [commission EXCEPT ![c].status = "discovering"]
    <3> DEFINE new == [commission[c] EXCEPT !.status = "discovering"]
    <3>1. commission' = [commission EXCEPT ![c] = new]
      BY <1>1, <2>3 DEF CommissionTypes
    <3>2. new \in CommissionTypes /\ new.activation = commission[c].activation
          /\ new.status = "discovering"
      BY <1>1 DEF CommissionTypes, CommissionStatuses
    <3> HIDE DEF new
    <3>3. QED
      BY <1>4, <2>1, <3>1, <3>2
  <2>4. QED
    BY <1>6, <2>2, <2>3 DEF ChiefReplies
<1>7. CASE ReplyLost(c)
  <2>1. UNCHANGED commission
    BY <1>7 DEF ReplyLost
  <2>2. commission' = [commission EXCEPT ![c] = commission[c]]
    BY <2>1, SkillsKnown
  <2>3. CommissionStatus(c) \in {"trial", "activation_proposed"} => commission[c].pkg # NoDraft
    BY DEF SkillsInv, CommissionsInv
  <2>4. CommissionStatus(c) = "activation_proposed" => Cardinality(AcceptedTrials(c)) >= Needed
    BY DEF SkillsInv, CommissionsInv
  <2>5. QED
    BY <1>1, <1>4, <2>2, <2>3, <2>4 DEF CommissionStatus
<1>8. CASE ValidatePackage(c)
  <2> DEFINE new == [commission[c] EXCEPT !.status = "trial"]
  <2>1. commission' = [commission EXCEPT ![c] = new]
    BY <1>8 DEF ValidatePackage, UpdateCommission
  <2>2. new \in CommissionTypes /\ new.activation = commission[c].activation
        /\ new.status = "trial" /\ new.pkg = commission[c].pkg
        /\ CommissionStatus(c) = "draft" /\ new.pkg # NoDraft
    BY <1>1, <1>8 DEF ValidatePackage, CommissionTypes, CommissionStatuses
  <2> HIDE DEF new
  <2>3. QED
    BY <1>4, <2>1, <2>2
<1>9. CASE CancelCommission(c)
  <2> DEFINE new == [commission[c] EXCEPT !.status = "cancelled"]
  <2>1. commission' = [commission EXCEPT ![c] = new]
    BY <1>9 DEF CancelCommission, UpdateCommission
  <2>2. new \in CommissionTypes /\ new.activation = commission[c].activation
        /\ new.status = "cancelled" /\ new.pkg = commission[c].pkg
        /\ CommissionStatus(c) # "active"
    BY <1>1, <1>9 DEF CancelCommission, CommissionTypes, CommissionStatuses
  <2> HIDE DEF new
  <2>3. QED
    BY <1>4, <2>1, <2>2
<1>10. CASE ProposeActivation(c)
  <2> DEFINE new == [commission[c] EXCEPT !.status = "activation_proposed"]
  <2>1. commission' = [commission EXCEPT ![c] = new]
    BY <1>10 DEF ProposeActivation, UpdateCommission
  <2>2. new \in CommissionTypes /\ new.activation = commission[c].activation
        /\ new.status = "activation_proposed" /\ new.pkg = commission[c].pkg
        /\ CommissionStatus(c) = "trial"
    BY <1>1, <1>10 DEF ProposeActivation, CommissionTypes, CommissionStatuses
  <2>3. commission[c].pkg # NoDraft /\ Cardinality(AcceptedTrials(c)) >= Needed
    BY <1>10, <2>2 DEF SkillsInv, CommissionsInv, ProposeActivation
  <2> HIDE DEF new
  <2>4. QED
    BY <1>4, <2>1, <2>2, <2>3
<1>11. QED
  BY <1>5, <1>6, <1>7, <1>8, <1>9, <1>10

\* Commissions change their statuses together.
LEMMA StatusesKeep ==
    ASSUME SkillsInv, UNCHANGED trials,
           \A c \in Commissions :
               /\ commission'[c].pkg = commission[c].pkg
               /\ commission'[c].status = "active" <=> commission'[c].activation = "active"
               /\ \/ commission'[c].status = commission[c].status
                  \/ commission'[c].status \in {"active", "superseded", "suspended"}
               /\ \/ commission'[c].activation = commission[c].activation
                  \/ commission'[c].activation = "rolled_back"
                  \/ CommissionStatus(c) = "activation_proposed"
                  \/ commission[c].activation \in {"active", "superseded"},
           \A c, d \in Commissions :
               commission'[c].activation = "active" /\ commission'[d].activation = "active" => c = d
    PROVE  CommissionsInv'
<1>1. \A c, d \in Actives' : c = d
  BY DEF Actives
<1>2. ASSUME NEW c \in Commissions
      PROVE  /\ CommissionStatus(c)' \in {"trial", "activation_proposed"} => commission'[c].pkg # NoDraft
             /\ CommissionStatus(c)' = "active" <=> commission'[c].activation = "active"
             /\ \/ CommissionStatus(c)' = "activation_proposed"
                \/ commission'[c].activation \in {"active", "superseded"}
                => Cardinality(AcceptedTrials(c)') >= Needed
  <2>1. AcceptedTrials(c)' = AcceptedTrials(c)
    BY DEF AcceptedTrials
  <2>2. QED
    BY <2>1 DEF SkillsInv, CommissionsInv, CommissionStatus
<1>3. ASSUME NEW t \in trials
      PROVE  /\ CommissionStatus(t.of)' \notin {"absent", "discovering", "draft"}
             /\ t.pkg = commission'[t.of].pkg
  <2>1. t.of \in Commissions
    BY SkillsKnown DEF TrialTypes
  <2>2. QED
    BY <2>1 DEF SkillsInv, CommissionsInv, CommissionStatus
<1>4. QED
  BY <1>1, <1>2, <1>3 DEF SkillsInv, CommissionsInv

LEMMA ActivationKeeps ==
    ASSUME SkillsInv, NEW c \in Commissions, Activate(c) \/ Rollback(c)
    PROVE  SkillsInv'
<1>1. UNCHANGED <<drafts, flowTask, trials, runVars, overlay>>
  BY DEF Activate, Rollback
<1>2. drafts' \in Nat /\ replies' \in [Commissions -> {"none", "fresh", "stale"}]
  BY <1>1, SkillsKnown DEF Activate, Rollback, Stale
<1>3. \A d \in Commissions : CommissionStatus(d) = "active" <=> commission[d].activation = "active"
  BY DEF SkillsInv, CommissionsInv
<1>4. CASE Activate(c)
  <2>1. commission' \in [Commissions -> CommissionTypes]
    <3>1. \A cr \in CommissionTypes :
              /\ [cr EXCEPT !.status = "active", !.activation = "active"] \in CommissionTypes
              /\ [cr EXCEPT !.status = "superseded", !.activation = "superseded"] \in CommissionTypes
      BY DEF CommissionTypes, CommissionStatuses, ActivationStatuses
    <3>2. QED
      BY <1>4, <3>1, SkillsKnown DEF Activate
  <2>2. \A d \in Commissions :
            /\ commission'[d].pkg = commission[d].pkg
            /\ IF d = c THEN commission'[d].status = "active" /\ commission'[d].activation = "active"
               ELSE IF commission[d].activation = "active"
                    THEN commission'[d].status = "superseded" /\ commission'[d].activation = "superseded"
                    ELSE commission'[d] = commission[d]
    BY <1>4, SkillsKnown DEF Activate, CommissionTypes, Actives
  <2>3. CommissionStatus(c) = "activation_proposed"
    BY <1>4 DEF Activate
  <2>4. CommissionsInv'
    BY <1>1, <1>3, <2>2, <2>3, StatusesKeep DEF CommissionStatus
  <2>5. QED
    BY <1>1, <1>2, <2>1, <2>4, CommissionStep
<1>5. CASE Rollback(c)
  <2>1. PICK restored \in (IF Previous(c) = {} THEN {NoCommission} ELSE Previous(c)) :
            commission' = [d \in Commissions |->
                  IF d = c THEN [commission[d] EXCEPT !.status = "suspended", !.activation = "rolled_back"]
                  ELSE IF d = restored
                       THEN [commission[d] EXCEPT !.status = "active", !.activation = "active"]
                       ELSE commission[d]]
    BY <1>5 DEF Rollback
  <2>2. restored \in Commissions => commission[restored].activation = "superseded"
    BY <2>1, SkillsAssumption DEF Previous, Earlier
  <2>3. commission' \in [Commissions -> CommissionTypes]
    <3>1. \A cr \in CommissionTypes :
              /\ [cr EXCEPT !.status = "active", !.activation = "active"] \in CommissionTypes
              /\ [cr EXCEPT !.status = "suspended", !.activation = "rolled_back"] \in CommissionTypes
      BY DEF CommissionTypes, CommissionStatuses, ActivationStatuses
    <3>2. QED
      BY <2>1, <3>1, SkillsKnown
  <2>4. \A d \in Commissions :
            /\ commission'[d].pkg = commission[d].pkg
            /\ IF d = c THEN commission'[d].status = "suspended" /\ commission'[d].activation = "rolled_back"
               ELSE IF d = restored
                    THEN commission'[d].status = "active" /\ commission'[d].activation = "active"
                    ELSE commission'[d] = commission[d]
    BY <2>1, SkillsKnown DEF CommissionTypes
  <2>5. commission[c].activation = "active"
    BY <1>3, <1>5 DEF Rollback
  <2>6. \A d \in Commissions : commission[d].activation = "active" => d = c
    BY <2>5 DEF SkillsInv, CommissionsInv, Actives
  <2>7. CommissionsInv'
    BY <1>1, <1>3, <2>2, <2>4, <2>6, StatusesKeep DEF CommissionStatus
  <2>8. QED
    BY <1>1, <1>2, <2>3, <2>7, CommissionStep
<1>6. QED
  BY <1>4, <1>5

-----------------------------------------------------------------------------
(* Steps that record a trial or move a run.                                *)

\* A trial with the package of a commission that is on trial.
LEMMA TrialKeeps ==
    ASSUME SkillsInv, UNCHANGED commission, NEW t \in TrialTypes,
           trials' = trials \cup {t}, CommissionStatus(t.of) = "trial",
           t.pkg = commission[t.of].pkg
    PROVE  CommissionsInv' /\ trials' \subseteq TrialTypes
<1>1. IsFiniteSet(trials')
  BY FS_AddElement DEF SkillsInv, CommissionsInv
<1>2. ASSUME NEW c \in Commissions
      PROVE  Cardinality(AcceptedTrials(c)) >= Needed => Cardinality(AcceptedTrials(c)') >= Needed
  <2>1. AcceptedTrials(c)' \subseteq trials' /\ AcceptedTrials(c) \subseteq AcceptedTrials(c)'
    BY DEF AcceptedTrials
  <2>2. IsFiniteSet(AcceptedTrials(c)')
    BY <1>1, <2>1, FS_Subset
  <2>3. /\ Cardinality(AcceptedTrials(c)) <= Cardinality(AcceptedTrials(c)')
        /\ IsFiniteSet(AcceptedTrials(c))
    BY <2>1, <2>2, FS_Subset
  <2>4. Cardinality(AcceptedTrials(c)) \in Nat /\ Cardinality(AcceptedTrials(c)') \in Nat
    BY <2>2, <2>3, FS_CardinalityType
  <2>5. QED
    BY <2>3, <2>4, SkillsAssumption
<1>3. Actives' = Actives /\ \A c \in Commissions : CommissionStatus(c)' = CommissionStatus(c)
  BY DEF Actives, CommissionStatus
<1>4. \A u \in trials' : /\ CommissionStatus(u.of)' \notin {"absent", "discovering", "draft"}
                         /\ u.pkg = commission'[u.of].pkg
  BY SkillsKnown DEF SkillsInv, CommissionsInv, CommissionStatus, TrialTypes
<1>5. QED
  BY <1>1, <1>2, <1>3, <1>4, SkillsKnown DEF SkillsInv, CommissionsInv

LEMMA SameCommissions ==
    ASSUME SkillsInv, UNCHANGED <<commission, trials>>
    PROVE  CommissionsInv'
<1>1. \A c \in Commissions : AcceptedTrials(c)' = AcceptedTrials(c)
  BY DEF AcceptedTrials
<1>2. Actives' = Actives /\ \A c : CommissionStatus(c)' = CommissionStatus(c)
  BY DEF Actives, CommissionStatus
<1>3. QED
  BY <1>1, <1>2 DEF SkillsInv, CommissionsInv

\* The runs stay as they are, and the leases with their holders.
LEMMA SameRuns ==
    ASSUME SkillsInv, UNCHANGED run,
           \A r \in TrialRuns : executing'[r] # "none" => executing[r] # "none",
           \A c \in Commissions : lease'[c].run = lease[c].run /\ lease'[c].claimed = lease[c].claimed
    PROVE  TrialRunsInv'
<1>1. ASSUME NEW r \in TrialRuns
      PROVE  /\ run[r].stage # "absent" => run[r].of \in Commissions
             /\ executing'[r] # "none" => run[r].of \in Commissions
             /\ Unfinished(r)' => lease'[run[r].of].run = r
  <2>1. Unfinished(r)' => Unfinished(r) /\ run[r].of \in Commissions
    BY DEF SkillsInv, TrialRunsInv, Unfinished, RunningStages
  <2>2. QED
    BY <2>1 DEF SkillsInv, TrialRunsInv
<1>2. ASSUME NEW c \in Commissions, NEW r \in TrialRuns, lease'[c].run = r
      PROVE  /\ run[r].of = c /\ Unfinished(r)'
             /\ lease'[c].claimed <=> run[r].stage \in RunningStages
  <2>1. lease[c].run = r
    BY <1>2
  <2>2. QED
    BY <2>1 DEF SkillsInv, TrialRunsInv, Unfinished
<1>3. QED
  BY <1>1, <1>2 DEF TrialRunsInv

\* A run that holds its lease moves on under it, or ends and gives it back.
LEMMA RunMoves ==
    ASSUME SkillsInv, NEW r \in TrialRuns, run[r].of \in Commissions, lease[run[r].of].run = r,
           NEW new \in RunTypes, new.of = run[r].of, run' = [run EXCEPT ![r] = new],
           NEW held \in LeaseTypes, lease' = [lease EXCEPT ![run[r].of] = held],
           \/ new.stage \in RunningStages /\ held.run = r /\ held.claimed
           \/ new.stage \in {"completed", "failed"} /\ held.run = NoTrialRun,
           \A q \in TrialRuns \ {r} : executing'[q] = executing[q]
    PROVE  TrialRunsInv'
<1> DEFINE o == run[r].of
<1>1. /\ \A q \in TrialRuns : run'[q] = IF q = r THEN new ELSE run[q]
      /\ \A c \in Commissions : lease'[c] = IF c = o THEN held ELSE lease[c]
  BY SkillsKnown
<1>2. new.stage # "absent" /\ (Unfinished(r)' => held.run = r)
  BY <1>1, SkillsAssumption DEF Unfinished, RunningStages
<1>3. ASSUME NEW q \in TrialRuns
      PROVE  /\ run'[q].stage # "absent" => run'[q].of \in Commissions
             /\ executing'[q] # "none" => run'[q].of \in Commissions
             /\ Unfinished(q)' => lease'[run'[q].of].run = q
  <2>1. CASE q = r
    BY <1>1, <1>2, <2>1
  <2>2. CASE q # r
    <3>1. run'[q] = run[q] /\ executing'[q] = executing[q]
      BY <1>1, <2>2
    <3>2. Unfinished(q)' => Unfinished(q)
      BY <3>1 DEF Unfinished
    <3>3. Unfinished(q) => run[q].of \in Commissions /\ lease[run[q].of].run = q
      BY DEF SkillsInv, TrialRunsInv, Unfinished, RunningStages
    <3>4. Unfinished(q) => lease'[run[q].of].run = q
      BY <1>1, <2>2, <3>3
    <3>5. QED
      BY <3>1, <3>2, <3>4 DEF SkillsInv, TrialRunsInv
  <2>3. QED
    BY <2>1, <2>2
<1>4. ASSUME NEW c \in Commissions, NEW q \in TrialRuns, lease'[c].run = q
      PROVE  /\ run'[q].of = c /\ Unfinished(q)'
             /\ lease'[c].claimed <=> run'[q].stage \in RunningStages
  <2>1. CASE c = o
    <3>1. q = r /\ new.stage \in RunningStages /\ held.claimed
      BY <1>1, <1>4, <2>1, SkillsAssumption
    <3>2. QED
      BY <1>1, <2>1, <3>1 DEF Unfinished
  <2>2. CASE c # o
    <3>1. lease[c].run = q /\ run[q].of = c
      BY <1>1, <1>4, <2>2 DEF SkillsInv, TrialRunsInv
    <3>2. q # r /\ run'[q] = run[q] /\ lease'[c] = lease[c]
      BY <1>1, <2>2, <3>1
    <3>3. QED
      BY <3>1, <3>2 DEF SkillsInv, TrialRunsInv, Unfinished
  <2>3. QED
    BY <2>1, <2>2
<1>5. QED
  BY <1>3, <1>4 DEF TrialRunsInv

\* The step of a run, and what else it may touch.
LEMMA RunStep ==
    ASSUME SkillsInv, run' \in [TrialRuns -> RunTypes], lease' \in [Commissions -> LeaseTypes],
           trialTask' \in [TrialRuns -> TaskStatuses],
           executing' \in [TrialRuns -> {"none"} \cup RunningStages],
           trials' \subseteq TrialTypes, UNCHANGED <<commission, replies, drafts, flowTask, overlay>>,
           CommissionsInv', TrialRunsInv'
    PROVE  SkillsInv'
  BY DEF SkillsInv, SkillsTypeOK, RunTypes, LeaseTypes, TrialTypes, EvidenceIds, Loads, CommissionTypes

LEMMA TaskMoves ==
    ASSUME SkillsInv, NEW r \in TrialRuns, NEW status \in TaskStatuses, MoveTrialTask(r, status)
    PROVE  trialTask' \in [TrialRuns -> TaskStatuses]
  BY SkillsKnown DEF MoveTrialTask

LEMMA StartRunKeeps ==
    ASSUME SkillsInv, NEW r \in TrialRuns, NEW c \in Commissions, StartRun(r, c)
    PROVE  SkillsInv'
<1> DEFINE new == [run[r] EXCEPT !.stage = "queued", !.of = c]
           held == [run |-> r, claimed |-> FALSE, live |-> FALSE]
<1>1. new \in RunTypes /\ new.of = c /\ new.stage = "queued" /\ held \in LeaseTypes
  BY SkillsKnown DEF RunTypes, RunStages, LeaseTypes
<1>2. run' = [run EXCEPT ![r] = new] /\ lease' = [lease EXCEPT ![c] = held]
  BY SkillsKnown DEF StartRun, RunTypes
<1>3. UNCHANGED <<commission, replies, drafts, flowTask, trials, executing, overlay>>
  BY DEF StartRun
<1>4. run[r].stage = "absent" /\ lease[c].run = NoTrialRun
  BY DEF StartRun
<1>5. /\ \A q \in TrialRuns : run'[q] = IF q = r THEN new ELSE run[q]
      /\ \A d \in Commissions : lease'[d] = IF d = c THEN held ELSE lease[d]
  BY <1>2, SkillsKnown
<1>6. held.run = r /\ ~held.claimed
  OBVIOUS
<1> HIDE DEF new, held
<1>7. ASSUME NEW q \in TrialRuns
      PROVE  /\ run'[q].stage # "absent" => run'[q].of \in Commissions
             /\ executing'[q] # "none" => run'[q].of \in Commissions
             /\ Unfinished(q)' => lease'[run'[q].of].run = q
  <2>1. CASE q = r
    BY <1>1, <1>5, <1>6, <2>1
  <2>2. CASE q # r
    <3>1. run'[q] = run[q] /\ executing'[q] = executing[q]
      BY <1>3, <1>5, <2>2
    <3>2. Unfinished(q)' => Unfinished(q)
      BY <3>1 DEF Unfinished
    <3>3. Unfinished(q) => run[q].of \in Commissions /\ lease[run[q].of].run = q
      BY DEF SkillsInv, TrialRunsInv, Unfinished, RunningStages
    <3>4. Unfinished(q) => lease'[run[q].of].run = q
      BY <1>4, <1>5, <3>3, SkillsAssumption
    <3>5. QED
      BY <3>1, <3>2, <3>4 DEF SkillsInv, TrialRunsInv
  <2>3. QED
    BY <2>1, <2>2
<1>8. ASSUME NEW d \in Commissions, NEW q \in TrialRuns, lease'[d].run = q
      PROVE  /\ run'[q].of = d /\ Unfinished(q)'
             /\ lease'[d].claimed <=> run'[q].stage \in RunningStages
  <2>1. CASE d = c
    <3>1. q = r
      BY <1>5, <1>6, <1>8, <2>1
    <3>2. QED
      BY <1>1, <1>5, <1>6, <2>1, <3>1 DEF Unfinished, RunningStages
  <2>2. CASE d # c
    <3>1. lease[d].run = q /\ lease'[d] = lease[d]
      BY <1>5, <1>8, <2>2
    <3>2. run[q].of = d /\ Unfinished(q)
      BY <3>1 DEF SkillsInv, TrialRunsInv
    <3>3. q # r
      BY <1>4, <3>2 DEF Unfinished, RunningStages
    <3>4. QED
      BY <1>5, <3>1, <3>2, <3>3 DEF SkillsInv, TrialRunsInv, Unfinished
  <2>3. QED
    BY <2>1, <2>2
<1>9. TrialRunsInv'
  BY <1>7, <1>8 DEF TrialRunsInv
<1>10. trialTask' \in [TrialRuns -> TaskStatuses]
  BY SkillsKnown DEF StartRun, TaskStatuses
<1>11. run' \in [TrialRuns -> RunTypes] /\ lease' \in [Commissions -> LeaseTypes]
  BY <1>1, <1>2, SkillsKnown
<1>12. QED
  BY <1>3, <1>9, <1>10, <1>11, SkillsKnown, SameCommissions, RunStep

\* What Owns says, and what it says of a run that executes.
LEMMA OwnerHolds ==
    ASSUME SkillsInv, NEW r \in TrialRuns, executing[r] # "none", Owns(r)
    PROVE  /\ run[r].of \in Commissions /\ lease[run[r].of].run = r
           /\ lease[run[r].of].claimed /\ run[r].stage \in RunningStages
<1>1. run[r].of \in Commissions
  BY DEF SkillsInv, TrialRunsInv
<1>2. lease[run[r].of].run = r /\ lease[run[r].of].claimed
  BY DEF Owns
<1>3. QED
  BY <1>1, <1>2 DEF SkillsInv, TrialRunsInv

LEMMA ClaimKeeps ==
    ASSUME SkillsInv, NEW r \in TrialRuns, ClaimRun(r)
    PROVE  SkillsInv'
<1> DEFINE new == [run[r] EXCEPT !.stage = "baseline"]
           held == [run |-> r, claimed |-> TRUE, live |-> TRUE]
<1>1. new \in RunTypes /\ new.of = run[r].of /\ new.stage \in RunningStages
  BY SkillsKnown DEF RunTypes, RunStages, RunningStages
<1>2. held \in LeaseTypes /\ held.run = r /\ held.claimed
  BY DEF LeaseTypes
<1>3. run' = [run EXCEPT ![r] = new] /\ lease' = [lease EXCEPT ![run[r].of] = held]
  BY DEF ClaimRun
<1>4. UNCHANGED <<commission, replies, drafts, flowTask, trials, overlay>>
  BY DEF ClaimRun
<1>5. run[r].of \in Commissions /\ lease[run[r].of].run = r
  BY DEF ClaimRun, SkillsInv, TrialRunsInv
<1>6. /\ executing' \in [TrialRuns -> {"none"} \cup RunningStages]
      /\ \A q \in TrialRuns \ {r} : executing'[q] = executing[q]
  BY SkillsKnown DEF ClaimRun, RunningStages
<1>7. trialTask' \in [TrialRuns -> TaskStatuses]
  BY TaskMoves DEF ClaimRun, TaskStatuses
<1> HIDE DEF new, held
<1>8. TrialRunsInv'
  BY <1>1, <1>2, <1>3, <1>5, <1>6, RunMoves
<1>9. run' \in [TrialRuns -> RunTypes] /\ lease' \in [Commissions -> LeaseTypes]
  BY <1>1, <1>2, <1>3, SkillsKnown
<1>10. QED
  BY <1>4, <1>6, <1>7, <1>8, <1>9, SkillsKnown, SameCommissions, RunStep

\* The next stage of a run that executes under its lease.
LEMMA StageKeeps ==
    ASSUME SkillsInv, NEW r \in TrialRuns, NEW stage \in RunningStages, NEW cr \in RunTypes,
           cr.of = run[r].of, executing[r] # "none", NextStage(r, stage, cr)
    PROVE  SkillsInv'
<1> DEFINE new == [cr EXCEPT !.stage = stage]
           held == [lease[run[r].of] EXCEPT !.live = TRUE]
<1>1. new \in RunTypes /\ new.of = run[r].of /\ new.stage \in RunningStages
  BY DEF RunTypes, RunStages
<1>2. /\ run[r].of \in Commissions /\ lease[run[r].of].run = r
      /\ lease[run[r].of].claimed
  BY OwnerHolds DEF NextStage
<1>3. held \in LeaseTypes /\ held.run = r /\ held.claimed
  BY <1>2, SkillsKnown DEF LeaseTypes
<1>4. run' = [run EXCEPT ![r] = new] /\ lease' = [lease EXCEPT ![run[r].of] = held]
  BY <1>2, SkillsKnown DEF NextStage, Renewed, LeaseTypes
<1>5. UNCHANGED <<commission, replies, drafts, flowTask, trials, overlay>>
  BY DEF NextStage
<1>6. /\ executing' \in [TrialRuns -> {"none"} \cup RunningStages]
      /\ \A q \in TrialRuns \ {r} : executing'[q] = executing[q]
  BY SkillsKnown DEF NextStage
<1>7. trialTask' \in [TrialRuns -> TaskStatuses]
  BY TaskMoves DEF NextStage, TaskStatuses
<1> HIDE DEF new, held
<1>8. TrialRunsInv'
  BY <1>1, <1>2, <1>3, <1>4, <1>6, RunMoves
<1>9. run' \in [TrialRuns -> RunTypes] /\ lease' \in [Commissions -> LeaseTypes]
  BY <1>1, <1>3, <1>4, SkillsKnown
<1>10. QED
  BY <1>5, <1>6, <1>7, <1>8, <1>9, SkillsKnown, SameCommissions, RunStep

LEMMA LoadedFits ==
    ASSUME SkillsInv
    PROVE  /\ InUse \subseteq Loads
           /\ \A c \in Commissions : Load(c) \in Loads
<1>1. Unmanaged \in Loads
  BY DEF Unmanaged, Loads, NoDraft
<1>2. \A c \in Commissions : Load(c) \in Loads
  BY SkillsKnown DEF Load, Loads, CommissionTypes
<1>3. QED
  BY <1>1, <1>2 DEF InUse, Actives

LEMMA StagesKeep ==
    ASSUME SkillsInv, NEW r \in TrialRuns, RunBaseline(r) \/ RunTrial(r) \/ ReviewRun(r)
    PROVE  SkillsInv'
<1>1. run[r] \in RunTypes /\ executing[r] # "none"
  BY SkillsKnown DEF RunBaseline, RunTrial, ReviewRun
<1>2. CASE RunBaseline(r)
  <2>1. PICK loaded \in InUse : NextStage(r, "trial", [run[r] EXCEPT !.baseline = loaded])
    BY <1>2 DEF RunBaseline
  <2>2. [run[r] EXCEPT !.baseline = loaded] \in RunTypes
        /\ [run[r] EXCEPT !.baseline = loaded].of = run[r].of
    BY <1>1, <2>1, LoadedFits DEF RunTypes
  <2>3. QED
    BY <1>1, <2>1, <2>2, StageKeeps DEF RunningStages
<1>3. CASE RunTrial(r)
  <2>1. PICK ok \in BOOLEAN :
            NextStage(r, "review", [run[r] EXCEPT !.trial = Load(run[r].of), !.worked = ok])
    BY <1>3 DEF RunTrial
  <2>2. Load(run[r].of) \in Loads
    BY <1>1, LoadedFits DEF SkillsInv, TrialRunsInv
  <2>3. [run[r] EXCEPT !.trial = Load(run[r].of), !.worked = ok] \in RunTypes
        /\ [run[r] EXCEPT !.trial = Load(run[r].of), !.worked = ok].of = run[r].of
    BY <1>1, <2>2 DEF RunTypes
  <2>4. QED
    BY <1>1, <2>1, <2>3, StageKeeps DEF RunningStages
<1>4. CASE ReviewRun(r)
  <2>1. PICK outcome \in BOOLEAN : NextStage(r, "record", [run[r] EXCEPT !.outcome = outcome])
    BY <1>4 DEF ReviewRun
  <2>2. [run[r] EXCEPT !.outcome = outcome] \in RunTypes
        /\ [run[r] EXCEPT !.outcome = outcome].of = run[r].of
    BY <1>1 DEF RunTypes
  <2>3. QED
    BY <1>1, <2>1, <2>2, StageKeeps DEF RunningStages
<1>5. QED
  BY <1>2, <1>3, <1>4

\* What is recorded of evidence that was checked.
LEMMA RowFits ==
    ASSUME SkillsInv, NEW c \in Commissions, NEW b, NEW e, NEW accepted \in BOOLEAN,
           e.id \in EvidenceIds, Recordable(c, b, e, accepted)
    PROVE  /\ TrialRow(c, e, accepted) \in TrialTypes
           /\ TrialRow(c, e, accepted).of = c /\ CommissionStatus(c) = "trial"
           /\ TrialRow(c, e, accepted).pkg = commission[c].pkg
<1>1. CommissionStatus(c) = "trial" /\ e.loaded.pkg = commission[c].pkg
  BY DEF Recordable, Load
<1>2. commission[c].pkg \in Nat \ {NoDraft}
  BY <1>1, SkillsKnown DEF SkillsInv, CommissionsInv, CommissionTypes
<1>3. QED
  BY <1>1, <1>2 DEF TrialRow, TrialTypes

LEMMA RecordTrialKeeps ==
    ASSUME SkillsInv, NEW c \in Commissions, NEW accepted \in BOOLEAN, RecordTrial(c, accepted)
    PROVE  SkillsInv'
<1>1. PICK b \in TaskEvidence \cup RunEvidence, e \in TaskEvidence \cup RunEvidence :
          Recordable(c, b, e, accepted) /\ trials' = trials \cup {TrialRow(c, e, accepted)}
  BY DEF RecordTrial
<1>2. UNCHANGED <<commission, replies, drafts, flowTask, run, trialTask, executing, lease, overlay>>
  BY DEF RecordTrial, runVars
<1>3. e.id \in EvidenceIds
  BY DEF TaskEvidence, RunEvidence, BaselineRecord, TrialRecord, Evaluation, EvidenceIds
<1>4. CommissionsInv' /\ trials' \subseteq TrialTypes
  BY <1>1, <1>2, <1>3, RowFits, TrialKeeps
<1>5. TrialRunsInv'
  BY <1>2, SameRuns
<1>6. QED
  BY <1>2, <1>4, <1>5, SkillsKnown, RunStep

LEMMA RecordRunKeeps ==
    ASSUME SkillsInv, NEW r \in TrialRuns, RecordRun(r)
    PROVE  SkillsInv'
<1> DEFINE new == [run[r] EXCEPT !.stage = "completed"]
<1>1. /\ run[r].of \in Commissions /\ lease[run[r].of].run = r /\ run[r] \in RunTypes
  BY OwnerHolds, SkillsKnown DEF RecordRun
<1>2. new \in RunTypes /\ new.of = run[r].of /\ new.stage = "completed"
  BY <1>1 DEF RunTypes, RunStages
<1>3. Freed \in LeaseTypes /\ Freed.run = NoTrialRun
  BY DEF Freed, LeaseTypes
<1>4. run' = [run EXCEPT ![r] = new] /\ lease' = [lease EXCEPT ![run[r].of] = Freed]
  BY DEF RecordRun
<1>5. UNCHANGED <<commission, replies, drafts, flowTask, overlay>>
  BY DEF RecordRun
<1>6. /\ executing' \in [TrialRuns -> {"none"} \cup RunningStages]
      /\ \A q \in TrialRuns \ {r} : executing'[q] = executing[q]
  BY SkillsKnown DEF RecordRun
<1>7. trialTask' \in [TrialRuns -> TaskStatuses]
  BY TaskMoves DEF RecordRun, TaskStatuses
<1> HIDE DEF new
<1>8. TrialRunsInv'
  BY <1>1, <1>2, <1>3, <1>4, <1>6, RunMoves
<1>9. run' \in [TrialRuns -> RunTypes] /\ lease' \in [Commissions -> LeaseTypes]
  BY <1>2, <1>3, <1>4, SkillsKnown
<1>10. CommissionsInv' /\ trials' \subseteq TrialTypes
  <2>1. TrialRecord(r).id \in EvidenceIds /\ run[r].outcome \in BOOLEAN
    BY <1>1 DEF TrialRecord, Evaluation, EvidenceIds, RunTypes
  <2>2. /\ Recordable(run[r].of, BaselineRecord(r), TrialRecord(r), run[r].outcome)
        /\ trials' = trials \cup {TrialRow(run[r].of, TrialRecord(r), run[r].outcome)}
    BY DEF RecordRun
  <2>3. QED
    BY <1>1, <1>5, <2>1, <2>2, RowFits, TrialKeeps
<1>11. QED
  BY <1>5, <1>6, <1>7, <1>8, <1>9, <1>10, RunStep

\* A run that fails, in its process or at a recovery.
LEMMA FailedRunKeeps ==
    ASSUME SkillsInv, NEW r \in TrialRuns, run[r].of \in Commissions, lease[run[r].of].run = r,
           run' = [run EXCEPT ![r].stage = "failed"], MoveTrialTask(r, "failed"),
           lease' = [lease EXCEPT ![run[r].of] = Freed],
           executing' \in [TrialRuns -> {"none"} \cup RunningStages],
           \A q \in TrialRuns \ {r} : executing'[q] = executing[q],
           UNCHANGED <<commission, replies, drafts, flowTask, trials, overlay>>
    PROVE  SkillsInv'
<1> DEFINE new == [run[r] EXCEPT !.stage = "failed"]
<1>1. new \in RunTypes /\ new.of = run[r].of /\ new.stage = "failed"
  BY SkillsKnown DEF RunTypes, RunStages
<1>2. Freed \in LeaseTypes /\ Freed.run = NoTrialRun
  BY DEF Freed, LeaseTypes
<1>3. run' = [run EXCEPT ![r] = new]
  OBVIOUS
<1> HIDE DEF new
<1>4. TrialRunsInv'
  BY <1>1, <1>2, <1>3, RunMoves
<1>5. run' \in [TrialRuns -> RunTypes] /\ lease' \in [Commissions -> LeaseTypes]
  BY <1>1, <1>2, <1>3, SkillsKnown
<1>6. trialTask' \in [TrialRuns -> TaskStatuses]
  BY TaskMoves DEF TaskStatuses
<1>7. QED
  BY <1>4, <1>5, <1>6, SkillsKnown, SameCommissions, RunStep

LEMMA RunFailsKeeps ==
    ASSUME SkillsInv, NEW r \in TrialRuns, RunFails(r) \/ RecoverRun(r)
    PROVE  SkillsInv'
<1>1. UNCHANGED <<commission, replies, drafts, flowTask, trials, overlay>>
  BY DEF RunFails, RecoverRun
<1>2. CASE RecoverRun(r)
  <2>1. run[r].of \in Commissions /\ lease[run[r].of].run = r
    BY <1>2 DEF RecoverRun, SkillsInv, TrialRunsInv, Unfinished, RunningStages
  <2>2. QED
    BY <1>1, <1>2, <2>1, SkillsKnown, FailedRunKeeps DEF RecoverRun
<1>3. CASE RunFails(r) /\ Owns(r)
  <2>1. run[r].of \in Commissions /\ lease[run[r].of].run = r
    BY <1>3, OwnerHolds DEF RunFails
  <2>2. /\ executing' \in [TrialRuns -> {"none"} \cup RunningStages]
        /\ \A q \in TrialRuns \ {r} : executing'[q] = executing[q]
    BY <1>3, SkillsKnown DEF RunFails
  <2>3. QED
    BY <1>1, <1>3, <2>1, <2>2, FailedRunKeeps DEF RunFails
<1>4. CASE RunFails(r) /\ ~Owns(r)
  <2>1. UNCHANGED <<run, trialTask, lease>>
    BY <1>4 DEF RunFails
  <2>2. /\ executing' \in [TrialRuns -> {"none"} \cup RunningStages]
        /\ \A q \in TrialRuns : executing'[q] # "none" => executing[q] # "none"
    BY <1>4, SkillsKnown DEF RunFails
  <2>3. TrialRunsInv'
    BY <2>1, <2>2, SameRuns
  <2>4. QED
    BY <1>1, <2>1, <2>2, <2>3, SkillsKnown, SameCommissions, RunStep
<1>5. QED
  BY <1>2, <1>3, <1>4

\* A lease that runs out or is renewed, and a process that ends.
LEMMA LeaseKeeps ==
    ASSUME SkillsInv,
           \/ \E c \in Commissions : ExpireLease(c)
           \/ \E r \in TrialRuns : Heartbeat(r)
    PROVE  SkillsInv'
<1>1. UNCHANGED <<commission, replies, drafts, flowTask, trials, run, trialTask, executing, overlay>>
  BY DEF ExpireLease, Heartbeat
<1>2. /\ lease' \in [Commissions -> LeaseTypes]
      /\ \A c \in Commissions : lease'[c].run = lease[c].run /\ lease'[c].claimed = lease[c].claimed
  <2>1. \A cr \in LeaseTypes, live \in BOOLEAN :
            LET new == [cr EXCEPT !.live = live]
            IN  new \in LeaseTypes /\ new.run = cr.run /\ new.claimed = cr.claimed
    BY DEF LeaseTypes
  <2>2. \E o \in Commissions, live \in BOOLEAN : lease' = [lease EXCEPT ![o].live = live]
    BY OwnerHolds DEF ExpireLease, Heartbeat, Renewed
  <2>3. QED
    BY <2>1, <2>2, SkillsKnown
<1>3. TrialRunsInv'
  BY <1>1, <1>2, SameRuns
<1>4. QED
  BY <1>1, <1>2, <1>3, SkillsKnown, SameCommissions, RunStep

LEMMA RestKeepsSkills ==
    ASSUME SkillsInv,
           \/ \E t \in FlowTasks : PrepareTask(t) \/ MoveTask(t)
           \/ \E a \in Additions : ProposeAddition(a) \/ ApproveAddition(a)
           \/ StopGateway \/ UNCHANGED skillVars
    PROVE  SkillsInv'
<1>1. UNCHANGED <<commission, drafts, trials, run, trialTask, lease>>
  BY DEF PrepareTask, MoveTask, ProposeAddition, ApproveAddition, StopGateway, skillVars, runVars
<1>2. /\ executing' \in [TrialRuns -> {"none"} \cup RunningStages]
      /\ \A r \in TrialRuns : executing'[r] # "none" => executing[r] # "none"
      /\ replies' \in [Commissions -> {"none", "fresh", "stale"}]
  BY SkillsKnown DEF PrepareTask, MoveTask, ProposeAddition, ApproveAddition, StopGateway, skillVars, runVars
<1>3. flowTask' \in [FlowTasks -> FlowTypes]
  <2>1. ASSUME NEW t \in FlowTasks, PrepareTask(t)
        PROVE  flowTask' \in [FlowTasks -> FlowTypes]
    <3>1. PICK loaded \in Loads, ok \in BOOLEAN :
              flowTask' = [flowTask EXCEPT ![t].state = "open", ![t].loaded = loaded, ![t].accepted = ok]
      BY <2>1, LoadedFits DEF PrepareTask
    <3>2. QED
      BY <3>1, SkillsKnown DEF FlowTypes
  <2>2. ASSUME NEW t \in FlowTasks, MoveTask(t)
        PROVE  flowTask' \in [FlowTasks -> FlowTypes]
    BY <2>2, SkillsKnown DEF MoveTask, FlowTypes
  <2>3. QED
    BY <2>1, <2>2, SkillsKnown DEF ProposeAddition, ApproveAddition, StopGateway, skillVars
<1>4. overlay' \in [version: Nat, base: [Additions -> Nat],
                    status: [Additions -> {"absent", "pending", "approved"}]]
  <2>1. overlay \in [version: Nat, base: [Additions -> Nat],
                     status: [Additions -> {"absent", "pending", "approved"}]]
    BY DEF SkillsInv, SkillsTypeOK
  <2>2. CASE \E a \in Additions : ProposeAddition(a)
    <3>1. PICK a \in Additions :
              overlay' = [overlay EXCEPT !.status[a] = "pending", !.base[a] = overlay.version]
      BY <2>2 DEF ProposeAddition
    <3> DEFINE st == [overlay.status EXCEPT ![a] = "pending"]
               ba == [overlay.base EXCEPT ![a] = overlay.version]
    <3>2. st \in [Additions -> {"absent", "pending", "approved"}] /\ ba \in [Additions -> Nat]
      BY <2>1
    <3>3. overlay' = [overlay EXCEPT !.status = st, !.base = ba]
      BY <2>1, <3>1
    <3> HIDE DEF st, ba
    <3>4. QED
      BY <2>1, <3>2, <3>3
  <2>3. CASE \E a \in Additions : ApproveAddition(a)
    <3>1. PICK a \in Additions :
              overlay' = [overlay EXCEPT !.status[a] = "approved", !.version = @ + 1]
      BY <2>3 DEF ApproveAddition
    <3> DEFINE st == [overlay.status EXCEPT ![a] = "approved"]
    <3>2. st \in [Additions -> {"absent", "pending", "approved"}] /\ overlay.version + 1 \in Nat
      BY <2>1
    <3>3. overlay' = [overlay EXCEPT !.status = st, !.version = overlay.version + 1]
      BY <2>1, <3>1
    <3> HIDE DEF st
    <3>4. QED
      BY <2>1, <3>2, <3>3
  <2>4. CASE UNCHANGED overlay
    BY <2>1, <2>4
  <2>5. QED
    BY <2>2, <2>3, <2>4 DEF PrepareTask, MoveTask, StopGateway, skillVars
<1>5. SkillsTypeOK'
  BY <1>1, <1>2, <1>3, <1>4
  DEF SkillsInv, SkillsTypeOK, FlowTypes, EvidenceIds, Loads
<1>6. CommissionsInv' /\ TrialRunsInv'
  BY <1>1, <1>2, SameCommissions, SameRuns
<1>7. QED
  BY <1>5, <1>6 DEF SkillsInv

LEMMA SkillsInvInductive ==
    ASSUME SkillsInv, [SkillsNext]_skillVars
    PROVE  SkillsInv'
  BY DialogueKeeps, ActivationKeeps, RecordTrialKeeps, StartRunKeeps, ClaimKeeps, StagesKeep,
     RecordRunKeeps, RunFailsKeeps, LeaseKeeps, RestKeepsSkills DEF SkillsNext

LEMMA SkillsInvHolds == SkillsSpec => []SkillsInv
  BY SkillsInvInit, SkillsInvInductive, PTL DEF SkillsSpec

\* Commissions, trials, runs, tasks, leases and the overlay keep their types.
THEOREM SkillsTypeCorrect == SkillsSpec => []SkillsTypeOK
<1>1. SkillsInv => SkillsTypeOK
  BY DEF SkillsInv
<1>2. QED
  BY <1>1, SkillsInvHolds, PTL

\* Any number of commissions and any number of accepted trials asked for: the
\* package in a member's hands has passed them, and there is one.
THEOREM ActivationsEarned == SkillsSpec => []ActivationEarned
<1>1. ASSUME SkillsInv
      PROVE  ActivationEarned
  <2>1. ASSUME NEW c \in Commissions
        PROVE  {t \in AcceptedTrials(c) : t.pkg = commission[c].pkg} = AcceptedTrials(c)
    BY <1>1 DEF AcceptedTrials, SkillsInv, CommissionsInv
  <2>2. QED
    BY <1>1, <2>1 DEF SkillsInv, CommissionsInv, ActivationEarned
<1>2. QED
  BY <1>1, SkillsInvHolds, PTL

\* A process writes into a run only while it owns the lease of the commission,
\* and a run that has ended owns none.
THEOREM EndedRunsStay == SkillsSpec => SettledRunsStay
<1> DEFINE Stay == \A r \in TrialRuns : run[r].stage \in {"completed", "failed"} => run'[r] = run[r]
<1>1. ASSUME SkillsInv, [SkillsNext]_skillVars
      PROVE  Stay
  <2> SUFFICES ASSUME NEW r \in TrialRuns, run[r].stage \in {"completed", "failed"}
               PROVE  run'[r] = run[r]
    OBVIOUS
  <2>1. ~Unfinished(r) /\ run[r].stage # "absent"
    BY <1>1 DEF Unfinished, RunningStages
  <2>2. \A q \in TrialRuns : run[q].stage # run[r].stage => q # r
    OBVIOUS
  <2>3. run \in [TrialRuns -> RunTypes]
    BY <1>1, SkillsKnown
  <2>4. ASSUME NEW q \in TrialRuns, executing[q] # "none", Owns(q)
        PROVE  q # r
    BY <1>1, <2>1, <2>4, OwnerHolds DEF Unfinished
  <2>5. CASE \E q \in TrialRuns, c \in Commissions : StartRun(q, c)
    BY <2>1, <2>3, <2>5 DEF StartRun
  <2>6. CASE \E q \in TrialRuns : ClaimRun(q)
    BY <1>1, <2>3, <2>6 DEF ClaimRun
  <2>7. CASE \E q \in TrialRuns : RunBaseline(q) \/ RunTrial(q) \/ ReviewRun(q)
    BY <2>3, <2>4, <2>7 DEF RunBaseline, RunTrial, ReviewRun, NextStage
  <2>8. CASE \E q \in TrialRuns : RecordRun(q)
    BY <2>3, <2>4, <2>8 DEF RecordRun
  <2>9. CASE \E q \in TrialRuns : RunFails(q)
    BY <2>3, <2>4, <2>9 DEF RunFails
  <2>10. CASE \E q \in TrialRuns : RecoverRun(q)
    BY <2>1, <2>3, <2>10 DEF RecoverRun, Unfinished
  <2>11. CASE UNCHANGED run
    BY <2>11
  <2>12. QED
    BY <1>1, <2>5, <2>6, <2>7, <2>8, <2>9, <2>10, <2>11
    DEF SkillsNext, AddMessage, ChiefReplies, ReplyLost, ValidatePackage, CancelCommission,
        ProposeActivation, Activate, Rollback, ExpireLease, RecordTrial, PrepareTask, MoveTask,
        Heartbeat, StopGateway, ProposeAddition, ApproveAddition, skillVars, runVars
<1>2. []SkillsInv /\ [][SkillsNext]_skillVars => [][Stay]_skillVars
  BY <1>1, PTL
<1>3. QED
  BY <1>2, SkillsInvHolds, PTL DEF SkillsSpec, SettledRunsStay

-----------------------------------------------------------------------------
(****************************************************************************)
(* SPECIALIST TASKS. Why a key has one job and an envelope claims no more   *)
(* than its job: the map that keys are looked up in has every stored job    *)
(* once hydration is over, and an envelope refers to a success only after   *)
(* the job was saved as one.                                                *)
(****************************************************************************)

JobTypes == [status: JobStatuses, kind: {"git", "watch"}, key: Keys \cup {NoKey}]

TaskRowTypes == [status: EnvelopeStatuses, ref: BOOLEAN]

\* What is known of one job: a caller's key is that of a watch, a job that
\* executes has not ended before it reports, and an envelope that says or
\* refers to a success has one.
JobInv(i) ==
    /\ job[i].key # NoKey => job[i].kind = "watch"
    /\ call[i] \in Steps \ {"none", "reporting", "recovering"} => job[i].status \in {"queued", "running"}
    /\ call[i] = "reporting" => job[i].status \in {"completed", "failed"}
    /\ call[i] = "recovering" => job[i].status = "failed"
    /\ taskRow[i].status = "absent" => ~taskRow[i].ref
    /\ \/ taskRow[i].ref
       \/ taskRow[i].status \in {"waiting_approval", "waiting_external", "completed"}
       => job[i].status \in {"absent", "completed"}

\* Once the hydration is over, the map has all that the store has.
TasksInv ==
    /\ TasksTypeOK
    /\ \A i \in Jobs : JobInv(i)
    /\ gateway = "up" => Unread = {}
    /\ OneJobPerKey

LEMMA TasksKnown ==
    ASSUME TasksInv
    PROVE  /\ job \in [Jobs -> JobTypes] /\ jobMap \in [Jobs -> JobStatuses]
           /\ taskRow \in [Jobs -> TaskRowTypes] /\ call \in [Jobs -> Steps]
  BY DEF TasksInv, TasksTypeOK, JobTypes, TaskRowTypes

LEMMA TasksInvInit == TasksInit => TasksInv
<1> SUFFICES ASSUME TasksInit
             PROVE  TasksInv
  OBVIOUS
<1>1. NoJob \in JobTypes /\ NoEnvelope \in TaskRowTypes
  BY DEF NoJob, NoEnvelope, JobTypes, JobStatuses, TaskRowTypes, EnvelopeStatuses
<1>2. TasksTypeOK
  BY <1>1, TasksAssumption
  DEF TasksInit, TasksTypeOK, JobTypes, TaskRowTypes, JobStatuses, Steps
<1>3. \A i \in Jobs : JobInv(i)
  BY DEF TasksInit, JobInv, NoJob, NoEnvelope
<1>4. OneJobPerKey /\ Unread = {}
  BY DEF TasksInit, OneJobPerKey, Unread, NoJob
<1>5. QED
  BY <1>2, <1>3, <1>4 DEF TasksInv

\* A step that concerns one job.
LEMMA JobStep ==
    ASSUME TasksInv, NEW i \in Jobs, TasksTypeOK', UNCHANGED gateway,
           \A j \in Jobs \ {i} : /\ job'[j] = job[j] /\ jobMap'[j] = jobMap[j]
                                 /\ taskRow'[j] = taskRow[j] /\ call'[j] = call[j],
           JobInv(i)',
           job'[i].status # "absent" /\ jobMap'[i] = "absent"
               => job[i].status # "absent" /\ jobMap[i] = "absent",
           \/ job'[i].status = "absent"
           \/ job'[i].key = job[i].key /\ job[i].status # "absent"
           \/ \A j \in Jobs : job[j].status # "absent" /\ job'[i].key # NoKey => job[j].key # job'[i].key
    PROVE  TasksInv'
<1>1. ASSUME NEW j \in Jobs
      PROVE  JobInv(j)'
  BY DEF TasksInv, JobInv
<1>2. Unread' \subseteq Unread
  BY DEF Unread
<1>3. OneJobPerKey'
  <2> SUFFICES ASSUME NEW a \in Jobs, NEW b \in Jobs,
                      job'[a].status # "absent", job'[a].key # NoKey,
                      job'[b].status # "absent", job'[b].key = job'[a].key
               PROVE  a = b
    BY DEF OneJobPerKey
  <2>1. QED
    BY DEF TasksInv, OneJobPerKey
<1>4. QED
  BY <1>1, <1>2, <1>3 DEF TasksInv

\* What a step writes of a job, row by row.
LEMMA RowsWritten ==
    ASSUME TasksInv, NEW i \in Jobs
    PROVE  /\ \A s \in JobStatuses : job' = [job EXCEPT ![i].status = s] =>
                  /\ job' \in [Jobs -> JobTypes] /\ job'[i].status = s
                  /\ job'[i].key = job[i].key /\ job'[i].kind = job[i].kind
                  /\ \A j \in Jobs \ {i} : job'[j] = job[j]
           /\ \A s \in JobStatuses : jobMap' = [jobMap EXCEPT ![i] = s] =>
                  /\ jobMap' \in [Jobs -> JobStatuses] /\ jobMap'[i] = s
                  /\ \A j \in Jobs \ {i} : jobMap'[j] = jobMap[j]
           /\ \A e \in TaskRowTypes : taskRow' = [taskRow EXCEPT ![i] = e] =>
                  /\ taskRow' \in [Jobs -> TaskRowTypes] /\ taskRow'[i] = e
                  /\ \A j \in Jobs \ {i} : taskRow'[j] = taskRow[j]
           /\ \A s \in EnvelopeStatuses : taskRow' = [taskRow EXCEPT ![i].status = s] =>
                  /\ taskRow' \in [Jobs -> TaskRowTypes]
                  /\ taskRow'[i].status = s /\ taskRow'[i].ref = taskRow[i].ref
                  /\ \A j \in Jobs \ {i} : taskRow'[j] = taskRow[j]
           /\ \A pc \in Steps : call' = [call EXCEPT ![i] = pc] =>
                  /\ call' \in [Jobs -> Steps] /\ call'[i] = pc
                  /\ \A j \in Jobs \ {i} : call'[j] = call[j]
<1>1. /\ job \in [Jobs -> JobTypes] /\ jobMap \in [Jobs -> JobStatuses]
      /\ taskRow \in [Jobs -> TaskRowTypes] /\ call \in [Jobs -> Steps]
  BY TasksKnown
<1>2. \A s \in JobStatuses : job' = [job EXCEPT ![i].status = s] =>
          /\ job' \in [Jobs -> JobTypes] /\ job'[i].status = s
          /\ job'[i].key = job[i].key /\ job'[i].kind = job[i].kind
          /\ \A j \in Jobs \ {i} : job'[j] = job[j]
  <2> HIDE DEF JobStatuses
  <2>1. QED
    BY <1>1 DEF JobTypes
<1>3. \A s \in EnvelopeStatuses : taskRow' = [taskRow EXCEPT ![i].status = s] =>
          /\ taskRow' \in [Jobs -> TaskRowTypes]
          /\ taskRow'[i].status = s /\ taskRow'[i].ref = taskRow[i].ref
          /\ \A j \in Jobs \ {i} : taskRow'[j] = taskRow[j]
  BY <1>1 DEF TaskRowTypes
<1>4. QED
  BY <1>1, <1>2, <1>3

LEMMA TasksTyped ==
    ASSUME TasksInv, UNCHANGED <<gateway, crashes>>, job' \in [Jobs -> JobTypes],
           jobMap' \in [Jobs -> JobStatuses], taskRow' \in [Jobs -> TaskRowTypes],
           call' \in [Jobs -> Steps]
    PROVE  TasksTypeOK'
  BY DEF TasksInv, TasksTypeOK, JobTypes, TaskRowTypes

LEMMA EnqueueKeeps ==
    ASSUME TasksInv, NEW i \in Jobs, NEW kind \in {"git", "watch"}, NEW key \in Keys \cup {NoKey},
           Enqueue(i, kind, key)
    PROVE  TasksInv'
<1> DEFINE new == [status |-> "queued", kind |-> kind, key |-> key]
<1>1. /\ job' = [job EXCEPT ![i] = new] /\ jobMap' = [jobMap EXCEPT ![i] = "queued"]
      /\ call' = [call EXCEPT ![i] = "binding"] /\ UNCHANGED <<taskRow, gateway, crashes>>
  BY DEF Enqueue, Goto
<1>2. new \in JobTypes /\ "queued" \in JobStatuses /\ "binding" \in Steps
  BY DEF JobTypes, JobStatuses, Steps
<1>3. job' \in [Jobs -> JobTypes] /\ job'[i] = new /\ \A j \in Jobs \ {i} : job'[j] = job[j]
  BY <1>1, <1>2, TasksKnown
<1>4. /\ jobMap' \in [Jobs -> JobStatuses] /\ jobMap'[i] = "queued"
      /\ call' \in [Jobs -> Steps] /\ call'[i] = "binding"
      /\ \A j \in Jobs \ {i} : jobMap'[j] = jobMap[j] /\ call'[j] = call[j]
  BY <1>1, <1>2, RowsWritten
<1>5. taskRow[i].status = "absent" /\ ~taskRow[i].ref
  BY DEF Enqueue, TasksInv, JobInv
<1>6. key # NoKey => kind = "watch"
  BY DEF Enqueue, Admitted
<1>7. JobInv(i)'
  BY <1>1, <1>3, <1>4, <1>5, <1>6 DEF JobInv
<1>8. ASSUME NEW j \in Jobs, job[j].status # "absent", key # NoKey
      PROVE  job[j].key # key
  <2>1. gateway = "up" /\ Existing(key) = {}
    BY <1>8 DEF Enqueue, Admitted
  <2>2. jobMap[j] # "absent"
    BY <1>8, <2>1 DEF TasksInv, Unread
  <2>3. job[j].key = key => job[j].kind = "watch"
    BY <1>8 DEF TasksInv, JobInv
  <2>4. QED
    BY <2>1, <2>2, <2>3 DEF Existing
<1>9. TasksTypeOK'
  BY <1>1, <1>3, <1>4, TasksKnown, TasksTyped
<1>10. QED
  BY <1>1, <1>3, <1>4, <1>7, <1>8, <1>9, JobStep

LEMMA ExecuteKeeps ==
    ASSUME TasksInv, NEW i \in Jobs,
           \/ Bind(i) \/ CreateEnvelope(i) \/ Start(i) \/ Announce(i)
           \/ \E outcome \in {"served", "broken"} : Serve(i, outcome)
           \/ SaveEnd(i) \/ Report(i)
    PROVE  TasksInv'
<1>1. /\ JobInv(i) /\ taskRow[i] \in TaskRowTypes /\ UNCHANGED <<gateway, crashes>>
      /\ job \in [Jobs -> JobTypes] /\ jobMap \in [Jobs -> JobStatuses]
      /\ taskRow \in [Jobs -> TaskRowTypes]
  BY TasksKnown DEF TasksInv, Bind, CreateEnvelope, Start, Announce, Serve, SaveEnd, Report
<1>2. CASE Bind(i) \/ \E outcome \in {"served", "broken"} : Serve(i, outcome)
  <2>1. /\ UNCHANGED <<job, jobMap, taskRow>>
        /\ job[i].status \in {"queued", "running"}
    BY <1>1, <1>2 DEF Bind, Serve, JobInv, Steps
  <2>2. \E pc \in {"creating", "none", "served", "broken"} : call' = [call EXCEPT ![i] = pc]
    BY <1>2 DEF Bind, Serve, Goto
  <2>3. /\ call' \in [Jobs -> Steps] /\ call'[i] \notin {"reporting", "recovering"}
        /\ \A j \in Jobs \ {i} : call'[j] = call[j]
    BY <2>2, RowsWritten DEF Steps
  <2>4. JobInv(i)'
    BY <1>1, <2>1, <2>3 DEF JobInv
  <2>5. QED
    BY <1>1, <2>1, <2>3, <2>4, TasksTyped, JobStep
<1>3. CASE CreateEnvelope(i) \/ Announce(i)
  <2>1. UNCHANGED <<job, jobMap>> /\ job[i].status \in {"queued", "running"}
    BY <1>1, <1>3 DEF CreateEnvelope, Announce, JobInv, Steps
  <2>2. \E pc \in {"starting", "serving"} : call' = [call EXCEPT ![i] = pc]
    BY <1>3 DEF CreateEnvelope, Announce, Goto
  <2>3. /\ call' \in [Jobs -> Steps] /\ call'[i] \notin {"reporting", "recovering"}
        /\ \A j \in Jobs \ {i} : call'[j] = call[j]
    BY <2>2, RowsWritten DEF Steps
  <2>4. \E s \in {"queued", "running"} : taskRow' = [taskRow EXCEPT ![i].status = s]
    BY <1>3 DEF CreateEnvelope, Announce
  <2>5. /\ taskRow' \in [Jobs -> TaskRowTypes]
        /\ taskRow'[i].status \in {"queued", "running"} /\ taskRow'[i].ref = taskRow[i].ref
        /\ \A j \in Jobs \ {i} : taskRow'[j] = taskRow[j]
    BY <2>4, RowsWritten DEF EnvelopeStatuses
  <2>6. JobInv(i)'
    BY <1>1, <2>1, <2>3, <2>5 DEF JobInv
  <2>7. QED
    BY <1>1, <2>1, <2>3, <2>5, <2>6, TasksTyped, JobStep
<1>4. CASE Start(i) \/ SaveEnd(i)
  <2>1. UNCHANGED taskRow /\ job[i].status \in {"queued", "running"}
    BY <1>1, <1>4 DEF Start, SaveEnd, JobInv, Steps
  <2>2. PICK s \in {"running", "completed", "failed"} :
            /\ job' = [job EXCEPT ![i].status = s] /\ jobMap' = [jobMap EXCEPT ![i] = s]
            /\ call' = [call EXCEPT ![i] = IF s = "running" THEN "announcing" ELSE "reporting"]
    <3>1. CASE Start(i)
      BY <3>1 DEF Start, SetJob, Goto
    <3>2. CASE SaveEnd(i)
      BY <3>2 DEF SaveEnd, SetJob, Goto
    <3>3. QED
      BY <1>4, <3>1, <3>2
  <2>3. s \in JobStatuses /\ (IF s = "running" THEN "announcing" ELSE "reporting") \in Steps
    BY DEF JobStatuses, Steps
  <2>4. /\ job' \in [Jobs -> JobTypes] /\ job'[i].status = s
        /\ job'[i].key = job[i].key /\ job'[i].kind = job[i].kind
        /\ \A j \in Jobs \ {i} : job'[j] = job[j]
    BY <2>2, <2>3, RowsWritten
  <2>5. /\ jobMap' \in [Jobs -> JobStatuses] /\ jobMap'[i] = s
        /\ \A j \in Jobs \ {i} : jobMap'[j] = jobMap[j]
    BY <2>2, <2>3, RowsWritten
  <2>6. /\ call' \in [Jobs -> Steps]
        /\ call'[i] = IF s = "running" THEN "announcing" ELSE "reporting"
        /\ \A j \in Jobs \ {i} : call'[j] = call[j]
    BY <2>2, <2>3, RowsWritten
  <2>7. JobInv(i)'
    BY <1>1, <2>1, <2>4, <2>6 DEF JobInv
  <2>8. QED
    BY <1>1, <2>1, <2>4, <2>5, <2>6, <2>7, TasksTyped, JobStep
<1>5. CASE Report(i)
  <2> DEFINE e == [status |-> Reported(i), ref |-> job[i].status = "completed"]
  <2>1. /\ taskRow' = [taskRow EXCEPT ![i] = e] /\ call' = [call EXCEPT ![i] = "none"]
        /\ UNCHANGED <<job, jobMap>>
    BY <1>5 DEF Report, Goto
  <2>2. job[i].status \in {"completed", "failed"}
    BY <1>1, <1>5 DEF JobInv, Report
  <2>3. /\ e \in TaskRowTypes /\ e.status # "absent"
        /\ e.ref \/ e.status \in {"waiting_approval", "waiting_external", "completed"}
               => job[i].status = "completed"
    BY <2>2 DEF Reported, TaskRowTypes, EnvelopeStatuses
  <2> HIDE DEF e
  <2>4. /\ taskRow' \in [Jobs -> TaskRowTypes] /\ taskRow'[i] = e
        /\ \A j \in Jobs \ {i} : taskRow'[j] = taskRow[j]
    BY <2>1, <2>3, RowsWritten
  <2>5. /\ call' \in [Jobs -> Steps] /\ call'[i] = "none"
        /\ \A j \in Jobs \ {i} : call'[j] = call[j]
    BY <2>1, RowsWritten DEF Steps
  <2>6. JobInv(i)'
    BY <1>1, <2>1, <2>3, <2>4, <2>5 DEF JobInv
  <2>7. QED
    BY <1>1, <2>1, <2>4, <2>5, <2>6, TasksTyped, JobStep
<1>6. QED
  BY <1>2, <1>3, <1>4, <1>5

LEMMA EnvelopeKeeps ==
    ASSUME TasksInv, NEW i \in Jobs, RunScheduled(i) \/ \E s \in Synced : Sync(i, s)
    PROVE  TasksInv'
<1>1. /\ UNCHANGED <<job, jobMap, call, gateway, crashes>> /\ JobInv(i)
      /\ job \in [Jobs -> JobTypes] /\ jobMap \in [Jobs -> JobStatuses] /\ call \in [Jobs -> Steps]
  BY TasksKnown DEF TasksInv, RunScheduled, Sync
<1>2. /\ taskRow' \in [Jobs -> TaskRowTypes] /\ taskRow'[i].status # "absent"
      /\ job[i].status \in {"absent", "completed"}
      /\ \A j \in Jobs \ {i} : taskRow'[j] = taskRow[j]
  <2>1. CASE RunScheduled(i)
    <3>1. [status |-> "completed", ref |-> TRUE] \in TaskRowTypes
      BY DEF TaskRowTypes, EnvelopeStatuses
    <3>2. QED
      BY <2>1, <3>1, RowsWritten DEF RunScheduled
  <2>2. ASSUME NEW s \in Synced, Sync(i, s)
        PROVE  /\ taskRow' \in [Jobs -> TaskRowTypes] /\ taskRow'[i].status # "absent"
               /\ job[i].status \in {"absent", "completed"}
               /\ \A j \in Jobs \ {i} : taskRow'[j] = taskRow[j]
    BY <1>1, <2>2, RowsWritten DEF Sync, JobInv, Synced, EnvelopeStatuses
  <2>3. QED
    BY <2>1, <2>2
<1>3. JobInv(i)'
  BY <1>1, <1>2 DEF JobInv, Steps
<1>4. QED
  BY <1>1, <1>2, <1>3, TasksTyped, JobStep

LEMMA HydrateKeeps ==
    ASSUME TasksInv, NEW i \in Jobs, HydrateSettled(i) \/ FailInterrupted(i) \/ FailEnvelope(i)
    PROVE  TasksInv'
<1>1. /\ JobInv(i) /\ UNCHANGED <<gateway, crashes>>
      /\ job \in [Jobs -> JobTypes] /\ jobMap \in [Jobs -> JobStatuses]
      /\ taskRow \in [Jobs -> TaskRowTypes] /\ call \in [Jobs -> Steps] /\ job[i].status \in JobStatuses
  BY TasksKnown DEF TasksInv, HydrateSettled, FailInterrupted, FailEnvelope, JobTypes
<1>2. CASE HydrateSettled(i)
  <2>1. /\ UNCHANGED <<job, taskRow, call>> /\ job[i].status # "absent"
        /\ jobMap' = [jobMap EXCEPT ![i] = job[i].status]
    BY <1>2 DEF HydrateSettled, Unread
  <2>2. /\ jobMap' \in [Jobs -> JobStatuses] /\ jobMap'[i] # "absent"
        /\ \A j \in Jobs \ {i} : jobMap'[j] = jobMap[j]
    BY <1>1, <2>1, RowsWritten
  <2>3. JobInv(i)'
    BY <1>1, <2>1 DEF JobInv
  <2>4. QED
    BY <1>1, <2>1, <2>2, <2>3, TasksTyped, JobStep
<1>3. CASE FailInterrupted(i)
  <2>1. /\ job[i].status \in {"queued", "running"} /\ job' = [job EXCEPT ![i].status = "failed"]
        /\ UNCHANGED <<jobMap, taskRow>> /\ call' = [call EXCEPT ![i] = "recovering"]
    BY <1>3 DEF FailInterrupted, Interrupted, Goto
  <2>2. /\ job' \in [Jobs -> JobTypes] /\ job'[i].status = "failed"
        /\ job'[i].key = job[i].key /\ job'[i].kind = job[i].kind
        /\ \A j \in Jobs \ {i} : job'[j] = job[j]
    BY <2>1, RowsWritten DEF JobStatuses
  <2>3. /\ call' \in [Jobs -> Steps] /\ call'[i] = "recovering"
        /\ \A j \in Jobs \ {i} : call'[j] = call[j]
    BY <2>1, RowsWritten DEF Steps
  <2>4. JobInv(i)'
    BY <1>1, <2>1, <2>2, <2>3 DEF JobInv
  <2>5. QED
    BY <1>1, <2>1, <2>2, <2>3, <2>4, TasksTyped, JobStep
<1>4. CASE FailEnvelope(i)
  <2> DEFINE e == IF taskRow[i].status \in {"queued", "running"}
                  THEN [status |-> "failed", ref |-> FALSE] ELSE taskRow[i]
  <2>1. /\ job[i].status = "failed" /\ jobMap' = [jobMap EXCEPT ![i] = job[i].status]
        /\ call' = [call EXCEPT ![i] = "none"] /\ UNCHANGED job
    BY <1>1, <1>4 DEF FailEnvelope, Goto, JobInv
  <2>2. taskRow' = [taskRow EXCEPT ![i] = e]
    BY <1>1, <1>4 DEF FailEnvelope
  <2>3. /\ e \in TaskRowTypes
        /\ e.status = "absent" => ~e.ref
        /\ ~(e.ref \/ e.status \in {"waiting_approval", "waiting_external", "completed"})
    BY <1>1, <2>1 DEF JobInv, TaskRowTypes, EnvelopeStatuses
  <2> HIDE DEF e
  <2>4. /\ taskRow' \in [Jobs -> TaskRowTypes] /\ taskRow'[i] = e
        /\ \A j \in Jobs \ {i} : taskRow'[j] = taskRow[j]
    BY <2>2, <2>3, RowsWritten
  <2>5. /\ call' \in [Jobs -> Steps] /\ call'[i] = "none"
        /\ \A j \in Jobs \ {i} : call'[j] = call[j]
    BY <2>1, RowsWritten DEF Steps
  <2>6. /\ jobMap' \in [Jobs -> JobStatuses] /\ jobMap'[i] # "absent"
        /\ \A j \in Jobs \ {i} : jobMap'[j] = jobMap[j]
    BY <1>1, <2>1, RowsWritten
  <2>7. JobInv(i)'
    BY <1>1, <2>1, <2>3, <2>4, <2>5 DEF JobInv
  <2>8. QED
    BY <1>1, <2>1, <2>4, <2>5, <2>6, <2>7, TasksTyped, JobStep
<1>5. QED
  BY <1>2, <1>3, <1>4

LEMMA RestartKeeps ==
    ASSUME TasksInv, Crash \/ Boot \/ Ready \/ UNCHANGED taskVars
    PROVE  TasksInv'
<1>1. UNCHANGED <<job, taskRow>> /\ call' \in [Jobs -> Steps] /\ jobMap' \in [Jobs -> JobStatuses]
      /\ gateway' \in {"down", "hydrating", "up"} /\ crashes' \in 0..MaxCrashes
  BY TasksAssumption DEF TasksInv, TasksTypeOK, Crash, Boot, Ready, taskVars, Steps, JobStatuses
<1>2. ASSUME NEW j \in Jobs
      PROVE  JobInv(j)'
  <2>1. call'[j] = "none" \/ call'[j] = call[j]
    BY DEF Crash, Boot, Ready, taskVars
  <2>2. QED
    BY <1>1, <2>1 DEF TasksInv, JobInv
<1>3. gateway' = "up" => Unread' = {}
  BY DEF TasksInv, Crash, Boot, Ready, taskVars, Unread
<1>4. TasksTypeOK' /\ OneJobPerKey'
  BY <1>1 DEF TasksInv, TasksTypeOK, OneJobPerKey
<1>5. QED
  BY <1>2, <1>3, <1>4 DEF TasksInv

LEMMA TasksInvInductive ==
    ASSUME TasksInv, [TasksNext]_taskVars
    PROVE  TasksInv'
  BY EnqueueKeeps, ExecuteKeeps, EnvelopeKeeps, HydrateKeeps, RestartKeeps DEF TasksNext

LEMMA TasksInvHolds == TasksSpec => []TasksInv
  BY TasksInvInit, TasksInvInductive, PTL DEF TasksSpec

\* Jobs, envelopes and the map of the process keep their types.
THEOREM TasksTypeCorrect == TasksSpec => []TasksTypeOK
<1>1. TasksInv => TasksTypeOK
  BY DEF TasksInv
<1>2. QED
  BY <1>1, TasksInvHolds, PTL

\* A key is looked up only when the map has all jobs of the store, so no caller
\* and no restart makes two jobs of one key.
THEOREM KeysHaveOneJob == TasksSpec => []OneJobPerKey
<1>1. TasksInv => OneJobPerKey
  BY DEF TasksInv
<1>2. QED
  BY <1>1, TasksInvHolds, PTL

\* Wherever the process stops between a job and its envelope, the envelope is
\* not the one that claims success.
THEOREM EnvelopesStayBehind == TasksSpec => []EnvelopeBehindJob
<1>1. TasksInv => EnvelopeBehindJob
  BY DEF TasksInv, JobInv, EnvelopeBehindJob
<1>2. QED
  BY <1>1, TasksInvHolds, PTL

-----------------------------------------------------------------------------
(****************************************************************************)
(* SKILL REGISTRY. Why a preview was scanned: every digest of a listing,    *)
(* and every digest a request remembers of one, was taken by a scan, and a  *)
(* text is shown only if it still has that digest.                          *)
(****************************************************************************)

Statuses == {"none", "candidate", "active", "warning", "invalid"}

DiskTypes == [dir: BOOLEAN, md: 0..MaxTexts, status: Statuses]

EntryTypes == [listed: BOOLEAN, md: 0..MaxTexts, status: Statuses]

Listings == [Packages -> EntryTypes]

CacheTypes == [on: BOOLEAN, listing: Listings]

ScanTypes == [on: BOOLEAN, left: SUBSET Packages, read: SUBSET Packages, listing: Listings]

Gets == {"get", "reread", "reget"}

RequestTypes == [kind: {"none", "list", "read", "create", "update", "delete"},
                 pc: Gets \cup {"idle", "read", "choose", "remove", "mkdir", "write", "metadata"},
                 pkg: Packages, entry: EntryTypes, waiting: BOOLEAN]

\* A digest is that of a text some scan has read, or of none.
Hashed(entry) == entry.md = 0 \/ entry.md \in scanned

\* What is known of a request: only one for a listed package asks for it, and
\* what it remembers of the listing was scanned.
RequestInv(q) ==
    /\ q.pc \in {"get", "reread", "choose"} => q.kind \in {"list", "read", "update", "delete"}
    /\ q.waiting => q.pc \in Gets
    /\ Hashed(q.entry)

RegistryInv ==
    /\ RegistryTypeOK
    /\ disk \in [Packages -> DiskTypes]
    /\ cache \in CacheTypes /\ scan \in ScanTypes /\ req \in [Requests -> RequestTypes]
    /\ \A p \in Packages : Hashed(cache.listing[p]) /\ Hashed(scan.listing[p])
    /\ \A r \in Requests : RequestInv(req[r])
    /\ PreviewWasScanned

LEMMA NothingListed ==
    /\ NoPackage \in DiskTypes /\ NoEntry \in EntryTypes /\ NoEntry.md = 0
    /\ NoListing \in Listings /\ NoScan \in ScanTypes
    /\ \A p \in Packages : NoListing[p] = NoEntry
    /\ NoScan.listing = NoListing
<1>1. NoPackage \in DiskTypes /\ NoEntry \in EntryTypes /\ NoEntry.md = 0
  BY RegistryAssumption DEF NoPackage, NoEntry, DiskTypes, EntryTypes, Statuses
<1>2. NoListing \in Listings /\ \A p \in Packages : NoListing[p] = NoEntry
  BY <1>1 DEF NoListing, Listings
<1>3. QED
  BY <1>1, <1>2 DEF NoScan, ScanTypes

LEMMA IdleFits ==
    /\ Idle \in RequestTypes /\ Idle.pc = "idle" /\ ~Idle.waiting /\ Idle.entry = NoEntry
    /\ RequestInv(Idle)
<1>1. (CHOOSE p \in Packages : TRUE) \in Packages
  BY RegistryAssumption
<1>2. QED
  BY <1>1, NothingListed DEF Idle, RequestTypes, RequestInv, Hashed, Gets

LEMMA RegistryInvInit == RegistryInit => RegistryInv
<1> SUFFICES ASSUME RegistryInit
             PROVE  RegistryInv
  OBVIOUS
<1> DEFINE one == [dir |-> TRUE, md |-> 1, status |-> "candidate"]
<1>9. one \in DiskTypes /\ one.dir
  BY RegistryAssumption DEF DiskTypes, Statuses
<1>10. disk \in [Packages -> {NoPackage, one}]
  BY DEF RegistryInit
<1> HIDE DEF one
<1>1. disk \in [Packages -> DiskTypes]
  BY <1>9, <1>10, NothingListed
<1>2. \A p \in Packages : disk[p] = NoPackage \/ disk[p].dir
  BY <1>9, <1>10
<1>3. RegistryTypeOK
  BY <1>1, <1>2, NothingListed, RegistryAssumption
  DEF RegistryInit, RegistryTypeOK, DiskTypes, Statuses, NoScan
<1>4. cache \in CacheTypes /\ scan \in ScanTypes
  BY NothingListed DEF RegistryInit, CacheTypes
<1>5. \A p \in Packages : Hashed(cache.listing[p]) /\ Hashed(scan.listing[p])
  BY NothingListed DEF RegistryInit, Hashed
<1>6. req \in [Requests -> RequestTypes] /\ \A r \in Requests : RequestInv(req[r])
  BY IdleFits DEF RegistryInit
<1>7. QED
  BY <1>1, <1>3, <1>4, <1>5, <1>6 DEF RegistryInv, RegistryInit, PreviewWasScanned

LEMMA RegistryKnown ==
    ASSUME RegistryInv
    PROVE  /\ disk \in [Packages -> DiskTypes] /\ cache \in CacheTypes /\ scan \in ScanTypes
           /\ req \in [Requests -> RequestTypes]
           /\ cache.listing \in Listings /\ scan.listing \in Listings /\ written \in 1..MaxTexts
  BY DEF RegistryInv, RegistryTypeOK, CacheTypes, ScanTypes

\* What a request does with its entry keeps it in shape.
LEMMA FoundFits ==
    ASSUME RegistryInv, NEW q \in RequestTypes, RequestInv(q), q.pc \in Gets,
           NEW listing \in Listings, \A p \in Packages : Hashed(listing[p])
    PROVE  Found(q, listing) \in RequestTypes /\ RequestInv(Found(q, listing))
<1> DEFINE entry == listing[q.pkg]
           next == IF q.kind = "list" \/ q.pc = "reget" \/ ~entry.listed THEN "idle"
                   ELSE IF q.pc = "reread" \/ q.kind = "read" THEN "read"
                   ELSE IF q.kind = "update" THEN "choose" ELSE "remove"
           kept == IF q.pc = "reread" THEN [q.entry EXCEPT !.md = entry.md] ELSE entry
<1>1. entry \in EntryTypes /\ Hashed(entry)
  BY DEF RequestTypes, Listings
<1>2. /\ next \in {"idle", "read", "choose", "remove"}
      /\ next # "idle" => q.pc # "reget"
  <2> HIDE DEF entry
  <2>1. q.pc \in Gets /\ (q.pc \in {"get", "reread"} => q.kind \in {"list", "read", "update", "delete"})
    BY DEF RequestInv
  <2>2. CASE q.kind = "list" \/ q.pc = "reget" \/ ~entry.listed
    BY <2>1, <2>2 DEF Gets
  <2>3. CASE ~(q.kind = "list" \/ q.pc = "reget" \/ ~entry.listed)
    BY <2>1, <2>3 DEF Gets
  <2>4. QED
    BY <2>2, <2>3
<1>3. kept \in EntryTypes /\ Hashed(kept)
  BY <1>1 DEF RequestTypes, EntryTypes, Hashed
<1>4. Found(q, listing) = IF next = "idle" THEN Idle
                          ELSE [q EXCEPT !.pc = next, !.entry = kept, !.waiting = FALSE]
  BY DEF Found
<1> HIDE DEF next, kept
<1>5. CASE next = "idle"
  BY <1>4, <1>5, IdleFits
<1>6. CASE next # "idle"
  <2> DEFINE new == [q EXCEPT !.pc = next, !.entry = kept, !.waiting = FALSE]
  <2>1. new \in RequestTypes /\ new.pc = next /\ new.entry = kept /\ ~new.waiting
    BY <1>2, <1>3, <1>6 DEF RequestTypes
  <2>2. new.kind = q.kind /\ q.kind \in {"list", "read", "update", "delete"}
    BY <1>2, <1>6 DEF RequestTypes, RequestInv, Gets
  <2>3. RequestInv(new)
    BY <1>2, <1>3, <1>6, <2>1, <2>2 DEF RequestInv
  <2>4. QED
    BY <1>4, <1>6, <2>1, <2>3
<1>7. QED
  BY <1>5, <1>6

\* A request moves; the listings and the texts that were scanned stay.
LEMMA RequestKeeps ==
    ASSUME RegistryInv, UNCHANGED <<scan, scanned, activation>>,
           req' \in [Requests -> RequestTypes], \A r \in Requests : RequestInv(req'[r]),
           cache' \in CacheTypes, cache'.listing = cache.listing,
           disk' \in [Packages -> DiskTypes], \A p \in Packages : disk'[p].dir \/ disk'[p] = NoPackage,
           written' \in 1..MaxTexts, shown' \subseteq scanned
    PROVE  RegistryInv'
<1>1. RegistryTypeOK'
  BY DEF RegistryInv, RegistryTypeOK, DiskTypes, Statuses
<1>2. \A p \in Packages : Hashed(cache.listing[p])' /\ Hashed(scan.listing[p])'
  BY DEF RegistryInv, Hashed
<1>3. \A r \in Requests : RequestInv(req[r])'
  BY DEF RequestInv, Hashed
<1>4. QED
  BY <1>1, <1>2, <1>3 DEF RegistryInv, PreviewWasScanned

LEMMA DiskFits ==
    ASSUME RegistryInv
    PROVE  \A p \in Packages : disk[p].dir \/ disk[p] = NoPackage
  BY DEF RegistryInv, RegistryTypeOK

LEMMA RequestMoves ==
    ASSUME RegistryInv, NEW r \in Requests, NEW new \in RequestTypes, RequestInv(new),
           req' = [req EXCEPT ![r] = new]
    PROVE  req' \in [Requests -> RequestTypes] /\ \A s \in Requests : RequestInv(req'[s])
  BY DEF RegistryInv

LEMMA GoFits ==
    ASSUME RegistryInv, NEW r \in Requests, ~req[r].waiting,
           NEW pc \in {"write", "metadata", "choose", "read", "reread", "reget", "remove"},
           pc \in {"reread", "choose"} => req[r].kind \in {"list", "read", "update", "delete"}, Go(r, pc)
    PROVE  req' \in [Requests -> RequestTypes] /\ \A s \in Requests : RequestInv(req'[s])
<1> DEFINE new == [req[r] EXCEPT !.pc = pc]
<1>1. req[r] \in RequestTypes /\ RequestInv(req[r])
  BY DEF RegistryInv
<1>2. new \in RequestTypes /\ RequestInv(new)
  BY <1>1 DEF RequestTypes, RequestInv, Gets, Hashed
<1>3. req' = [req EXCEPT ![r] = new]
  BY DEF Go
<1> HIDE DEF new
<1>4. QED
  BY <1>2, <1>3, RequestMoves

LEMMA OtherStepsKeep ==
    ASSUME RegistryInv, PassTime \/ RegistryStop \/ (\E p \in Packages : Govern(p)) \/ UNCHANGED registryVars
    PROVE  RegistryInv'
<1>1. cache' \in CacheTypes /\ cache'.listing = cache.listing
  BY RegistryKnown DEF PassTime, RegistryStop, Govern, registryVars, CacheTypes
<1>2. /\ req' \in [Requests -> RequestTypes]
      /\ \A r \in Requests : RequestInv(req'[r])
      /\ scan' \in ScanTypes
      /\ \A p \in Packages : Hashed(scan'.listing[p])
  BY IdleFits, NothingListed DEF RegistryInv, PassTime, RegistryStop, Govern, registryVars, Hashed
<1>3. UNCHANGED <<disk, scanned, shown, written>>
  BY DEF PassTime, RegistryStop, Govern, registryVars
<1>4. activation' \in [Packages -> {"none", "active", "rolled_back"}]
  BY DEF RegistryInv, RegistryTypeOK, PassTime, RegistryStop, Govern, registryVars
<1>5. RegistryTypeOK'
  BY <1>2, <1>3, <1>4 DEF RegistryInv, RegistryTypeOK, ScanTypes
<1>6. \A p \in Packages : Hashed(cache.listing[p])' /\ Hashed(scan.listing[p])'
  BY <1>1, <1>2, <1>3 DEF RegistryInv, Hashed
<1>7. \A r \in Requests : RequestInv(req[r])'
  BY <1>2, <1>3 DEF RequestInv, Hashed
<1>8. QED
  BY <1>1, <1>2, <1>3, <1>5, <1>6, <1>7 DEF RegistryInv, PreviewWasScanned

LEMMA ReadingKeeps ==
    ASSUME RegistryInv, NEW r \in Requests,
           \/ \E kind \in {"list", "read", "create", "update", "delete"}, p \in Packages : Request(r, kind, p)
           \/ GetCached(r)
    PROVE  RegistryInv'
<1>1. UNCHANGED <<scan, scanned, activation, disk, written, shown>>
  BY DEF Request, GetCached
<1>2. cache' \in CacheTypes /\ cache'.listing = cache.listing
  BY RegistryKnown DEF Request, GetCached, CacheTypes
<1>3. \E new \in RequestTypes : RequestInv(new) /\ req' = [req EXCEPT ![r] = new]
  <2>1. ASSUME NEW kind \in {"list", "read", "create", "update", "delete"}, NEW p \in Packages,
               Request(r, kind, p)
        PROVE  \E new \in RequestTypes : RequestInv(new) /\ req' = [req EXCEPT ![r] = new]
    <3> DEFINE new == [Idle EXCEPT !.kind = kind, !.pkg = p,
                                   !.pc = IF kind = "create" THEN "mkdir" ELSE "get"]
    <3>1. new \in RequestTypes /\ new.kind = kind /\ ~new.waiting /\ new.entry = NoEntry
          /\ new.pc = IF kind = "create" THEN "mkdir" ELSE "get"
      BY IdleFits DEF RequestTypes, Gets
    <3>2. req' = [req EXCEPT ![r] = new]
      BY <2>1 DEF Request
    <3> HIDE DEF new
    <3>3. RequestInv(new)
      BY <3>1, NothingListed DEF RequestInv, Hashed
    <3>4. QED
      BY <3>1, <3>2, <3>3
  <2>2. CASE GetCached(r)
    <3>1. req[r] \in RequestTypes /\ RequestInv(req[r]) /\ req[r].pc \in Gets
      BY <2>2 DEF RegistryInv, GetCached, Getting, Gets
    <3>2. \A p \in Packages : Hashed(cache.listing[p])
      BY DEF RegistryInv
    <3>3. Found(req[r], cache.listing) \in RequestTypes /\ RequestInv(Found(req[r], cache.listing))
      BY <3>1, <3>2, RegistryKnown, FoundFits
    <3>4. QED
      BY <2>2, <3>3 DEF GetCached
  <2>3. QED
    BY <2>1, <2>2
<1>4. req' \in [Requests -> RequestTypes] /\ \A s \in Requests : RequestInv(req'[s])
  BY <1>3, RequestMoves
<1>5. QED
  BY <1>1, <1>2, <1>4, RequestKeeps, RegistryKnown, DiskFits DEF RegistryInv, PreviewWasScanned

LEMMA ScanKeeps ==
    ASSUME RegistryInv, scan' \in ScanTypes, scanned \subseteq scanned',
           \A p \in Packages : Hashed(scan.listing[p])',
           cache' \in CacheTypes, \A p \in Packages : Hashed(cache'.listing[p]),
           req' \in [Requests -> RequestTypes], \A r \in Requests : RequestInv(req'[r]),
           UNCHANGED <<disk, activation, shown, written>>
    PROVE  RegistryInv'
<1>1. RegistryTypeOK'
  BY DEF RegistryInv, RegistryTypeOK, ScanTypes
<1>2. \A p \in Packages : Hashed(cache.listing[p])' /\ Hashed(scan.listing[p])'
  BY DEF Hashed
<1>3. \A r \in Requests : RequestInv(req[r])'
  BY DEF RequestInv, Hashed
<1>4. QED
  BY <1>1, <1>2, <1>3 DEF RegistryInv, PreviewWasScanned

LEMMA AwaitKeeps ==
    ASSUME RegistryInv, NEW r \in Requests, AwaitScan(r)
    PROVE  RegistryInv'
<1>1. UNCHANGED <<disk, activation, cache, scanned, shown, written>>
  BY DEF AwaitScan
<1> DEFINE new == [req[r] EXCEPT !.waiting = TRUE]
<1>2. req[r] \in RequestTypes /\ RequestInv(req[r]) /\ req[r].pc \in Gets
  BY DEF RegistryInv, AwaitScan, Getting, Gets
<1>3. new \in RequestTypes /\ RequestInv(new)
  BY <1>2 DEF RequestTypes, RequestInv, Gets, Hashed
<1>4. req' = [req EXCEPT ![r] = new]
  BY DEF AwaitScan
<1> HIDE DEF new
<1>5. req' \in [Requests -> RequestTypes] /\ \A s \in Requests : RequestInv(req'[s])
  BY <1>3, <1>4, RequestMoves
<1>6. scan' \in ScanTypes /\ scan'.listing \in {scan.listing, NoListing}
  BY RegistryKnown, NothingListed DEF AwaitScan, ScanTypes
<1>7. \A p \in Packages : Hashed(scan'.listing[p])
  BY <1>6, NothingListed DEF RegistryInv, Hashed
<1>8. QED
  BY <1>1, <1>5, <1>6, <1>7, RegistryKnown, ScanKeeps DEF RegistryInv, Hashed

\* An entry of the scan is made, or filled in.
LEMMA EntryKeeps ==
    ASSUME RegistryInv, NEW p \in Packages, NEW e \in EntryTypes,
           NEW left \in SUBSET Packages, NEW reading \in SUBSET Packages,
           e.md = 0 \/ e.md \in scanned', scanned \subseteq scanned',
           scan' = [scan EXCEPT !.left = left, !.read = reading, !.listing[p] = e],
           UNCHANGED <<disk, activation, cache, req, shown, written>>
    PROVE  RegistryInv'
<1> DEFINE l == [scan.listing EXCEPT ![p] = e]
<1>1. l \in Listings /\ \A q \in Packages : l[q] = IF q = p THEN e ELSE scan.listing[q]
  BY RegistryKnown DEF Listings
<1>2. scan' = [scan EXCEPT !.left = left, !.read = reading, !.listing = l]
  BY RegistryKnown DEF ScanTypes
<1> HIDE DEF l
<1>3. scan' \in ScanTypes /\ scan'.listing = l
  BY <1>1, <1>2, RegistryKnown DEF ScanTypes
<1>4. \A q \in Packages : Hashed(scan.listing[q])'
  BY <1>1, <1>3 DEF RegistryInv, Hashed
<1>5. /\ \A q \in Packages : Hashed(cache.listing[q])'
      /\ \A r \in Requests : RequestInv(req[r])'
  BY DEF RegistryInv, RequestInv, Hashed
<1>6. RegistryTypeOK' /\ PreviewWasScanned'
  BY <1>3 DEF RegistryInv, RegistryTypeOK, ScanTypes, PreviewWasScanned
<1>7. QED
  BY <1>3, <1>4, <1>5, <1>6 DEF RegistryInv

LEMMA ScanPackageKeeps ==
    ASSUME RegistryInv, NEW p \in Packages, ReadPackage(p) \/ HashPackage(p)
    PROVE  RegistryInv'
<1>1. /\ disk[p] \in DiskTypes /\ scan \in ScanTypes /\ scan.listing[p] \in EntryTypes
  BY RegistryKnown DEF ScanTypes, Listings
<1>2. ASSUME NEW md \in 0..MaxTexts, NEW s \in Statuses
      PROVE  [listed |-> TRUE, md |-> md, status |-> s] \in EntryTypes
  BY DEF EntryTypes
<1>3. ASSUME ReadPackage(p), disk[p].dir
      PROVE  RegistryInv'
  <2> DEFINE s == IF disk[p].md = 0 THEN "invalid"
                  ELSE IF disk[p].status = "invalid" THEN "candidate" ELSE disk[p].status
             e == [listed |-> TRUE, md |-> 0, status |-> s]
  <2>1. s \in Statuses /\ 0 \in 0..MaxTexts
    BY <1>1, RegistryAssumption DEF Statuses, DiskTypes
  <2>2. e \in EntryTypes /\ e.md = 0
    BY <1>2, <2>1
  <2>3. scan' = [scan EXCEPT !.left = scan.left, !.read = {p}, !.listing[p] = e]
    BY <1>1, <1>3 DEF ReadPackage, ScanTypes
  <2> HIDE DEF e
  <2>4. scan.left \in SUBSET Packages /\ {p} \in SUBSET Packages
    BY <1>1 DEF ScanTypes
  <2>5. UNCHANGED <<disk, activation, cache, req, scanned, shown, written>>
    BY <1>3 DEF ReadPackage
  <2>6. QED
    BY <2>2, <2>3, <2>4, <2>5, EntryKeeps
<1>4. ASSUME ReadPackage(p), ~disk[p].dir
      PROVE  RegistryInv'
  <2>1. scan' = [scan EXCEPT !.left = @ \ {p}]
    BY <1>4 DEF ReadPackage
  <2>2. scan' \in ScanTypes /\ scan'.listing = scan.listing
    BY <1>1, <2>1 DEF ScanTypes
  <2>3. UNCHANGED <<disk, activation, cache, req, scanned, shown, written>>
    BY <1>4 DEF ReadPackage
  <2>4. QED
    BY <2>2, <2>3, RegistryKnown, ScanKeeps DEF RegistryInv, Hashed
<1>5. CASE HashPackage(p)
  <2> DEFINE declared == scan.listing[p].status
             text == IF declared = "invalid" THEN 0 ELSE disk[p].md
             e == [listed |-> TRUE, md |-> text, status |-> Status(p, declared)]
  <2>1. Status(p, declared) \in Statuses /\ text \in 0..MaxTexts
    BY <1>1, RegistryAssumption DEF Status, Statuses, DiskTypes
  <2>2. e \in EntryTypes /\ e.md = text
    BY <1>2, <2>1
  <2>3. scan' = [scan EXCEPT !.left = @ \ {p}, !.read = {}, !.listing[p] = e]
    BY <1>5 DEF HashPackage
  <2>4. scanned' = scanned \cup {text} /\ UNCHANGED <<disk, activation, cache, req, shown, written>>
    BY <1>5 DEF HashPackage
  <2> HIDE DEF e, text
  <2>5. scan.left \ {p} \in SUBSET Packages /\ {} \in SUBSET Packages
    BY <1>1 DEF ScanTypes
  <2>6. scan' = [scan EXCEPT !.left = scan.left \ {p}, !.read = {}, !.listing[p] = e]
    BY <1>1, <2>3 DEF ScanTypes
  <2>7. e.md \in scanned' /\ scanned \subseteq scanned'
    BY <2>2, <2>4
  <2>8. QED
    BY <2>2, <2>4, <2>5, <2>6, <2>7, EntryKeeps
<1>6. QED
  BY <1>3, <1>4, <1>5

LEMMA AnsweredFits ==
    ASSUME RegistryInv, NEW result,
           \A r \in Requests : req[r].waiting => result[r] \in RequestTypes /\ RequestInv(result[r]),
           req' = Answered(result)
    PROVE  req' \in [Requests -> RequestTypes] /\ \A r \in Requests : RequestInv(req'[r])
<1>1. \A r \in Requests : req'[r] = IF req[r].waiting THEN result[r] ELSE req[r]
  BY DEF Answered
<1>2. QED
  BY <1>1 DEF RegistryInv, Answered

LEMMA EndScanKeeps ==
    ASSUME RegistryInv, FinishScan \/ ScanFails
    PROVE  RegistryInv'
<1>1. /\ UNCHANGED <<disk, activation, scanned, shown, written>> /\ scan' = NoScan
      /\ \A p \in Packages : Hashed(NoScan.listing[p])
  BY NothingListed DEF FinishScan, ScanFails, Hashed
<1>2. CASE FinishScan
  <2>1. cache' \in CacheTypes /\ \A p \in Packages : Hashed(cache'.listing[p])
    BY <1>2, RegistryKnown DEF RegistryInv, FinishScan, CacheTypes
  <2> DEFINE result == [r \in Requests |-> Found(req[r], scan.listing)]
  <2>2. ASSUME NEW r \in Requests, req[r].waiting
        PROVE  result[r] \in RequestTypes /\ RequestInv(result[r])
    <3>1. req[r] \in RequestTypes /\ RequestInv(req[r]) /\ req[r].pc \in Gets
      BY <2>2 DEF RegistryInv, RequestInv
    <3>2. \A p \in Packages : Hashed(scan.listing[p])
      BY DEF RegistryInv
    <3>3. QED
      BY <3>1, <3>2, RegistryKnown, FoundFits
  <2>3. req' = Answered(result)
    BY <1>2 DEF FinishScan
  <2> HIDE DEF result
  <2>4. req' \in [Requests -> RequestTypes] /\ \A r \in Requests : RequestInv(req'[r])
    BY <2>2, <2>3, AnsweredFits
  <2>5. QED
    BY <1>1, <2>1, <2>4, NothingListed, ScanKeeps DEF Hashed
<1>3. CASE ScanFails
  <2>1. req' \in [Requests -> RequestTypes] /\ \A r \in Requests : RequestInv(req'[r])
    BY <1>3, IdleFits, AnsweredFits DEF ScanFails
  <2>2. UNCHANGED cache
    BY <1>3 DEF ScanFails
  <2>3. QED
    BY <1>1, <2>1, <2>2, NothingListed, RegistryKnown, ScanKeeps DEF RegistryInv, Hashed
<1>4. QED
  BY <1>2, <1>3

LEMMA WritingKeeps ==
    ASSUME RegistryInv, NEW r \in Requests,
           \/ MakeDirectory(r) \/ Choose(r) \/ WriteManifest(r) \/ WriteMetadata(r)
           \/ RemovePackage(r) \/ ReadText(r)
    PROVE  RegistryInv'
<1>1. UNCHANGED <<scan, scanned, activation>>
  BY DEF MakeDirectory, Choose, WriteManifest, WriteMetadata, RemovePackage, ReadText
<1>2. req[r] \in RequestTypes /\ RequestInv(req[r]) /\ ~req[r].waiting /\ req[r].pkg \in Packages
  BY RegistryKnown
  DEF RegistryInv, MakeDirectory, Choose, WriteManifest, WriteMetadata, RemovePackage, ReadText,
      RequestInv, RequestTypes, Gets
<1>3. cache' \in CacheTypes /\ cache'.listing = cache.listing
  BY RegistryKnown
  DEF MakeDirectory, Choose, WriteManifest, WriteMetadata, RemovePackage, ReadText, CacheTypes
<1>4. /\ req' \in [Requests -> RequestTypes]
      /\ \A s \in Requests : RequestInv(req'[s])
  <2>1. CASE req' = [req EXCEPT ![r] = Idle]
    BY <2>1, IdleFits, RequestMoves
  <2>2. CASE \E pc \in {"write", "metadata", "reget"} : Go(r, pc)
    BY <1>2, <2>2, GoFits
  <2>3. CASE Choose(r) /\ Go(r, "reread")
    <3>1. req[r].kind \in {"list", "read", "update", "delete"}
      BY <1>2, <2>3 DEF Choose, RequestInv
    <3>2. QED
      BY <1>2, <2>3, <3>1, GoFits
  <2>4. QED
    BY <2>1, <2>2, <2>3
    DEF MakeDirectory, Choose, WriteManifest, WriteMetadata, RemovePackage, ReadText
<1>5. /\ disk' \in [Packages -> DiskTypes]
      /\ \A p \in Packages : disk'[p].dir \/ disk'[p] = NoPackage
      /\ written' \in 1..MaxTexts
  <2> DEFINE p == req[r].pkg
  <2>1. ASSUME NEW new \in DiskTypes, disk' = [disk EXCEPT ![p] = new], new.dir \/ new = NoPackage
        PROVE  /\ disk' \in [Packages -> DiskTypes]
               /\ \A o \in Packages : disk'[o].dir \/ disk'[o] = NoPackage
    BY <1>2, <2>1, RegistryKnown, DiskFits
  <2>2. CASE MakeDirectory(r) /\ ~disk[p].dir
    <3>1. disk' = [disk EXCEPT ![p] = [disk[p] EXCEPT !.dir = TRUE]] /\ UNCHANGED written
      BY <2>2 DEF MakeDirectory
    <3>2. [disk[p] EXCEPT !.dir = TRUE] \in DiskTypes /\ [disk[p] EXCEPT !.dir = TRUE].dir
      BY <1>2, RegistryKnown DEF DiskTypes
    <3>3. QED
      BY <2>1, <3>1, <3>2, RegistryKnown
  <2>3. CASE WriteManifest(r) /\ disk[p].dir
    <3>1. /\ disk' = [disk EXCEPT ![p] = [disk[p] EXCEPT !.md = written + 1]]
          /\ written < MaxTexts /\ written' = written + 1
      BY <2>3 DEF WriteManifest
    <3>2. written + 1 \in 1..MaxTexts
      BY <3>1, RegistryKnown, RegistryAssumption
    <3>3. /\ [disk[p] EXCEPT !.md = written + 1] \in DiskTypes
          /\ [disk[p] EXCEPT !.md = written + 1].dir
      BY <1>2, <2>3, <3>2, RegistryKnown DEF DiskTypes
    <3>4. QED
      BY <2>1, <3>1, <3>2, <3>3
  <2>4. CASE WriteMetadata(r) /\ disk[p].dir
    <3>1. disk' = [disk EXCEPT ![p] = [disk[p] EXCEPT !.status = Declared(req[r])]] /\ UNCHANGED written
      BY <2>4 DEF WriteMetadata
    <3>2. Declared(req[r]) \in Statuses
      BY <1>2 DEF Declared, Statuses, RequestTypes, EntryTypes
    <3>3. /\ [disk[p] EXCEPT !.status = Declared(req[r])] \in DiskTypes
          /\ [disk[p] EXCEPT !.status = Declared(req[r])].dir
      BY <1>2, <2>4, <3>2, RegistryKnown DEF DiskTypes
    <3>4. QED
      BY <2>1, <3>1, <3>3, RegistryKnown
  <2>5. CASE RemovePackage(r)
    BY <2>1, <2>5, NothingListed, RegistryKnown DEF RemovePackage
  <2>6. CASE UNCHANGED <<disk, written>>
    BY <2>6, RegistryKnown, DiskFits
  <2>7. QED
    BY <2>2, <2>3, <2>4, <2>5, <2>6
    DEF MakeDirectory, Choose, WriteManifest, WriteMetadata, RemovePackage, ReadText
<1>6. shown' \subseteq scanned
  BY <1>2 DEF RegistryInv, PreviewWasScanned, MakeDirectory, Choose, WriteManifest, WriteMetadata,
     RemovePackage, ReadText, Unchanged, RequestInv, Hashed
<1>7. QED
  BY <1>1, <1>3, <1>4, <1>5, <1>6, RequestKeeps

LEMMA RegistryInvInductive ==
    ASSUME RegistryInv, [RegistryNext]_registryVars
    PROVE  RegistryInv'
  BY OtherStepsKeep, ReadingKeeps, AwaitKeeps, ScanPackageKeeps, EndScanKeeps, WritingKeeps
  DEF RegistryNext

LEMMA RegistryInvHolds == RegistrySpec => []RegistryInv
  BY RegistryInvInit, RegistryInvInductive, PTL DEF RegistrySpec

\* The directories, the activations and the scan keep their types.
THEOREM RegistryTypeCorrect == RegistrySpec => []RegistryTypeOK
<1>1. RegistryInv => RegistryTypeOK
  BY DEF RegistryInv
<1>2. QED
  BY <1>1, RegistryInvHolds, PTL

\* A reader is shown what it finds on disk only when it has the digest that its
\* listing has, and a listing has only digests that a scan has taken.
THEOREM PreviewsWereScanned == RegistrySpec => []PreviewWasScanned
<1>1. RegistryInv => PreviewWasScanned
  BY DEF RegistryInv
<1>2. QED
  BY <1>1, RegistryInvHolds, PTL

-----------------------------------------------------------------------------
(****************************************************************************)
(* JOURNAL. Why a lease has one holder, also with executeOnce: the facts    *)
(* that ActionJournalProofs states for any callers, for the journal of      *)
(* MCWork. Both instances unfold to the same definitions.                   *)
(****************************************************************************)

JournalFacts == INSTANCE ActionJournalProofs WITH
    Keys <- {Only}, Hashes <- B, Callers <- A \cup {Only}, StrictCallers <- A,
    NoHash <- None, MaxAttempts <- 3, row <- action

JournalInv == Journal!TypeOK /\ JournalFacts!LeasesApart

\* Two names of one definition.
LEMMA JournalTypes == Journal!TypeOK <=> JournalFacts!TypeOK
  BY DEF Journal!TypeOK, JournalFacts!TypeOK, Journal!Rows, JournalFacts!Rows,
     Journal!CallRecords, JournalFacts!CallRecords, Journal!Statuses, JournalFacts!Statuses,
     Journal!Pcs, JournalFacts!Pcs, Journal!Answers, JournalFacts!Answers

LEMMA JournalStarts == Journal!Init => JournalFacts!Init
  BY DEF Journal!Init, JournalFacts!Init, Journal!Absent, JournalFacts!Absent,
     Journal!LegacyRow, JournalFacts!LegacyRow, Journal!LegacyRows, JournalFacts!LegacyRows,
     Journal!LegacyEffects, JournalFacts!LegacyEffects, Journal!Statuses,
     JournalFacts!Statuses

LEMMA JournalSteps == Journal!Next <=> JournalFacts!Next
  BY DEF Journal!Next, JournalFacts!Next, Journal!Reserve, JournalFacts!Reserve,
     Journal!Operate, JournalFacts!Operate, Journal!Settle, JournalFacts!Settle,
     Journal!Replay, JournalFacts!Replay, Journal!RefuseUncertain,
     JournalFacts!RefuseUncertain, Journal!RefuseBusy, JournalFacts!RefuseBusy,
     Journal!MarkAbandoned, JournalFacts!MarkAbandoned, Journal!RefuseConflict,
     JournalFacts!RefuseConflict, Journal!Grant, JournalFacts!Grant, Journal!Retryable,
     JournalFacts!Retryable, Journal!Return, JournalFacts!Return, Journal!Calling,
     JournalFacts!Calling, Journal!Leased, JournalFacts!Leased, Journal!Send,
     JournalFacts!Send, Journal!FailBeforeSend, JournalFacts!FailBeforeSend,
     Journal!TakeEffect, JournalFacts!TakeEffect, Journal!Refuse, JournalFacts!Refuse,
     Journal!Receive, JournalFacts!Receive, Journal!LoseAnswer, JournalFacts!LoseAnswer,
     Journal!Goto, JournalFacts!Goto, Journal!Holds, JournalFacts!Holds, Journal!Finalize,
     JournalFacts!Finalize, Journal!Answer, JournalFacts!Answer, Journal!SettleCompleted,
     JournalFacts!SettleCompleted, Journal!CompletionLost, JournalFacts!CompletionLost,
     Journal!SettleUncertain, JournalFacts!SettleUncertain, Journal!SettleFailed,
     JournalFacts!SettleFailed, Journal!SettlementLost, JournalFacts!SettlementLost,
     Journal!Lapse, JournalFacts!Lapse, Journal!Crash, JournalFacts!Crash

LEMMA JournalInvInit == Journal!Init => JournalInv
  BY JournalTypes, JournalStarts, JournalFacts!InitTypeOK, JournalFacts!InitLeasesApart, WorkAssumption DEF JournalInv

LEMMA JournalInvInductive ==
    ASSUME JournalInv, Journal!Next \/ UNCHANGED journalVars
    PROVE  JournalInv'
<1>1. [JournalFacts!Next]_JournalFacts!vars
  BY JournalSteps DEF journalVars, JournalFacts!vars
<1>2. JournalFacts!TypeOK'
  BY <1>1, JournalTypes, JournalFacts!NextTypeOK, WorkAssumption DEF JournalInv
<1>3. JournalFacts!LeasesApart'
  BY <1>1, JournalTypes, JournalFacts!NextLeasesApart, WorkAssumption DEF JournalInv
<1>4. Journal!TypeOK'
  BY <1>2 DEF Journal!TypeOK, JournalFacts!TypeOK, Journal!Rows, JournalFacts!Rows,
     Journal!CallRecords, JournalFacts!CallRecords, Journal!Statuses, JournalFacts!Statuses,
     Journal!Pcs, JournalFacts!Pcs, Journal!Answers, JournalFacts!Answers
<1>5. QED
  BY <1>3, <1>4 DEF JournalInv

LEMMA JournalInvEnough == JournalInv => Journal!TypeOK /\ Journal!OneLeaseHolder
  BY DEF JournalInv, JournalFacts!LeasesApart, JournalFacts!InFlight, Journal!OneLeaseHolder, Journal!Holds

-----------------------------------------------------------------------------
(****************************************************************************)
(* TOGETHER. While a service is the one looked at its invariant holds: its  *)
(* steps keep it, and a step of another leaves its variables alone.         *)
(****************************************************************************)

WorkInv ==
    /\ service = "flow" => FlowInv
    /\ service = "runs" => RunsInv
    /\ service = "growth" => GrowthInv
    /\ service = "journal" => JournalInv
    /\ service = "content" => ContentInv
    /\ service = "skills" => SkillsInv
    /\ service = "tasks" => TasksInv
    /\ service = "registry" => RegistryInv

LEMMA WorkInvInit == WorkInit => WorkInv
  BY FlowInvInit, RunsInvInit, GrowthInvInit, JournalInvInit,
     ContentInvInit, SkillsInvInit, TasksInvInit, RegistryInvInit
  DEF WorkInit, WorkInv

LEMMA WorkInvInductive ==
    ASSUME WorkInv, [WorkNext]_workVars
    PROVE  WorkInv'
<1>1. service' = service
  BY DEF WorkNext, workVars
<1>2. (service = "flow" => FlowInv)'
  <2>1. service = "flow" => FlowNext \/ UNCHANGED flowVars
    BY DEF WorkNext, OwnStep, workVars
  <2>2. QED
    BY <1>1, <2>1, FlowInvInductive DEF WorkInv
<1>3. (service = "runs" => RunsInv)'
  <2>1. service = "runs" => RunsNext \/ UNCHANGED runsVars
    BY DEF WorkNext, OwnStep, workVars
  <2>2. QED
    BY <1>1, <2>1, RunsInvInductive DEF WorkInv
<1>4. (service = "growth" => GrowthInv)'
  <2>1. service = "growth" => GrowthNext \/ UNCHANGED growthVars
    BY DEF WorkNext, OwnStep, workVars
  <2>2. QED
    BY <1>1, <2>1, GrowthInvInductive DEF WorkInv
<1>5. (service = "journal" => JournalInv)'
  <2>1. service = "journal" => Journal!Next \/ UNCHANGED journalVars
    BY DEF WorkNext, OwnStep, workVars
  <2>2. QED
    BY <1>1, <2>1, JournalInvInductive DEF WorkInv
<1>6. (service = "content" => ContentInv)'
  <2>1. service = "content" => ContentNext \/ UNCHANGED contentVars
    BY DEF WorkNext, OwnStep, workVars
  <2>2. QED
    BY <1>1, <2>1, ContentInvInductive DEF WorkInv
<1>7. (service = "skills" => SkillsInv)'
  <2>1. service = "skills" => SkillsNext \/ UNCHANGED skillVars
    BY DEF WorkNext, OwnStep, workVars
  <2>2. QED
    BY <1>1, <2>1, SkillsInvInductive DEF WorkInv
<1>8. (service = "tasks" => TasksInv)'
  <2>1. service = "tasks" => TasksNext \/ UNCHANGED taskVars
    BY DEF WorkNext, OwnStep, workVars
  <2>2. QED
    BY <1>1, <2>1, TasksInvInductive DEF WorkInv
<1>9. (service = "registry" => RegistryInv)'
  <2>1. service = "registry" => RegistryNext \/ UNCHANGED registryVars
    BY DEF WorkNext, OwnStep, workVars
  <2>2. QED
    BY <1>1, <2>1, RegistryInvInductive DEF WorkInv
<1>10. QED
  BY <1>2, <1>3, <1>4, <1>5, <1>6, <1>7, <1>8, <1>9 DEF WorkInv

LEMMA WorkInvHolds == WorkSpec => []WorkInv
  BY WorkInvInit, WorkInvInductive, PTL DEF WorkSpec

\* Every variable of the service that is looked at keeps its type.
THEOREM WorkTypesCorrect == WorkSpec => []TypesOK
<1>1. WorkInv => TypesOK
  BY FlowInvEnough, RunsInvEnough, GrowthInvEnough, JournalInvEnough
  DEF WorkInv, TypesOK, ContentInv, SkillsInv, TasksInv, RegistryInv
<1>2. QED
  BY <1>1, WorkInvHolds, PTL

\* What is final was reviewed or earned: the Issue and the merge of a proposal,
\* unless two calls drove it at once, and the versions of a member.
THEOREM WorkIsApproved == WorkSpec => []Approved
<1>1. WorkInv => Approved
  BY FlowInvEnough, GrowthInvEnough DEF WorkInv, Approved
<1>2. QED
  BY <1>1, WorkInvHolds, PTL

\* What is reserved is reserved once: the tokens of a report within the budget
\* of its task, and the lease of an action with executeOnce.
THEOREM WorkIsReservedOnce == WorkSpec => []ReservedOnce
<1>1. WorkInv => ReservedOnce
  BY RunsInvEnough, JournalInvEnough DEF WorkInv, ReservedOnce
<1>2. QED
  BY <1>1, WorkInvHolds, PTL
=============================================================================
