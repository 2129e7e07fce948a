--------------------------------- MODULE Growth --------------------------------
(***************************************************************************)
(* Members: what they remember, the credit they earn and how their         *)
(* constitution evolves.  A success is remembered once for its source.     *)
(* When enough credit has been earned since the last version and the last  *)
(* review is a week old, the mentor is asked for a proposal; that takes a  *)
(* while and may be asked for by the schedule and the operator at once.    *)
(* A reviewer who is not the member approves or rejects it.  A chat may    *)
(* ask the mentor for guidance, which is remembered without credit.        *)
(***************************************************************************)
EXTENDS Naturals, FiniteSets

CONSTANTS
    Sources,       \* what a success or a feedback refers to
    Proposers,     \* requests for a proposal under way at the same time
    Threshold,     \* review_after_runs, the credit a review asks for
    Cooldown,      \* days after a review without another proposal
    MaxDays,       \* bound on the days
    MaxProposals,  \* bound on the proposals
    MaxGuidance,   \* bound on the chats that ask the mentor
    MaxMemberStops

ASSUME GrowthAssumption ==
    /\ IsFiniteSet(Sources)
    /\ {Threshold, Cooldown, MaxDays, MaxProposals, MaxGuidance, MaxMemberStops} \subseteq Nat

VARIABLES
    day,
    credited,    \* member_events with credit: per source the version then in force
    failures,    \* sources remembered as a failure of the member
    version,     \* newest row of member_constitutions
    evolution,   \* evolution_proposals
    asking,      \* what each request for a proposal is doing
    chat,        \* the conversation under way
    guidance,    \* help asked for and guidance remembered
    noting,      \* rejected proposals whose milestone is to be remembered
    milestones,  \* proposals with a milestone in the member's memory
    memberStops

growthVars == <<day, credited, failures, version, evolution, asking, chat, guidance, noting, milestones, memberStops>>

Evolutions == 1..MaxProposals

\* reviewed is the day of its review.
NoEvolution == [status |-> "absent", base |-> 0, reviewed |-> 0]

NotAsking == [pc |-> "idle", base |-> 0]

\* The first version is that of the configuration, in force since the birth.
GrowthInit ==
    /\ day = 0
    /\ credited = [s \in Sources |-> 0]
    /\ failures = {}
    /\ version = 1
    /\ evolution = [n \in Evolutions |-> NoEvolution]
    /\ asking = [r \in Proposers |-> NotAsking]
    /\ chat = "idle" /\ guidance = 0
    /\ noting = {} /\ milestones = {}
    /\ memberStops = 0

PassDay ==
    /\ day < MaxDays
    /\ day' = day + 1
    /\ UNCHANGED <<credited, failures, version, evolution, asking, chat, guidance, noting, milestones, memberStops>>

-----------------------------------------------------------------------------
(* MemberStateStore: the memory and what it says of a review.              *)

\* The events of a member are unique by their source; another is ignored.
Remembered(s) == credited[s] # 0 \/ s \in failures

RememberEvent(s, success) ==
    /\ IF Remembered(s) THEN UNCHANGED <<credited, failures>>
       ELSE IF success THEN credited' = [credited EXCEPT ![s] = version] /\ UNCHANGED failures
       ELSE failures' = failures \cup {s} /\ UNCHANGED credited
    /\ UNCHANGED <<day, version, evolution, asking, chat, guidance, noting, milestones, memberStops>>

\* Credit remembered after the version in force was applied.
NewCredit == {s \in Sources : credited[s] = version}

ReviewedProposals == {n \in Evolutions : evolution[n].status \in {"approved", "rejected"}}

Pending == {n \in Evolutions : evolution[n].status = "pending"}

LastReview ==
    IF ReviewedProposals = {} THEN 0
    ELSE evolution[CHOOSE n \in ReviewedProposals : \A m \in ReviewedProposals : m <= n].reviewed

Eligible ==
    /\ Cardinality(NewCredit) >= Threshold
    /\ day >= LastReview + Cooldown
    /\ Pending = {}

-----------------------------------------------------------------------------
(* MemberEvolutionService: a proposal takes the mentor a while.            *)

Ask(r) ==
    /\ asking[r].pc = "idle" /\ Eligible
    /\ asking' = [asking EXCEPT ![r] = [pc |-> "mentor", base |-> version]]
    /\ UNCHANGED <<day, credited, failures, version, evolution, chat, guidance, noting, milestones, memberStops>>

\* No valid proposal after one correction.
MentorDeclines(r) ==
    /\ asking[r].pc = "mentor"
    /\ asking' = [asking EXCEPT ![r] = NotAsking]
    /\ UNCHANGED <<day, credited, failures, version, evolution, chat, guidance, noting, milestones, memberStops>>

\* createProposal: one proposal of a member is pending.  The evidence is that
\* of the member, and an eligible member has some.
Propose(r, n) ==
    /\ asking[r].pc = "mentor"
    /\ n \in Evolutions /\ \A m \in Evolutions : m < n <=> evolution[m] # NoEvolution
    /\ evolution' = IF Pending # {} THEN evolution
                   ELSE [evolution EXCEPT ![n] = [status |-> "pending", base |-> asking[r].base, reviewed |-> 0]]
    /\ asking' = [asking EXCEPT ![r] = NotAsking]
    /\ UNCHANGED <<day, credited, failures, version, chat, guidance, noting, milestones, memberStops>>

ReviewProposal(n, status) ==
    evolution' = [evolution EXCEPT ![n] = [status |-> status, base |-> @.base, reviewed |-> day]]

\* Mutant of Based: a proposal is approved whatever it was written against.
BasedOnAny(n) == TRUE

Based(n) == evolution[n].base = version

\* The version, the proposal and the milestone are one transaction.
Approve(n) ==
    /\ evolution[n].status = "pending" /\ Based(n)
    /\ version' = version + 1
    /\ ReviewProposal(n, "approved")
    /\ milestones' = milestones \cup {n}
    /\ UNCHANGED <<day, credited, failures, asking, chat, guidance, noting, memberStops>>

Reject(n) ==
    /\ evolution[n].status = "pending"
    /\ ReviewProposal(n, "rejected")
    /\ noting' = noting \cup {n}
    /\ UNCHANGED <<day, credited, failures, version, asking, chat, guidance, milestones, memberStops>>

RememberRejection(n) ==
    /\ n \in noting
    /\ noting' = noting \ {n}
    /\ milestones' = milestones \cup {n}
    /\ UNCHANGED <<day, credited, failures, version, evolution, asking, chat, guidance, memberStops>>

-----------------------------------------------------------------------------
(* MemberConversationService: a chat, with the mentor's guidance or not.   *)

Talk(from, to, learned) ==
    /\ chat = from
    /\ chat' = to
    /\ guidance' = guidance + learned
    /\ UNCHANGED <<day, credited, failures, version, evolution, asking, noting, milestones, memberStops>>

Chat ==
    \/ Talk("idle", "replying", 0)
    \/ guidance < MaxGuidance /\ Talk("idle", "guiding", 1)
    \/ Talk("guiding", "replying", 1)
    \/ Talk("guiding", "idle", 0)
    \/ Talk("replying", "idle", 0)

MemberStop ==
    /\ memberStops < MaxMemberStops
    /\ memberStops' = memberStops + 1
    /\ asking' = [r \in Proposers |-> NotAsking]
    /\ chat' = "idle"
    /\ noting' = {}
    /\ UNCHANGED <<day, credited, failures, version, evolution, guidance, milestones>>

GrowthNext ==
    \/ PassDay \/ Chat \/ MemberStop
    \/ \E s \in Sources, success \in BOOLEAN : RememberEvent(s, success)
    \/ \E r \in Proposers : Ask(r) \/ MentorDeclines(r) \/ \E n \in Evolutions : Propose(r, n)
    \/ \E n \in Evolutions : Approve(n) \/ Reject(n) \/ RememberRejection(n)

GrowthSpec == GrowthInit /\ [][GrowthNext]_growthVars

GrowthTypeOK ==
    /\ day \in 0..MaxDays
    /\ version \in 1..MaxProposals + 1
    /\ credited \in [Sources -> 0..version]
    /\ failures \subseteq Sources
    /\ evolution \in [Evolutions -> [status: {"absent", "pending", "approved", "rejected"},
                                    base: 0..version, reviewed: 0..day]]
    /\ asking \in [Proposers -> [pc: {"idle", "mentor"}, base: 0..version]]
    /\ chat \in {"idle", "guiding", "replying"}
    /\ milestones \subseteq ReviewedProposals /\ noting \subseteq ReviewedProposals
    /\ guidance \in 0..MaxGuidance + 1

\* docs/adr/0011: a member changes after enough new credit.  However many
\* proposals were asked for on the same evidence, each version but the first was
\* earned by credit remembered while the one before it was in force.
VersionsEarned ==
    \A v \in 1..MaxProposals : v < version => Cardinality({s \in Sources : credited[s] = v}) >= Threshold

=============================================================================
