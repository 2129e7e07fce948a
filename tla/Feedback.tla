------------------------------- MODULE Feedback -------------------------------
(***************************************************************************)
(* What readers say of pushed intelligence: buttons under a Telegram       *)
(* message, commands in the group, the feedback of the web page and the    *)
(* links of Bark messages; and the credit the member earns for it.         *)
(*                                                                         *)
(* Telegram sends an update again until the Gateway answers 200, also      *)
(* while the first delivery is still being handled.  The handler runs      *)
(* inside the action journal, under the key of the update: feedback row,   *)
(* credit, entry in the task's timeline and reply in a row, and the        *)
(* process can stop between any two.                                       *)
(***************************************************************************)
EXTENDS Channels, FiniteSets

CONSTANTS
    Updates,          \* updates of the Telegram webhook
    Opinions,         \* a candidate together with a signal a reader can give
    LinkedCandidates,       \* candidates whose Bark message carries links
    Links,            \* tokens of those links
    LinkOf,           \* the candidate a link belongs to
    Handlers,         \* requests the Gateway handles at the same time
    NoUpdate,         \* in place of the update of a request from the web
    MaxTries,         \* bound on the attempts at an update
    MaxReaderStops    \* bound on the stops of the process

\* What else an update can carry: a command, a button of an old message, one
\* under a candidate that is gone, and talk that is ignored.
OtherAsks == {"command", "stale button", "gone", "chatter"}

ASSUME FeedbackAssumption ==
    /\ NoUpdate \notin Updates
    /\ OtherAsks \cap Opinions = {}
    /\ LinkOf \in [Links -> LinkedCandidates]
    /\ OpenAfter \in Nat

VARIABLES
    asked,     \* what an update carries
    answered,  \* the updates that got their 200
    entry,     \* the journal row of an update
    handler,   \* what each request is doing
    link,      \* the feedback_callbacks rows
    feedback,  \* the candidate_feedback rows
    credited,  \* the member_events rows of feedback
    timeline,  \* the feedback entries in the timeline of the scan's task
    replied,   \* ghost: replies Telegram showed for an update
    readerStops

readerVars == <<asked, answered, entry, handler, link, feedback, credited, timeline, replied,
                readerStops, breaker, enabled>>

NoEntry == [status |-> "absent", owner |-> 0, lapsed |-> FALSE]

\* about: what the row says, an opinion or the candidate whose link was opened.
NoRow == [from |-> "nobody", about |-> "nothing"]

Free == [pc |-> "idle", update |-> NoUpdate, row |-> NoRow, fresh |-> FALSE, lease |-> 0]

FeedbackInit ==
    /\ asked \in [Updates -> Opinions \cup OtherAsks]
    /\ answered = {}
    /\ entry = [u \in Updates |-> NoEntry]
    /\ handler = [h \in Handlers |-> Free]
    /\ link = [l \in Links |-> "absent"]
    /\ feedback = {} /\ credited = {} /\ timeline = {}
    /\ replied = [u \in Updates |-> 0]
    /\ readerStops = 0
    /\ ChannelsInit

Unoccupied(h) == handler[h].pc = "idle"

AnswerUpdate(u) == answered' = answered \cup {u}

-----------------------------------------------------------------------------
(* The webhook.                                                            *)

\* Mutant of Unsettled: the lease of a stopped process frees the key.
UnsettledOrLapsed(u) ==
    \/ entry[u].status \in {"absent", "failed"}
    \/ entry[u].status = "executing" /\ entry[u].lapsed

Unsettled(u) == entry[u].status \in {"absent", "failed"}

Leased(u) == entry[u].status = "executing" /\ ~entry[u].lapsed

\* An answer that needs no effect: a foreign chat or plain talk, a completed
\* key, a key in doubt, and a key whose lease ran out, which becomes doubtful.
DismissUpdate(u) ==
    /\ u \notin answered
    /\ asked[u] = "chatter" \/ (~Unsettled(u) /\ ~Leased(u))
    /\ entry' = [entry EXCEPT ![u].status = IF @ = "executing" THEN "uncertain" ELSE @]
    /\ AnswerUpdate(u)
    /\ UNCHANGED <<asked, handler, link, feedback, credited, timeline, replied, readerStops, breaker, enabled>>

\* A button that parses is recorded first, everything else only replied to.
ReserveUpdate(h, u) ==
    /\ Unoccupied(h) /\ u \notin answered
    /\ asked[u] # "chatter" /\ Unsettled(u) /\ entry[u].owner < MaxTries
    /\ entry' = [entry EXCEPT ![u] = [status |-> "executing", owner |-> @.owner + 1, lapsed |-> FALSE]]
    /\ handler' = [handler EXCEPT ![h] =
           [pc |-> IF asked[u] \in {"command", "stale button"} THEN "replying" ELSE "recording",
            update |-> u, row |-> [from |-> "telegram", about |-> asked[u]],
            fresh |-> FALSE, lease |-> entry[u].owner + 1]]
    /\ UNCHANGED <<asked, answered, link, feedback, credited, timeline, replied, readerStops, breaker, enabled>>

\* The five minutes of a lease pass, the handler running or not.
LeaseLapses(u) ==
    /\ entry[u].status = "executing"
    /\ entry' = [entry EXCEPT ![u].lapsed = TRUE]
    /\ UNCHANGED <<asked, answered, handler, link, feedback, credited, timeline, replied, readerStops,
                   breaker, enabled>>

-----------------------------------------------------------------------------
(* Feedback and its credit, from Telegram, the web page or a Bark link.    *)

\* createOpenCallback, while the candidate is being pushed to Bark.
SendLink(l) ==
    /\ link[l] = "absent"
    /\ link' = [link EXCEPT ![l] = "sent"]
    /\ UNCHANGED <<asked, answered, entry, handler, feedback, credited, timeline, replied, readerStops,
                   breaker, enabled>>

\* The web page comes without an update and without the journal.
GiveFeedback(h, o) ==
    /\ Unoccupied(h)
    /\ handler' = [handler EXCEPT ![h] = [Free EXCEPT !.pc = "recording", !.row = [from |-> "web", about |-> o]]]
    /\ UNCHANGED <<asked, answered, entry, link, feedback, credited, timeline, replied, readerStops,
                   breaker, enabled>>

\* Mutant of Recorded: the row is looked for after it has been inserted.
RecordedLate(h, row) ==
    /\ feedback' = feedback \cup {row}
    /\ handler' = [handler EXCEPT ![h].pc = "crediting", ![h].row = row, ![h].fresh = row \notin feedback']

\* INSERT OR IGNORE: only the first of an opinion from a source is fresh.
Recorded(h, row) ==
    /\ feedback' = feedback \cup {row}
    /\ handler' = [handler EXCEPT ![h].pc = "crediting", ![h].row = row, ![h].fresh = row \notin feedback]

\* consumeOpenCallback: the row and the mark on the link in one transaction.
\* A token nobody was sent changes nothing.
OpenLink(h, l) ==
    /\ Unoccupied(h) /\ link[l] # "absent"
    /\ link' = [link EXCEPT ![l] = "opened"]
    /\ Recorded(h, [from |-> "bark_click", about |-> LinkOf[l]])
    /\ UNCHANGED <<asked, answered, entry, credited, timeline, replied, readerStops, breaker, enabled>>

RecordFeedback(h) ==
    /\ handler[h].pc = "recording"
    /\ IF handler[h].row.about = "gone"
       THEN /\ handler' = [handler EXCEPT ![h].pc = "refused"]
            /\ UNCHANGED feedback
       ELSE Recorded(h, handler[h].row)
    /\ UNCHANGED <<asked, answered, entry, link, credited, timeline, replied, readerStops, breaker, enabled>>

\* The index of member_events takes one event for an opinion, although it may
\* be fresh from the web and from Telegram.
CreditMember(h) ==
    /\ handler[h].pc = "crediting"
    /\ credited' = IF handler[h].fresh THEN credited \cup {handler[h].row.about} ELSE credited
    /\ handler' = [handler EXCEPT ![h].pc = "noting"]
    /\ UNCHANGED <<asked, answered, entry, link, feedback, timeline, replied, readerStops, breaker, enabled>>

\* The task of the scan may not have ended, or there is none.
NoteFeedback(h) ==
    /\ handler[h].pc = "noting"
    /\ \E found \in BOOLEAN :
           timeline' = IF handler[h].fresh /\ found THEN timeline \cup {handler[h].row} ELSE timeline
    /\ handler' = [handler EXCEPT ![h] = IF @.update = NoUpdate THEN Free ELSE [@ EXCEPT !.pc = "replying"]]
    /\ UNCHANGED <<asked, answered, entry, link, feedback, credited, replied, readerStops, breaker, enabled>>

-----------------------------------------------------------------------------
(* The reply.                                                              *)

IsCommand(h) == asked[handler[h].update] = "command"

\* answerCallback or, through the breaker of the channel, sendText goes out
\* and Telegram may act on it.
SendReply(h) ==
    /\ handler[h].pc = "replying"
    /\ IF IsCommand(h) /\ breaker[Telegram].holds
       THEN /\ handler' = [handler EXCEPT ![h].pc = "refused"]
            /\ UNCHANGED replied
       ELSE \E reached \in BOOLEAN :
            /\ replied' = [replied EXCEPT ![handler[h].update] = IF reached THEN @ + 1 ELSE @]
            /\ handler' = [handler EXCEPT ![h].pc = IF reached THEN "shown" ELSE "unshown"]
    /\ UNCHANGED <<asked, answered, entry, link, feedback, credited, timeline, readerStops, breaker, enabled>>

\* A reply that was shown ends in a receipt or in silence, one that was not in
\* a refusal or in silence.
Verdict(h) ==
    CASE handler[h].pc = "shown" -> {"completed", "uncertain"}
      [] handler[h].pc = "unshown" -> {"failed", "uncertain"}
      [] handler[h].pc = "refused" -> {"failed"}
      [] OTHER -> {}

\* What the request of a command tells the breaker; the others never ask it.
ReplyHeard(h, result) ==
    IF ~IsCommand(h) \/ handler[h].pc = "refused" THEN UNCHANGED breaker
    ELSE IF result = "completed" THEN breaker' = [breaker EXCEPT ![Telegram] = Ready]
    ELSE \E asks \in BOOLEAN : breaker' = [breaker EXCEPT ![Telegram] = AfterFailure(@, asks)]

\* The journal takes the result only from the holder of the lease.  Without the
\* lease what got its receipt counts as uncertain, and is answered; the rest
\* is thrown, and Telegram will come again.
SettleUpdate(h) ==
    LET u == handler[h].update
        mine == entry[u].status = "executing" /\ entry[u].owner = handler[h].lease
    IN \E result \in Verdict(h) :
        /\ entry' = IF mine THEN [entry EXCEPT ![u].status = result] ELSE entry
        /\ IF result = "completed" \/ (result = "uncertain" /\ mine) THEN AnswerUpdate(u) ELSE UNCHANGED answered
        /\ ReplyHeard(h, result)
        /\ handler' = [handler EXCEPT ![h] = Free]
        /\ UNCHANGED <<asked, link, feedback, credited, timeline, replied, readerStops, enabled>>

ReaderStop ==
    /\ readerStops < MaxReaderStops
    /\ readerStops' = readerStops + 1
    /\ handler' = [h \in Handlers |-> Free]
    /\ UNCHANGED <<asked, answered, entry, link, feedback, credited, timeline, replied, breaker, enabled>>

BreakerFreed ==
    /\ HoldEnds(Telegram)
    /\ UNCHANGED <<asked, answered, entry, handler, link, feedback, credited, timeline, replied, readerStops>>

FeedbackNext ==
    \/ \E u \in Updates : DismissUpdate(u) \/ LeaseLapses(u)
    \/ \E l \in Links : SendLink(l)
    \/ \E h \in Handlers :
        \/ \E u \in Updates : ReserveUpdate(h, u)
        \/ \E o \in Opinions : GiveFeedback(h, o)
        \/ \E l \in Links : OpenLink(h, l)
        \/ RecordFeedback(h) \/ CreditMember(h) \/ NoteFeedback(h) \/ SendReply(h) \/ SettleUpdate(h)
    \/ ReaderStop \/ BreakerFreed

FeedbackSpec == FeedbackInit /\ [][FeedbackNext]_readerVars

Rows == [from: {"web", "telegram"}, about: Opinions] \cup [from: {"bark_click"}, about: LinkedCandidates]

FeedbackTypeOK ==
    /\ asked \in [Updates -> Opinions \cup OtherAsks]
    /\ answered \subseteq Updates
    /\ entry \in [Updates -> [status: {"absent", "executing", "completed", "failed", "uncertain"},
                              owner: Nat, lapsed: BOOLEAN]]
    /\ handler \in [Handlers ->
           [pc: {"idle", "recording", "crediting", "noting", "replying", "shown", "unshown", "refused"},
            update: Updates \cup {NoUpdate},
            row: Rows \cup {NoRow} \cup [from: {"telegram"}, about: OtherAsks],
            fresh: BOOLEAN, lease: Nat]]
    /\ link \in [Links -> {"absent", "sent", "opened"}]
    /\ feedback \subseteq Rows
    /\ credited \subseteq Opinions \cup LinkedCandidates
    /\ timeline \subseteq feedback
    /\ replied \in [Updates -> Nat]
    /\ readerStops \in Nat
    /\ ChannelsTypeOK

\* Whatever Telegram sends again, whatever stops, lapses or stays silent, an
\* update is replied to once at most: only a reply known not to have arrived
\* is repeated.
RepliedOnce == \A u \in Updates : replied[u] <= 1

\* As long as the process does not stop, what a reader says is credited, also
\* when the handler lost its lease, its update came twice or its reply failed:
\* the request that found the row new is the one that goes on to the credit.
\* (A stop between the two loses the credit for good.)
CreditGoesThrough ==
    readerStops = 0 =>
        \A row \in feedback :
            \/ row.about \in credited
            \/ \E h \in Handlers : handler[h].pc = "crediting" /\ handler[h].fresh /\ handler[h].row = row
=============================================================================
