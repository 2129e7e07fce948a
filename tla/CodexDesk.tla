------------------------------- MODULE CodexDesk -------------------------------
(***************************************************************************)
(* The operator's desk: the interactions of managed Codex threads.  The    *)
(* App Server asks over a connection (an approval or a question), an agent *)
(* asks under its capability (a suggestion or a decision).  Every question *)
(* is announced to the Telegram chats, where a suggestion or a decision    *)
(* has buttons, and is answered there, on the Web, by its expiry, or no    *)
(* more once the connection that asked is lost.  Here are the rows of      *)
(* codex_interactions; the thread they belong to is in CodexSupervisor.    *)
(***************************************************************************)
EXTENDS Naturals, Sequences

CONSTANTS
    Asks,     \* interactions
    Chats,    \* Telegram chats
    Options,  \* the options of an interaction, "pause" and "resume" among them
    MaxLinks  \* bound on connections to the App Server

ASSUME DeskAssumption == MaxLinks \in Nat

VARIABLES
    link,      \* the connection in use, 0 for none
    links,     \* connections made so far
    ask,       \* codex_interactions
    replied,   \* what each interaction's asker was told: over which connection, what
    queued,    \* the directive an interaction has led to
    applying,  \* interactions whose pause or resumption is awaited
    notice,    \* the journal rows codex:interaction:<id>:telegram:<chat>
    tick,      \* codex.telegram: what is left to push, whether a push failed
    daily      \* the summary of the day: the minute, and the chats that have it

deskVars == <<link, links, ask, replied, queued, applying, notice, tick, daily>>

ServerKinds == {"approval", "question"}

AgentKinds == {"suggest", "decision"}

AskKinds == ServerKinds \cup AgentKinds

AskStatuses == {"absent", "open", "answered", "defaulted", "expired", "resolved", "manual_attention"}

NoAsk == [status |-> "absent", kind |-> "approval", link |-> 0, choice |-> "none"]

NoTick == [running |-> FALSE, todo |-> {}, flying |-> {}, failed |-> FALSE]

DeskInit ==
    /\ link = 0 /\ links = 0
    /\ ask = [a \in Asks |-> NoAsk]
    /\ replied = [a \in Asks |-> <<>>]
    /\ queued = [a \in Asks |-> {}]
    /\ applying = {}
    /\ notice = [a \in Asks |-> [c \in Chats |-> "absent"]]
    /\ tick = NoTick
    /\ daily = [minute |-> "before", sent |-> {}]

-----------------------------------------------------------------------------
(* The questions.                                                          *)

Create(a, k, l) ==
    /\ ask[a].status = "absent"
    /\ ask' = [ask EXCEPT ![a] = [status |-> "open", kind |-> k, link |-> l, choice |-> "none"]]
    /\ UNCHANGED <<link, links, replied, queued, applying, notice, tick, daily>>

\* A request sent again over its connection finds its row; one of a thread that
\* is not managed is declined on the spot.
HandleServerRequest(a, k) ==
    /\ link # 0
    /\ k \in ServerKinds
    /\ Create(a, k, link)

RaiseAgentInteraction(a, k) ==
    /\ k \in AgentKinds
    /\ Create(a, k, 0)

\* Mutant of MayAnswer: the revision of the row just read is all that is checked.
MayAnswerAnything(a) ==
    /\ link # 0
    /\ ask[a].status # "absent"
    /\ a \notin applying

\* The revision changes with the status, so that an old one finds it not open.
MayAnswer(a) ==
    /\ link # 0
    /\ ask[a].status = "open"

FromServer(a) == ask[a].kind \in ServerKinds

\* The answer, the reply and the resolution are made in one turn.  A reply that
\* cannot be built or sent, or whose connection is gone, leaves the row to a human.
AnswerServerInteraction(a, o) ==
    /\ MayAnswer(a) /\ FromServer(a)
    /\ \/ /\ ask[a].link = link
          /\ replied' = [replied EXCEPT ![a] = Append(@, [link |-> link, choice |-> o])]
          /\ ask' = [ask EXCEPT ![a].status = "resolved", ![a].choice = o]
       \/ /\ ask[a].link = link
          /\ ask' = [ask EXCEPT ![a].status = "manual_attention", ![a].choice = o]
          /\ UNCHANGED replied
       \/ /\ ask[a].link # link
          /\ ask' = [ask EXCEPT ![a].status = "manual_attention"]
          /\ UNCHANGED replied
    /\ UNCHANGED <<link, links, queued, applying, notice, tick, daily>>

\* The directive has the key interaction:<id>; with another text it is refused.
Enqueued(a, o) == queued[a] \subseteq {o}

\* applyLocalAnswer, for s "answered" or "defaulted".  A pause or a resumption is
\* awaited; any other choice becomes a directive, whose thread may refuse the new
\* phase: the directive is then queued and the row stays as it is.
ApplyLocalAnswer(a, o, s) ==
    \/ /\ o \in {"pause", "resume"}
       /\ applying' = applying \cup {a}
       /\ ask' = [ask EXCEPT ![a].status = s, ![a].choice = o]
       /\ UNCHANGED queued
    \/ /\ o \notin {"pause", "resume"} /\ Enqueued(a, o)
       /\ queued' = [queued EXCEPT ![a] = @ \cup {o}]
       /\ \E t \in {"resolved", s} : ask' = [ask EXCEPT ![a].status = t, ![a].choice = o]
       /\ UNCHANGED applying

AnswerLocal(a, o) ==
    /\ MayAnswer(a) /\ ~FromServer(a)
    /\ ApplyLocalAnswer(a, o, "answered")
    /\ UNCHANGED <<link, links, replied, notice, tick, daily>>

\* On the Web every kind can be answered.
AnswerOnWeb(a, o) == AnswerServerInteraction(a, o) \/ AnswerLocal(a, o)

\* The buttons come with the notice and with the reply to /decisions, and stay
\* in every chat; an approval has none.
HandleCallback(a, o) ==
    /\ ask[a].kind # "approval"
    /\ AnswerOnWeb(a, o)

\* The pause or the resumption is done, or it failed: then an answered row stays
\* answered for good, and a defaulted one is applied again by the next cycle.
PauseEnds(a) ==
    /\ a \in applying
    /\ applying' = applying \ {a}
    /\ \E t \in {"resolved", ask[a].status} : ask' = [ask EXCEPT ![a].status = t]
    /\ UNCHANGED <<link, links, replied, queued, notice, tick, daily>>

\* applyExpired: a suggestion takes its default, any other question ends.
ApplyExpired(a) ==
    /\ link # 0
    /\ ask[a].status = "open" /\ ~FromServer(a)
    /\ \/ /\ ask[a].kind = "suggest"
          /\ \E o \in Options : ask' = [ask EXCEPT ![a].status = "defaulted", ![a].choice = o]
       \/ /\ ask[a].kind = "decision"
          /\ ask' = [ask EXCEPT ![a].status = "expired"]
    /\ UNCHANGED <<link, links, replied, queued, applying, notice, tick, daily>>

\* Of the same cycle, one row after the other, each failure left for the next.
ApplyDefaulted(a) ==
    /\ link # 0
    /\ ask[a].status = "defaulted" /\ applying = {}
    /\ ApplyLocalAnswer(a, ask[a].choice, "defaulted")
    /\ UNCHANGED <<link, links, replied, notice, tick, daily>>

-----------------------------------------------------------------------------
(* The connection.                                                         *)

AttachConnection ==
    /\ link = 0 /\ links < MaxLinks
    /\ links' = links + 1
    /\ link' = links + 1
    /\ UNCHANGED <<ask, replied, queued, applying, notice, tick, daily>>

\* markConnectionLost.
DetachConnection ==
    /\ link # 0
    /\ link' = 0
    /\ ask' = [a \in Asks |->
           IF FromServer(a) /\ ask[a].link = link /\ ask[a].status \in {"open", "answered"}
           THEN [ask[a] EXCEPT !.status = "manual_attention"] ELSE ask[a]]
    /\ UNCHANGED <<links, replied, queued, applying, notice, tick, daily>>

\* The rows of the connection are left open: nobody saw it end.
DeskCrash ==
    /\ link' = 0
    /\ applying' = {}
    /\ tick' = NoTick
    /\ UNCHANGED <<links, ask, replied, queued, notice, daily>>

-----------------------------------------------------------------------------
(* codex.telegram, every minute.                                           *)

Delivered(a, c) == notice[a][c] \in {"completed", "uncertain"}

PushNewInteractions ==
    /\ ~tick.running
    /\ tick' = [NoTick EXCEPT !.running = TRUE,
                             !.todo = {p \in Asks \X Chats :
                                 ask[p[1]].status = "open" /\ ~Delivered(p[1], p[2])}]
    /\ UNCHANGED <<link, links, ask, replied, queued, applying, notice, daily>>

\* A row that a stopped process left executing is in the way until its lease
\* has run out, and then in doubt.
PushInteraction(a, c) ==
    /\ tick.running /\ <<a, c>> \in tick.todo /\ tick.flying = {}
    /\ IF notice[a][c] = "executing"
       THEN \E s \in {"executing", "uncertain"} :
           /\ notice' = [notice EXCEPT ![a][c] = s]
           /\ tick' = [tick EXCEPT !.todo = @ \ {<<a, c>>}, !.failed = @ \/ s = "executing"]
       ELSE /\ notice' = [notice EXCEPT ![a][c] = "executing"]
            /\ tick' = [tick EXCEPT !.todo = @ \ {<<a, c>>}, !.flying = {<<a, c>>}]
    /\ UNCHANGED <<link, links, ask, replied, queued, applying, daily>>

SendInteraction(a, c, s) ==
    /\ <<a, c>> \in tick.flying
    /\ notice' = [notice EXCEPT ![a][c] = s]
    /\ tick' = [tick EXCEPT !.flying = {}, !.failed = @ \/ s = "failed"]
    /\ UNCHANGED <<link, links, ask, replied, queued, applying, daily>>

\* One notice refused, and the tick ends before it looks at the summary.
PushDailySummary ==
    /\ tick.running /\ tick.todo = {} /\ tick.flying = {}
    /\ tick' = NoTick
    /\ daily' = IF ~tick.failed /\ daily.minute = "08:30" THEN [daily EXCEPT !.sent = Chats] ELSE daily
    /\ UNCHANGED <<link, links, ask, replied, queued, applying, notice>>

Minute ==
    /\ daily.minute # "after"
    /\ daily' = [daily EXCEPT !.minute = IF @ = "before" THEN "08:30" ELSE "after"]
    /\ UNCHANGED <<link, links, ask, replied, queued, applying, notice, tick>>

-----------------------------------------------------------------------------
DeskNext ==
    \/ \E a \in Asks, k \in AskKinds : HandleServerRequest(a, k) \/ RaiseAgentInteraction(a, k)
    \/ \E a \in Asks, o \in Options :
        AnswerOnWeb(a, o) \/ HandleCallback(a, o)
    \/ \E a \in Asks : PauseEnds(a) \/ ApplyExpired(a) \/ ApplyDefaulted(a)
    \/ AttachConnection \/ DetachConnection \/ DeskCrash
    \/ PushNewInteractions \/ PushDailySummary \/ Minute
    \/ \E a \in Asks, c \in Chats :
        \/ PushInteraction(a, c)
        \/ \E s \in {"completed", "failed", "uncertain"} : SendInteraction(a, c, s)

DeskSpec == DeskInit /\ [][DeskNext]_deskVars

DeskTypeOK ==
    /\ link \in 0..MaxLinks /\ links \in 0..MaxLinks
    /\ ask \in [Asks -> [status: AskStatuses, kind: AskKinds, link: 0..MaxLinks,
                         choice: Options \cup {"none"}]]
    /\ \A a \in Asks : Len(replied[a]) <= 1
    /\ queued \in [Asks -> SUBSET Options]
    /\ applying \subseteq Asks
    /\ notice \in [Asks -> [Chats -> {"absent", "executing", "completed", "failed", "uncertain"}]]
    /\ tick \in [running: BOOLEAN, todo: SUBSET (Asks \X Chats),
                 flying: SUBSET (Asks \X Chats), failed: BOOLEAN]
    /\ daily \in [minute: {"before", "08:30", "after"}, sent: SUBSET Chats]

\* However often the buttons of several chats and the Web's are pressed, and
\* whatever connections come and go, a question is answered once: over the
\* connection it came from, or by one directive, and with the choice on record.
AnsweredOnce ==
    \A a \in Asks :
        /\ replied[a] \in {<<>>, <<[link |-> ask[a].link, choice |-> ask[a].choice]>>}
        /\ queued[a] \subseteq {ask[a].choice}
        /\ replied[a] = <<>> \/ queued[a] = {}
=============================================================================
