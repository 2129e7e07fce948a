---------------------------- MODULE ForwardedRelay ----------------------------
(***************************************************************************)
(* The relay of one upstream ntfy topic: every minute it polls the topic   *)
(* from the second before its cursor, stores what is new and forwards the  *)
(* oldest stored messages that are not settled.  The topic goes on growing *)
(* while a poll is under way, also within the second the cursor stands at. *)
(***************************************************************************)
EXTENDS Naturals, FiniteSets

CONSTANTS
    Messages,       \* messages of the upstream topic
    Horizon,        \* how far back the first poll looks (600 seconds in the code)
    PollLimit,      \* messages a poll may bring (100)
    Batch,          \* messages forwarded after a poll (20)
    MaxSeconds,     \* bound on the clock
    MaxRelayStops   \* bound on the stops of the process

ASSUME RelayAssumption ==
    Horizon \in Nat /\ PollLimit \in Nat /\ Batch \in Nat /\ MaxSeconds \in Nat \ {0}

VARIABLES
    second,    \* the clock, in seconds
    sent,      \* the second a message was published upstream, 0 before
    twins,     \* messages whose content the old relay forwarded within five minutes
    event,     \* the forwarded_events rows
    cursor,    \* forwarded_source_state: the second of the newest message seen
    first,     \* ghost: the second from which on the polls have looked without a gap
    looked,    \* ghost: the second of the last successful poll
    relay,     \* what the run under way is doing
    relayStops

reach     == <<first, looked>>
relayVars == <<second, sent, twins, event, cursor, first, looked, relay, relayStops>>

AtRest == [pc |-> "idle", since |-> 0, batch |-> {}]

RelayInit ==
    /\ second = 1
    /\ sent = [m \in Messages |-> 0]
    /\ twins \in SUBSET Messages
    /\ event = [m \in Messages |-> "absent"]
    /\ cursor = 0 /\ first = 0 /\ looked = 0
    /\ relay = AtRest
    /\ relayStops = 0

PassSecond ==
    /\ second < MaxSeconds
    /\ second' = second + 1
    /\ UNCHANGED <<sent, twins, event, cursor, reach, relay, relayStops>>

PublishUpstream(m) ==
    /\ sent[m] = 0
    /\ sent' = [sent EXCEPT ![m] = second]
    /\ UNCHANGED <<second, twins, event, cursor, reach, relay, relayStops>>

-----------------------------------------------------------------------------
(* runDue.                                                                 *)

\* Mutant of Since: the poll goes on behind the cursor.
SinceAfterCursor ==
    IF cursor > 0 THEN cursor + 1 ELSE IF second > Horizon THEN second - Horizon ELSE 0

Since ==
    IF cursor > 0 THEN cursor - 1 ELSE IF second > Horizon THEN second - Horizon ELSE 0

StartPoll ==
    /\ relay.pc = "idle"
    /\ relay' = [AtRest EXCEPT !.pc = "polling", !.since = Since]
    /\ UNCHANGED <<second, sent, twins, event, cursor, reach, relayStops>>

Seen == {m \in Messages : sent[m] > 0 /\ sent[m] >= relay.since}

Unsettled(e) == {m \in Messages : e[m] \in {"pending", "failed"}}

Before(m, n) == sent[m] < sent[n]

\* The oldest Batch rows; equal times are ordered by an id nobody chooses.
Oldest(e) ==
    {b \in SUBSET Unsettled(e) :
        /\ Cardinality(b) = IF Cardinality(Unsettled(e)) < Batch THEN Cardinality(Unsettled(e)) ELSE Batch
        /\ \A m \in b, n \in Unsettled(e) \ b : ~Before(n, m)}

\* One transaction stores the rows and moves the cursor, never back.  As long as
\* no message was seen there is no cursor, and a poll that begins later than the
\* last one ended leaves a gap.
IngestPoll ==
    /\ relay.pc = "polling"
    /\ Cardinality(Seen) <= PollLimit
    /\ event' = [m \in Messages |->
           IF m \in Seen /\ event[m] = "absent"
           THEN IF m \in twins THEN "deduped" ELSE "pending" ELSE event[m]]
    /\ cursor' = IF \E m \in Seen : sent[m] > cursor
                 THEN CHOOSE s \in {sent[m] : m \in Seen} : \A m \in Seen : sent[m] <= s
                 ELSE cursor
    /\ first' = IF cursor = 0 /\ relay.since > looked THEN relay.since ELSE first
    /\ looked' = second
    /\ \E b \in Oldest(event') : relay' = [AtRest EXCEPT !.pc = "relaying", !.batch = b]
    /\ UNCHANGED <<second, sent, twins, relayStops>>

\* The topic cannot be read, a message of it is malformed or there are too many.
PollFails ==
    /\ relay.pc = "polling"
    /\ relay' = AtRest
    /\ UNCHANGED <<second, sent, twins, event, cursor, reach, relayStops>>

\* A refusal and a partial delivery both leave the row "failed", to be tried again.
Forward(m, status) ==
    /\ relay.pc = "relaying" /\ m \in relay.batch
    /\ \A n \in relay.batch : ~Before(n, m)
    /\ event' = [event EXCEPT ![m] = status]
    /\ relay' = [relay EXCEPT !.batch = @ \ {m}]
    /\ UNCHANGED <<second, sent, twins, cursor, reach, relayStops>>

FinishRun ==
    /\ relay.pc = "relaying" /\ relay.batch = {}
    /\ relay' = AtRest
    /\ UNCHANGED <<second, sent, twins, event, cursor, reach, relayStops>>

RelayStop ==
    /\ relayStops < MaxRelayStops
    /\ relayStops' = relayStops + 1
    /\ relay' = AtRest
    /\ UNCHANGED <<second, sent, twins, event, cursor, reach>>

RelayNext ==
    \/ PassSecond \/ StartPoll \/ IngestPoll \/ PollFails \/ FinishRun \/ RelayStop
    \/ \E m \in Messages :
        \/ PublishUpstream(m)
        \/ \E status \in {"completed", "failed", "uncertain"} : Forward(m, status)

RelaySpec == RelayInit /\ [][RelayNext]_relayVars

RelayTypeOK ==
    /\ second \in 1..MaxSeconds
    /\ sent \in [Messages -> 0..MaxSeconds]
    /\ event \in [Messages -> {"absent", "pending", "completed", "failed", "uncertain", "deduped"}]
    /\ cursor \in 0..MaxSeconds
    /\ relay.pc \in {"idle", "polling", "relaying"}

\* The cursor never passes a message that is not stored, even one published in
\* the second the cursor stood at, or while the poll was under way.  Out of reach
\* is what came before the look-back of the first poll and, as long as no message
\* was seen, what came in a time without polls that is longer than the look-back.
NothingLeftBehind ==
    \A m \in Messages : sent[m] > 0 /\ sent[m] < cursor /\ sent[m] >= first => event[m] # "absent"
=============================================================================
