---------------------------- MODULE MarketSnapshot ----------------------------
(***************************************************************************)
(* The structured quotes of the finance briefings                          *)
(* (finance-market-snapshot-service.ts): two endpoints, the bars of every  *)
(* instrument, one session for all of them, the cache that stands in when  *)
(* both endpoints fail, and the words of the briefing: last night's close, *)
(* or no new close.  Time is counted in half hours from the opening of the *)
(* US session of day 0; a session lasts six and a half hours, a shortened  *)
(* one three and a half.                                                   *)
(***************************************************************************)
EXTENDS Integers, FiniteSets, FiniteSetsExt

CONSTANTS
    Benchmarks, Sectors,        \* instruments of the US market
    MinBenchmarks, MinSectors,  \* how many of them a session needs
    TradingDays,                \* the other days are closed
    ShortDays,                  \* the trading days on which the market closes early
    Instants,                   \* half hours of a day at which something is tried
    LastDay                     \* bound on the days

\* Days and half hours count from zero.
ASSUME MarketAssumption ==
    TradingDays \subseteq Nat /\ ShortDays \subseteq TradingDays /\ Instants \subseteq Nat /\ LastDay \in Nat

VARIABLES
    now,          \* half hours since the first opening
    quotes,       \* finance_market_snapshot_cache
    briefed,      \* the snapshot a briefing was last given
    marketHealth  \* finance_source_health: status, and the time of the last success

marketVars == <<now, quotes, briefed, marketHealth>>

Instruments == Benchmarks \cup Sectors
Day         == 48
Hours(h)    == 2 * h
Opening(d)  == Day * d
FullClose(d) == Opening(d) + 13
Closing(d)  == IF d \in ShortDays THEN Opening(d) + 7 ELSE FullClose(d)
NoSnapshot  == [session |-> -1, moves |-> {}, captured |-> 0, checked |-> 0]

MarketInit ==
    /\ now = 0
    /\ quotes = NoSnapshot /\ briefed = NoSnapshot
    /\ marketHealth = [status |-> "unknown", success |-> -1]

Moments == {Opening(d) + i : d \in 0..LastDay, i \in Instants}

Wait ==
    /\ \E t \in Moments : t > now
    /\ now' = Min({t \in Moments : t > now})
    /\ UNCHANGED <<quotes, briefed, marketHealth>>

-----------------------------------------------------------------------------
(* parseMarketSnapshotResponse.                                            *)

\* A session has a bar from its opening; an endpoint may lack the newest one.
Bars(answer) ==
    LET opened == {d \in TradingDays : Opening(d) <= now}
    IN  IF answer = "late" /\ opened # {} THEN opened \ {Max(opened)} ELSE opened

\* Mutant of Observed: the bar of a session that goes on counts as a close.
ObservedLive(answer) == Bars(answer)

\* The last bar is left out while its session goes on.
Observed(answer) ==
    {d \in Bars(answer) : ~(d = Max(Bars(answer)) /\ Opening(d) <= now /\ now < Closing(d))}

\* A move needs a bar and the one before it, and is that of the last bar.
LastBar(answer) == IF Cardinality(Observed(answer)) < 2 THEN -1 ELSE Max(Observed(answer))

\* What an instrument may show: nothing, or its last bar.
LastBars == {-1} \cup {LastBar(answer) : answer \in {"late", "now"}}

Moved(last, d) == {i \in Instruments : last[i] = d}

\* alignUsSession: the sessions enough instruments closed in.
AlignedSessions(last) ==
    {d \in {last[i] : i \in Instruments} \ {-1} :
        /\ Cardinality(Moved(last, d) \cap Benchmarks) >= MinBenchmarks
        /\ Cardinality(Moved(last, d) \cap Sectors) >= MinSectors}

-----------------------------------------------------------------------------
(* capture.                                                                *)

\* An answer that is too small is an error, and the next endpoint is asked.
Capture(last) ==
    /\ AlignedSessions(last) # {}
    /\ quotes' = LET d == Max(AlignedSessions(last))
                 IN  [session |-> d, moves |-> Moved(last, d), captured |-> now, checked |-> now]
    /\ briefed' = quotes'
    /\ marketHealth' = [status |-> "ready", success |-> now]
    /\ UNCHANGED now

\* Both failed: the cache serves for 72 hours, checked now.
CaptureFails ==
    /\ marketHealth' = [marketHealth EXCEPT !.status = "degraded"]
    /\ briefed' = IF quotes # NoSnapshot /\ now - quotes.captured <= Hours(72)
                  THEN [quotes EXCEPT !.checked = now] ELSE NoSnapshot
    /\ UNCHANGED <<now, quotes>>

MarketNext ==
    \/ Wait
    \/ \E last \in [Instruments -> LastBars] : Capture(last)
    \/ CaptureFails

MarketSpec == MarketInit /\ [][MarketNext]_marketVars

-----------------------------------------------------------------------------

\* Mutant of FreshAge: a session counts as last night's for a day and a half.
FreshAgeLong == Hours(36)

\* usMarketSession: how old, from its opening, last night's session may be.
FreshAge == Hours(30)

Fresh(s) == LET age == s.checked - Opening(s.session) IN 0 <= age /\ age <= FreshAge

\* The types of the snapshots.
MarketTypeOK ==
    /\ now \in Moments \cup {0}
    /\ \A s \in {quotes, briefed} : s = NoSnapshot \/ (s.session \in TradingDays /\ s.moves \subseteq Instruments)
    /\ marketHealth.status \in {"unknown", "ready", "degraded"} /\ marketHealth.success <= now

\* A briefing reports completed sessions only, of enough instruments.  What it
\* calls last night's close is the last one there has been, from the cache as
\* well; only a shortened session of the very next day can have closed since,
\* and then its ordinary hour has not come (completed_daily_bars, the 30 hours
\* of usMarketSession).
LastNightIsLast ==
    briefed # NoSnapshot =>
        /\ Closing(briefed.session) <= briefed.captured
        /\ Cardinality(briefed.moves \cap Benchmarks) >= MinBenchmarks
        /\ Fresh(briefed) =>
              \A d \in TradingDays : d > briefed.session /\ Closing(d) <= briefed.checked =>
                  d \in ShortDays /\ d = briefed.session + 1 /\ briefed.checked < FullClose(d)

=============================================================================
