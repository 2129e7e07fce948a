-------------------------------- MODULE MCLive -------------------------------
(* What the recurring services of the Gateway must do in the end: reminders   *)
(* and finance briefings, which send at fixed times, and the hourly deals.    *)
(* They share no state, so a behaviour is of one of them, and only that one   *)
(* is fair.                                                                   *)
EXTENDS MCReminders

CONSTANTS r1, d1

VARIABLES
    service,  \* "reminders", "briefings" or "deals"
    phase, claimed, brief, briefRow, got, minute, texts, scan, listed, stops,
    hour, deal, dealDigest, post, watch, seen, dealStops

Watch == INSTANCE Briefings WITH
    Kinds <- {1, 2}, Receivers <- {r1}, MaxTexts <- 2, MaxStops <- 1, row <- briefRow

Hourly == INSTANCE Deals WITH
    Deals <- {d1}, DealTargets <- {"bark", "chat"}, DealLimit <- 1, LastHour <- 2,
    MaxDealStops <- 2, digest <- dealDigest

watchVars == <<phase, claimed, brief, briefRow, got, minute, texts, scan, listed, stops>>
hourlyVars == <<hour, deal, dealDigest, post, watch, seen, dealStops>>

LiveInit ==
    /\ service \in {"reminders", "briefings", "deals"}
    /\ Init /\ Watch!BriefInit /\ Hourly!DealsInit
    /\ service # "reminders" => item = [i \in Items |-> "absent"]
    /\ service # "deals" => deal = [d \in {d1} |-> "absent"]

LiveNext ==
    \/ service = "reminders" /\ Next /\ UNCHANGED <<service, watchVars, hourlyVars>>
    \/ service = "briefings" /\ Watch!BriefNext /\ UNCHANGED <<service, vars, hourlyVars>>
    \/ service = "deals" /\ Hourly!DealsNext /\ UNCHANGED <<service, vars, watchVars>>

LiveSpec ==
    /\ LiveInit /\ [][LiveNext]_<<service, vars, watchVars, hourlyVars>>
    /\ \/ service = "reminders" /\ Fairness
       \/ service = "briefings" /\ Watch!BriefFairness
       \/ service = "deals" /\ Hourly!DealsFairness

\* Briefings: outside of grace periods the watch gets to claim a window.
WatchGoesOn == service = "briefings" => Watch!WatchGoesOn

\* Deals: a window with a post that a stop left executing is settled.
AbandonedWindowSettles == service = "deals" => Hourly!AbandonedWindowSettles
=============================================================================
