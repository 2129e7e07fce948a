------------------------------- MODULE Channels -------------------------------
(***************************************************************************)
(* The circuit breakers of the push channels (table channel_state): one    *)
(* for each Bark target, one for the Telegram bot that all chats share.    *)
(* A sender reads its breaker before the request and writes it when the    *)
(* answer is there, so sends to one channel overlap.  The module has no    *)
(* Init and no Next: the senders compose these steps with their own.       *)
(*                                                                         *)
(* A breaker that is open with its retry_after in the future "holds"; one  *)
(* whose retry_after has passed lets requests through like a degraded one. *)
(***************************************************************************)
EXTENDS Naturals

CONSTANTS
    BarkTargets, \* ids of the Bark targets
    Chats,       \* the Telegram chats on the allowlist
    Telegram,    \* name of the one Telegram channel
    OpenAfter    \* consecutive failures that open a breaker (3 in the code)

VARIABLES
    breaker,  \* per channel, the failures since the last success and whether it holds
    enabled   \* the targets a send may go to: Bark targets switched on, chats listed

Targets == BarkTargets \cup Chats

ChannelNames == BarkTargets \cup {Telegram}

ChannelOf(t) == IF t \in Chats THEN Telegram ELSE t

\* Failures beyond the threshold are not told apart by any test of the code.
Breakers == [failures: 0..OpenAfter, holds: BOOLEAN]

Ready == [failures |-> 0, holds |-> FALSE]

ChannelsTypeOK ==
    /\ breaker \in [ChannelNames -> Breakers]
    /\ enabled \subseteq Targets

ChannelsInit ==
    /\ breaker = [n \in ChannelNames |-> Ready]
    /\ enabled = Targets

\* asks: the answer carried a retry_after, which only Telegram's does.
AfterFailure(b, asks) ==
    [failures |-> IF b.failures < OpenAfter THEN b.failures + 1 ELSE OpenAfter,
     holds |-> b.failures + 1 >= OpenAfter \/ asks]

Holding(t) == breaker[ChannelOf(t)].holds

Success(t) == breaker' = [breaker EXCEPT ![ChannelOf(t)] = Ready]

Failure(t, asks) ==
    breaker' = [breaker EXCEPT ![ChannelOf(t)] = AfterFailure(@, asks)]

\* The retry_after of an open breaker passes.
HoldEnds(n) ==
    /\ breaker[n].holds
    /\ breaker' = [breaker EXCEPT ![n].holds = FALSE]
    /\ UNCHANGED enabled

\* upsertManagedTarget: a target is switched on or off (its breaker stays), or
\* gets a new device key or server, which forgets the failures of the old one.
Switch(t) ==
    /\ enabled' = IF t \in enabled THEN enabled \ {t} ELSE enabled \cup {t}
    /\ UNCHANGED breaker

Rekey(t) ==
    /\ t \in BarkTargets
    /\ breaker' = [breaker EXCEPT ![t] = Ready]
    /\ UNCHANGED enabled
=============================================================================
