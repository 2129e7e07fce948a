---------------------------- MODULE MCIntelligence ----------------------------
(* The intelligence that is pushed and what readers say of it.  The two share  *)
(* the breakers of the channels and nothing else, so they are checked one at a *)
(* time, the breaker starting closed: the first state chooses which.           *)
(* Pushes are checked with disturbances and all but one of the candidates, and *)
(* without disturbances and with all of them.                                  *)
EXTENDS Intelligence, Feedback, TLC

VARIABLE service

readerOnly == <<asked, answered, entry, handler, link, feedback, credited, timeline, replied,
                readerStops>>

PushInit ==
    /\ service \in {"push", "calm", "feedback"}
    /\ Init /\ FeedbackInit
    /\ service # "feedback" => \A u \in Updates : asked[u] = "chatter"

PushNext ==
    \/ /\ service \in {"push", "calm"} /\ Next
       /\ service = "push" => cand'[MaxCandidates].status = "absent"
       /\ service = "calm" => faults' = 0
       /\ UNCHANGED <<service, readerOnly>>
    \/ service = "feedback" /\ FeedbackNext
       /\ UNCHANGED <<service, cand, journal, delivered, worker, cooling, faults>>

PushSpec == PushInit /\ [][PushNext]_<<service, vars, readerOnly>>

OneCandidate == [l \in Links |-> CHOOSE c \in LinkedCandidates : TRUE]

Symmetry == Permutations(Workers) \cup Permutations(Links)
=============================================================================
