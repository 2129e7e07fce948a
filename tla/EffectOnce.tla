------------------------------ MODULE EffectOnce ------------------------------
(***************************************************************************)
(* What the action journal promises to the services that deliver through   *)
(* it: the effect of a key happens at most once, the verdict on it is      *)
(* reached once, and the verdict "completed" is only reached after the     *)
(* effect.  A key whose verdict is in doubt may still see its effect.      *)
(***************************************************************************)
CONSTANTS Keys, Attempts

VARIABLES
    applied,  \* per key, the attempts whose effect has taken place
    verdict   \* per key, what the journal has concluded

Verdicts == {"open", "completed", "uncertain"}

Init ==
    /\ verdict \in [Keys -> Verdicts]
    /\ applied \in [Keys -> {{}} \cup {{t} : t \in Attempts}]
    /\ \A k \in Keys : verdict[k] = "completed" => applied[k] # {}

TakeEffect(k) ==
    /\ verdict[k] # "completed"
    /\ applied[k] = {}
    /\ \E t \in Attempts : applied' = [applied EXCEPT ![k] = {t}]
    /\ UNCHANGED verdict

Complete(k) ==
    /\ verdict[k] = "open"
    /\ applied[k] # {}
    /\ verdict' = [verdict EXCEPT ![k] = "completed"]
    /\ UNCHANGED applied

Doubt(k) ==
    /\ verdict[k] = "open"
    /\ verdict' = [verdict EXCEPT ![k] = "uncertain"]
    /\ UNCHANGED applied

Next == \E k \in Keys : TakeEffect(k) \/ Complete(k) \/ Doubt(k)

Spec == Init /\ [][Next]_<<applied, verdict>>
=============================================================================
