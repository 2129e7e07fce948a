------------------------- MODULE NotificationDispatch -------------------------
(***************************************************************************)
(* NotificationDispatcher.dispatch: one envelope, sent to every target the *)
(* policy resolves, each under a journal row of its own.  The module has   *)
(* no Init and no Next: the services that dispatch compose these steps     *)
(* with their own.                                                         *)
(*                                                                         *)
(* A row is a row of the action journal (module ActionJournal, where the   *)
(* lease protocol is checked and proved) as executeEffectOnce sees it.  A  *)
(* body stands for the payload hash of the envelope.                       *)
(***************************************************************************)
EXTENDS Naturals

CONSTANTS
    Keys,      \* idempotency keys of envelopes
    Targets,   \* pairs of a channel and a target id
    Adapters,  \* the targets whose channel has an adapter
    Bodies,    \* payloads
    Callers,   \* concurrent dispatch calls
    NoKey,     \* key of a call that is not under way
    NoBody,    \* body of a row that does not exist
    NoCaller   \* holder of a row that nobody will settle

VARIABLES
    row,       \* the journal row of each key and target
    call,      \* the dispatch calls under way
    delivered  \* per key and target, how often the target took the message

dispatchVars == <<row, call, delivered>>

RowStatuses == {"absent", "executing", "completed", "failed", "uncertain"}

Results == {"none", "sending", "completed", "failed", "uncertain"}

Rows == [status: RowStatuses, body: Bodies \cup {NoBody},
         holder: Callers \cup {NoCaller}, lapsed: BOOLEAN]

Calls == [key: Keys \cup {NoKey}, result: [Targets -> Results]]

NoRow == [status |-> "absent", body |-> NoBody, holder |-> NoCaller, lapsed |-> FALSE]

NoCall == [key |-> NoKey, result |-> [t \in Targets |-> "none"]]

DispatchTypeOK ==
    /\ row \in [Keys -> [Targets -> Rows]]
    /\ call \in [Callers -> Calls]
    /\ delivered \in [Keys -> [Targets -> Nat]]

DispatchInit ==
    /\ row = [k \in Keys |-> [t \in Targets |-> NoRow]]
    /\ call = [c \in Callers |-> NoCall]
    /\ delivered = [k \in Keys |-> [t \in Targets |-> 0]]

-----------------------------------------------------------------------------
(* reserve, as executeEffectOnce uses it.                                  *)

\* Settling a row takes its lease away.
Settled(r, s) == [r EXCEPT !.status = s, !.holder = NoCaller, !.lapsed = FALSE]

Abandoned(r) == r.status = "executing" /\ r.lapsed

\* Mutant of Granted: an abandoned attempt is made again.
GrantedAfterLapse(r, b) ==
    \/ r.status = "absent"
    \/ (r.status = "failed" \/ Abandoned(r)) /\ r.body = b

\* The row is given to a new attempt.
Granted(r, b) ==
    \/ r.status = "absent"
    \/ r.status = "failed" /\ r.body = b

RowAfter(c, r, b) ==
    CASE Granted(r, b) -> [status |-> "executing", body |-> b, holder |-> c, lapsed |-> FALSE]
      [] ~Granted(r, b) /\ Abandoned(r) -> Settled(r, "uncertain")
      [] OTHER -> r

\* What deliver knows of a target once reserve has returned: an executing row
\* under lease and a row of another payload are plain errors.
FirstResult(r, b) ==
    CASE Granted(r, b) -> "sending"
      [] ~Granted(r, b) /\ (r.status = "uncertain" \/ Abandoned(r)) -> "uncertain"
      [] r.status = "completed" /\ r.body = b -> "completed"
      [] OTHER -> "failed"

\* All targets are reserved before the first of them answers.
Reserve(c, k, b, resolved) ==
    /\ call[c].key = NoKey
    /\ row' = [row EXCEPT ![k] = [t \in Targets |->
                  IF t \in resolved \cap Adapters THEN RowAfter(c, row[k][t], b)
                                                  ELSE row[k][t]]]
    /\ call' = [call EXCEPT ![c] = [key |-> k, result |-> [t \in Targets |->
                  CASE t \notin resolved -> "none"
                    [] t \in resolved \ Adapters -> "failed"
                    [] OTHER -> FirstResult(row[k][t], b)]]]
    /\ UNCHANGED delivered

-----------------------------------------------------------------------------
(* How the operation of one target ends.                                   *)

Sending(c, k, t) == call[c].key = k /\ call[c].result[t] = "sending"

Holds(c, k, t) == row[k][t].status = "executing" /\ row[k][t].holder = c

Finalize(c, k, t, s) ==
    /\ Holds(c, k, t)
    /\ row' = [row EXCEPT ![k][t] = Settled(@, s)]

Report(c, t, s) == call' = [call EXCEPT ![c].result[t] = s]

Take(k, t) == delivered' = [delivered EXCEPT ![k][t] = @ + 1]

Accept(c, k, t) ==
    /\ Sending(c, k, t)
    /\ Finalize(c, k, t, "completed")
    /\ Report(c, t, "completed")
    /\ Take(k, t)

Reject(c, k, t) ==
    /\ Sending(c, k, t)
    /\ Finalize(c, k, t, "failed")
    /\ Report(c, t, "failed")
    /\ UNCHANGED delivered

\* A timeout, a broken connection or an invalid receipt: outcomeUncertain.
LoseAnswer(c, k, t) ==
    /\ Sending(c, k, t)
    /\ Finalize(c, k, t, "uncertain")
    /\ Report(c, t, "uncertain")
    /\ Take(k, t) \/ UNCHANGED delivered

\* The receipt cannot be stored; the second finalize may succeed.
ReceiptUnrecorded(c, k, t) ==
    /\ Sending(c, k, t)
    /\ Finalize(c, k, t, "uncertain") \/ UNCHANGED row
    /\ Report(c, t, "uncertain")
    /\ Take(k, t)

\* An error whose finalize throws is a plain error, whatever the outcome was.
FailureUnrecorded(c, k, t) ==
    /\ Sending(c, k, t)
    /\ Report(c, t, "failed")
    /\ Take(k, t) \/ UNCHANGED delivered
    /\ UNCHANGED row

Lapse(k, t) ==
    /\ row[k][t].status = "executing"
    /\ ~row[k][t].lapsed
    /\ row' = [row EXCEPT ![k][t].lapsed = TRUE]
    /\ UNCHANGED <<call, delivered>>

-----------------------------------------------------------------------------

Finished(c) ==
    /\ call[c].key # NoKey
    /\ \A t \in Targets : call[c].result[t] # "sending"

Told(c, s) == {t \in Targets : call[c].result[t] = s}

AggregateStatus(c) ==
    CASE Told(c, "uncertain") \cup Told(c, "failed") = {} -> "completed"
      [] Told(c, "uncertain") # {} -> "uncertain"
      [] Told(c, "uncertain") = {} /\ Told(c, "failed") # {} ->
             IF Told(c, "completed") # {} THEN "partial" ELSE "failed"

Return(c) ==
    /\ Finished(c)
    /\ call' = [call EXCEPT ![c] = NoCall]
    /\ UNCHANGED <<row, delivered>>

\* The process ends: its rows stay executing, and a message on its way may
\* still arrive.
Abandon ==
    /\ call' = [c \in Callers |-> NoCall]
    /\ row' = [k \in Keys |-> [t \in Targets |-> [row[k][t] EXCEPT !.holder = NoCaller]]]
    /\ \E lost \in SUBSET {kt \in Keys \X Targets : \E c \in Callers : Sending(c, kt[1], kt[2])} :
           delivered' = [k \in Keys |-> [t \in Targets |->
                            IF <<k, t>> \in lost THEN delivered[k][t] + 1 ELSE delivered[k][t]]]

DispatchStep ==
    \/ \E c \in Callers, k \in Keys, b \in Bodies, resolved \in SUBSET Targets :
           Reserve(c, k, b, resolved)
    \/ \E c \in Callers, k \in Keys, t \in Targets :
           \/ Accept(c, k, t) \/ Reject(c, k, t) \/ LoseAnswer(c, k, t)
           \/ ReceiptUnrecorded(c, k, t) \/ FailureUnrecorded(c, k, t)
    \/ \E k \in Keys, t \in Targets : Lapse(k, t)
    \/ \E c \in Callers : Return(c)
    \/ Abandon

\* Why nothing arrives twice: a row that is being sent belongs to one call and
\* has delivered nothing, and a row that delivered is never given out again.
DispatchInv ==
    /\ \A k \in Keys, t \in Targets :
           /\ delivered[k][t] <= 1
           /\ delivered[k][t] = 1 => row[k][t].status \in {"executing", "completed", "uncertain"}
    /\ \A c \in Callers, k \in Keys, t \in Targets : Sending(c, k, t) =>
           /\ delivered[k][t] = 0
           /\ row[k][t].status \in {"executing", "uncertain"}
           /\ \A d \in Callers : Sending(d, k, t) => d = c
=============================================================================
