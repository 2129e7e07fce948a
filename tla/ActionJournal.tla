---------------------------- MODULE ActionJournal ----------------------------
(***************************************************************************)
(* The action journal: the table that the notifications of the Gateway     *)
(* (Telegram, Bark, ntfy) go through.  A caller                            *)
(* reserves the row of an idempotency key, runs the external operation and *)
(* settles the row.  Callers may live in different processes that share    *)
(* the SQLite file, so they interleave between any two steps below; each   *)
(* step is one database transaction or one network event.                  *)
(*                                                                         *)
(* Lease tokens are random UUIDs in the code; here the token of a          *)
(* reservation is the number of that attempt, which is as unique.  The     *)
(* five minute lease is a flag that Lapse raises at any moment after the   *)
(* reservation, also while the operation is still running.                 *)
(***************************************************************************)
EXTENDS Naturals

CONSTANTS
    Keys,          \* idempotency keys
    Hashes,        \* request hashes
    Callers,       \* concurrent calls, in one process or in several
    StrictCallers, \* those that use executeOnce instead of executeEffectOnce
    NoHash,        \* hash of a row that does not exist
    MaxAttempts    \* bound on the attempts made with one key

ASSUME JournalAssumption ==
    /\ StrictCallers \subseteq Callers
    /\ NoHash \notin Hashes
    /\ MaxAttempts \in Nat \ {0}

VARIABLES
    row,     \* the action_journal table
    caller,  \* what each concurrent call is doing
    wire,    \* per key, the attempts whose request the service may still act on
    applied  \* per key, the attempts whose effect has taken place

vars == <<row, caller, wire, applied>>

Statuses == {"absent", "executing", "completed", "failed", "uncertain"}

Rows == [status: Statuses, hash: Hashes \cup {NoHash}, attempts: Nat,
         token: Nat, lapsed: BOOLEAN]

Absent == [status |-> "absent", hash |-> NoHash, attempts |-> 0,
           token |-> 0, lapsed |-> FALSE]

\* pc: reserved (row taken, nothing sent), sent (request on the wire), then how
\* the operation ended: receipt, refusal, silence; unrecorded is the catch
\* block after a receipt whose completion could not be stored.
Pcs == {"idle", "reserved", "sent", "receipt", "refusal", "silence", "unrecorded"}

Answers == {"none", "completed", "replayed", "failed", "uncertain", "busy", "rejected"}

CallRecords == [pc: Pcs, key: Keys, hash: Hashes, token: Nat, answer: Answers]

\* Tables left behind by the JSON journal that importLegacy reads: rows with
\* no lease, whose lease test falls back to an updated_at in the past.
LegacyRow(h, s) == [status |-> s, hash |-> h, attempts |-> 1,
                    token |-> 0, lapsed |-> TRUE]

LegacyRows == {LegacyRow(h, s) : h \in Hashes, s \in Statuses \ {"absent"}}

LegacyEffects(r) ==
    CASE r.status = "completed" -> {{1}}
      [] r.status \in {"executing", "uncertain"} -> {{}, {1}}
      [] OTHER -> {{}}

Init ==
    /\ row \in [Keys -> {Absent} \cup LegacyRows]
    /\ \E k0 \in Keys, h0 \in Hashes :
           caller = [c \in Callers |-> [pc |-> "idle", key |-> k0, hash |-> h0,
                                       token |-> 0, answer |-> "none"]]
    /\ wire = [k \in Keys |-> {}]
    /\ applied \in [Keys -> {{}, {1}}]
    /\ \A k \in Keys : applied[k] \in LegacyEffects(row[k])

-----------------------------------------------------------------------------
(* reserve: one transaction, one outcome for each branch of the code.      *)

Return(c, k, h, a) ==
    caller' = [caller EXCEPT ![c] = [pc |-> "idle", key |-> k, hash |-> h,
                                     token |-> 0, answer |-> a]]

Calling(c) == caller[c].pc = "idle"

\* The lease of an executing row still protects it.
Leased(r) == r.status = "executing" /\ ~r.lapsed

Replay(c, k, h) ==
    /\ Calling(c)
    /\ row[k].status = "completed"
    /\ row[k].hash = h
    /\ Return(c, k, h, IF c \in StrictCallers THEN "rejected" ELSE "replayed")
    /\ UNCHANGED <<row, wire, applied>>

RefuseUncertain(c, k, h) ==
    /\ Calling(c)
    /\ row[k].status = "uncertain"
    /\ Return(c, k, h, "uncertain")
    /\ UNCHANGED <<row, wire, applied>>

RefuseBusy(c, k, h) ==
    /\ Calling(c)
    /\ Leased(row[k])
    /\ Return(c, k, h, "busy")
    /\ UNCHANGED <<row, wire, applied>>

\* An abandoned attempt is never replayed: the row becomes uncertain.
MarkAbandoned(c, k, h) ==
    /\ Calling(c)
    /\ c \notin StrictCallers
    /\ row[k].status = "executing"
    /\ row[k].lapsed
    /\ row' = [row EXCEPT ![k].status = "uncertain", ![k].token = 0]
    /\ Return(c, k, h, "uncertain")
    /\ UNCHANGED <<wire, applied>>

\* Mutants of Retryable: an expired lease, or an uncertain outcome, is enough.
RetryableAfterLapse(c, r) == r.status = "failed" \/ (r.status = "executing" /\ r.lapsed)

RetryableWhenUncertain(c, r) == r.status \in {"failed", "uncertain"}

\* Rows a new attempt may take over: failed ones and, for strict callers
\* only, an executing one whose lease has lapsed.
Retryable(c, r) ==
    \/ r.status = "failed"
    \/ c \in StrictCallers /\ r.status = "executing" /\ r.lapsed

RefuseConflict(c, k, h) ==
    /\ Calling(c)
    /\ Retryable(c, row[k]) \/ row[k].status = "completed"
    /\ row[k].hash # h
    /\ Return(c, k, h, "rejected")
    /\ UNCHANGED <<row, wire, applied>>

Grant(c, k, h) ==
    /\ Calling(c)
    /\ row[k].status = "absent" \/ (Retryable(c, row[k]) /\ row[k].hash = h)
    /\ row[k].attempts < MaxAttempts
    /\ row' = [row EXCEPT ![k] = [status |-> "executing", hash |-> h,
                                  attempts |-> row[k].attempts + 1,
                                  token |-> row[k].attempts + 1, lapsed |-> FALSE]]
    /\ caller' = [caller EXCEPT ![c] = [pc |-> "reserved", key |-> k, hash |-> h,
                                        token |-> row[k].attempts + 1, answer |-> "none"]]
    /\ UNCHANGED <<wire, applied>>

-----------------------------------------------------------------------------
(* The operation and the external service.                                 *)

Goto(c, pc) == caller' = [caller EXCEPT ![c].pc = pc]

Send(c) ==
    /\ caller[c].pc = "reserved"
    /\ wire' = [wire EXCEPT ![caller[c].key] = @ \cup {caller[c].token}]
    /\ Goto(c, "sent")
    /\ UNCHANGED <<row, applied>>

\* The operation throws before anything leaves the process.
FailBeforeSend(c) ==
    /\ caller[c].pc = "reserved"
    /\ Goto(c, "refusal")
    /\ UNCHANGED <<row, wire, applied>>

\* The service acts on a request, perhaps long after its sender stopped waiting.
TakeEffect(k, t) ==
    /\ t \in wire[k]
    /\ wire' = [wire EXCEPT ![k] = @ \ {t}]
    /\ applied' = [applied EXCEPT ![k] = @ \cup {t}]
    /\ UNCHANGED <<row, caller>>

\* The service answers that it will not act: an error without outcomeUncertain.
Refuse(c) ==
    /\ caller[c].pc = "sent"
    /\ caller[c].token \in wire[caller[c].key]
    /\ wire' = [wire EXCEPT ![caller[c].key] = @ \ {caller[c].token}]
    /\ Goto(c, "refusal")
    /\ UNCHANGED <<row, applied>>

Receive(c) ==
    /\ caller[c].pc = "sent"
    /\ caller[c].token \in applied[caller[c].key]
    /\ Goto(c, "receipt")
    /\ UNCHANGED <<row, wire, applied>>

\* Timeout or broken connection: an error with outcomeUncertain = true.
LoseAnswer(c) ==
    /\ caller[c].pc = "sent"
    /\ Goto(c, "silence")
    /\ UNCHANGED <<row, wire, applied>>

-----------------------------------------------------------------------------
(* finalize and the catch blocks around it.                                *)

\* The WHERE clause of finalize: the row still carries this call's token.
Holds(c) ==
    /\ row[caller[c].key].status = "executing"
    /\ row[caller[c].key].token = caller[c].token

Finalize(c, s) ==
    /\ Holds(c)
    /\ row' = [row EXCEPT ![caller[c].key].status = s, ![caller[c].key].token = 0]

Answer(c, a) == caller' = [caller EXCEPT ![c].pc = "idle", ![c].token = 0, ![c].answer = a]

SettleCompleted(c) ==
    /\ caller[c].pc = "receipt"
    /\ Finalize(c, "completed")
    /\ Answer(c, "completed")
    /\ UNCHANGED <<wire, applied>>

\* Mutant of CompletionLost: treated like an operation that failed.
CompletionLostAsFailure(c) ==
    /\ caller[c].pc = "receipt"
    /\ Goto(c, "refusal")
    /\ UNCHANGED <<row, wire, applied>>

\* finalize throws: the lease was lost or the database refused the write.
\* executeOnce falls into the same catch block as a failed operation.
CompletionLost(c) ==
    /\ caller[c].pc = "receipt"
    /\ Goto(c, IF c \in StrictCallers THEN "refusal" ELSE "unrecorded")
    /\ UNCHANGED <<row, wire, applied>>

SettleUncertain(c) ==
    /\ caller[c].pc = "unrecorded" \/ (caller[c].pc = "silence" /\ c \notin StrictCallers)
    /\ Finalize(c, "uncertain")
    /\ Answer(c, "uncertain")
    /\ UNCHANGED <<wire, applied>>

SettleFailed(c) ==
    /\ caller[c].pc = "refusal" \/ (caller[c].pc = "silence" /\ c \in StrictCallers)
    /\ Finalize(c, "failed")
    /\ Answer(c, "failed")
    /\ UNCHANGED <<wire, applied>>

\* The last finalize throws as well: the row stays as it is.  Only the catch
\* block after a receipt still reports the outcome as uncertain.
SettlementLost(c) ==
    /\ caller[c].pc \in {"refusal", "silence", "unrecorded"}
    /\ Answer(c, IF caller[c].pc = "unrecorded" THEN "uncertain" ELSE "failed")
    /\ UNCHANGED <<row, wire, applied>>

-----------------------------------------------------------------------------
(* The environment: time and crashes.                                      *)

Lapse(k) ==
    /\ Leased(row[k])
    /\ row' = [row EXCEPT ![k].lapsed = TRUE]
    /\ UNCHANGED <<caller, wire, applied>>

Crash(c) ==
    /\ caller[c].pc # "idle"
    /\ Answer(c, "none")
    /\ UNCHANGED <<row, wire, applied>>

Reserve(c, k, h) ==
    \/ Replay(c, k, h)
    \/ RefuseUncertain(c, k, h)
    \/ RefuseBusy(c, k, h)
    \/ MarkAbandoned(c, k, h)
    \/ RefuseConflict(c, k, h)
    \/ Grant(c, k, h)

Operate(c) ==
    \/ Send(c) \/ FailBeforeSend(c)
    \/ Refuse(c) \/ Receive(c) \/ LoseAnswer(c)

Settle(c) ==
    \/ SettleCompleted(c) \/ CompletionLost(c)
    \/ SettleUncertain(c) \/ SettleFailed(c) \/ SettlementLost(c)

Next ==
    \/ \E c \in Callers, k \in Keys, h \in Hashes : Reserve(c, k, h)
    \/ \E c \in Callers : Operate(c) \/ Settle(c) \/ Crash(c)
    \/ \E k \in Keys : Lapse(k) \/ \E t \in wire[k] : TakeEffect(k, t)

Spec == Init /\ [][Next]_vars

-----------------------------------------------------------------------------
\* The promise of EffectOnce, read off the rows: absent, executing and failed
\* rows are open.
Verdict ==
    [k \in Keys |-> IF row[k].status \in {"completed", "uncertain"}
                    THEN row[k].status ELSE "open"]

Promise == INSTANCE EffectOnce WITH Attempts <- 1..MaxAttempts, verdict <- Verdict

\* Every step of the journal is a step, or no step, of the promise made to the
\* services that deliver through it.
KeepsPromise == Promise!Spec

TypeOK ==
    /\ row \in [Keys -> Rows]
    /\ caller \in [Callers -> CallRecords]
    /\ wire \in [Keys -> SUBSET Nat]
    /\ applied \in [Keys -> SUBSET Nat]

\* No effect is repeated: whatever crashes, retries and late requests there
\* are, at most one attempt with a key ever takes effect (ADR-0008).
AtMostOnce == \A k \in Keys : \A s, t \in applied[k] : s = t

\* A retry is only safe if no earlier request can still act: at most one
\* request of a key is on the wire, and none once an effect took place.
NoRequestBehindRetry ==
    \A k \in Keys :
        /\ \A s, t \in wire[k] : s = t
        /\ applied[k] # {} => wire[k] = {}

\* The row never lies: completed means the effect took place, and failed,
\* the state from which the same key is tried again, means that it did not
\* and that it never will.
RowIsTruthful ==
    \A k \in Keys :
        /\ row[k].status = "completed" => applied[k] # {}
        /\ row[k].status \in {"absent", "failed"} => applied[k] = {} /\ wire[k] = {}

\* A caller that was told completed or replayed asked for the very request
\* whose effect took place.
ReceiptMatchesRequest ==
    \A c \in Callers :
        caller[c].answer \in {"completed", "replayed"} =>
            /\ applied[caller[c].key] # {}
            /\ row[caller[c].key].hash = caller[c].hash

\* The strengthening the proofs use: an attempt in flight is the last one of
\* its row, it is the only one, and the wire agrees with how far it has come.
InFlight(c) == caller[c].pc # "idle"

AttemptIsLast(c) ==
    LET k == caller[c].key IN
    /\ caller[c].token = row[k].attempts
    /\ caller[c].hash = row[k].hash
    /\ row[k].status \in {"executing", "uncertain"}
    /\ caller[c].pc \in {"reserved", "refusal"} => wire[k] = {} /\ applied[k] = {}
    /\ caller[c].pc \in {"receipt", "unrecorded"} => applied[k] # {}

JournalInv ==
    /\ \A k \in Keys : wire[k] \cup applied[k] \subseteq {row[k].attempts}
    /\ \A k \in Keys : wire[k] \cap applied[k] = {}
    /\ \A c \in Callers : InFlight(c) => AttemptIsLast(c)
    /\ \A c, d \in Callers :
           InFlight(c) /\ InFlight(d) /\ caller[c].key = caller[d].key => c = d
    /\ RowIsTruthful
    /\ ReceiptMatchesRequest

\* Two calls never both hold the lease of a row, whatever mode they use: the
\* second one would settle an attempt that is not its own.
OneLeaseHolder ==
    \A c, d \in Callers :
        /\ caller[c].pc # "idle" /\ caller[d].pc # "idle"
        /\ caller[c].key = caller[d].key
        /\ Holds(c) /\ Holds(d)
        => c = d

\* Once completed or uncertain a row never changes, and a key stays with the
\* request it was first used for.
RowNeverRewritten ==
    [][\A k \in Keys :
        /\ row[k].status \in {"completed", "uncertain"} => row'[k] = row[k]
        /\ row[k].status # "absent" => row'[k].hash = row[k].hash]_vars
=============================================================================
