------------------------- MODULE ActionJournalProofs -------------------------
(***************************************************************************)
(* Proofs about the action journal, for any number of keys, requests,      *)
(* callers and attempts.  JournalInv is inductive when no caller is strict *)
(* (executeOnce may retry an attempt whose request is still on the wire).  *)
(***************************************************************************)
EXTENDS ActionJournal, TLAPS

\* Every step, one disjunct per action of the journal.
LEMMA NextCases ==
    ASSUME Next
    PROVE  \/ \E c \in Callers, k \in Keys, h \in Hashes :
                 \/ Replay(c, k, h) \/ RefuseUncertain(c, k, h) \/ RefuseBusy(c, k, h)
                 \/ MarkAbandoned(c, k, h) \/ RefuseConflict(c, k, h) \/ Grant(c, k, h)
           \/ \E c \in Callers :
                 \/ Send(c) \/ FailBeforeSend(c) \/ Refuse(c) \/ Receive(c) \/ LoseAnswer(c)
                 \/ SettleCompleted(c) \/ CompletionLost(c) \/ SettleUncertain(c)
                 \/ SettleFailed(c) \/ SettlementLost(c) \/ Crash(c)
           \/ \E k \in Keys : Lapse(k)
           \/ \E k \in Keys : \E t \in wire[k] : TakeEffect(k, t)
  BY Zenon DEF Next, Reserve, Operate, Settle

\* The initial tables, whether empty or imported, are well typed.
LEMMA InitTypeOK == Init => TypeOK
  <1> SUFFICES ASSUME Init PROVE TypeOK
    OBVIOUS
  <1>1. row \in [Keys -> Rows]
    <2>1. Absent \in Rows
      BY DEF Absent, Rows, Statuses
    <2>2. LegacyRows \subseteq Rows
      <3>1. \A h \in Hashes, s \in Statuses : LegacyRow(h, s) \in Rows
        BY DEF LegacyRow, Rows
      <3>2. \A r \in LegacyRows : \E h \in Hashes, s \in Statuses : r = LegacyRow(h, s)
        BY DEF LegacyRows
      <3> QED BY <3>1, <3>2
    <2>3. row \in [Keys -> {Absent} \cup LegacyRows]
      BY DEF Init
    <2>4. \A k \in Keys : row[k] \in Rows
      BY <2>1, <2>2, <2>3
    <2> QED BY <2>3, <2>4
  <1>2. caller \in [Callers -> CallRecords]
    BY DEF Init, CallRecords, Pcs, Answers
  <1>3. wire \in [Keys -> SUBSET Nat] /\ applied \in [Keys -> SUBSET Nat]
    BY DEF Init
  <1> QED BY <1>1, <1>2, <1>3 DEF TypeOK

\* A call that moves to another program point keeps everything else.
LEMMA GotoFrame ==
    ASSUME TypeOK, NEW c \in Callers, NEW p \in Pcs, Goto(c, p)
    PROVE  /\ caller' \in [Callers -> CallRecords]
           /\ caller'[c].pc = p
           /\ caller'[c].key = caller[c].key
           /\ caller'[c].hash = caller[c].hash
           /\ caller'[c].token = caller[c].token
           /\ caller'[c].answer = caller[c].answer
           /\ \A d \in Callers : d # c => caller'[d] = caller[d]
  <1>1. caller[c] \in CallRecords /\ [caller[c] EXCEPT !.pc = p] \in CallRecords
    BY DEF TypeOK, CallRecords
  <1>2. caller' = [caller EXCEPT ![c] = [caller[c] EXCEPT !.pc = p]]
    BY DEF Goto
  <1> QED BY <1>1, <1>2 DEF TypeOK, CallRecords

\* A call that ends becomes idle with its answer; the others are untouched.
LEMMA AnswerFrame ==
    ASSUME TypeOK, NEW c \in Callers, NEW a \in Answers, Answer(c, a)
    PROVE  /\ caller' \in [Callers -> CallRecords]
           /\ caller'[c].pc = "idle"
           /\ caller'[c].key = caller[c].key
           /\ caller'[c].hash = caller[c].hash
           /\ caller'[c].answer = a
           /\ \A d \in Callers : d # c => caller'[d] = caller[d]
  <1> DEFINE r == [caller[c] EXCEPT !.pc = "idle", !.token = 0, !.answer = a]
  <1>1. caller[c] \in CallRecords /\ r \in CallRecords
    BY DEF TypeOK, CallRecords, Pcs
  <1>2. caller' = [caller EXCEPT ![c] = r]
    BY DEF Answer
  <1> QED BY <1>1, <1>2 DEF TypeOK, CallRecords

\* So does a call that reserve turns away.
LEMMA ReturnFrame ==
    ASSUME TypeOK, NEW c \in Callers, NEW k \in Keys, NEW h \in Hashes,
           NEW a \in Answers, Return(c, k, h, a)
    PROVE  /\ caller' \in [Callers -> CallRecords]
           /\ caller'[c].pc = "idle"
           /\ caller'[c].key = k
           /\ caller'[c].hash = h
           /\ caller'[c].answer = a
           /\ \A d \in Callers : d # c => caller'[d] = caller[d]
  <1> DEFINE r == [pc |-> "idle", key |-> k, hash |-> h, token |-> 0, answer |-> a]
  <1>1. r \in CallRecords
    BY DEF CallRecords, Pcs
  <1>2. caller' = [caller EXCEPT ![c] = r]
    BY DEF Return
  <1> QED BY <1>1, <1>2 DEF TypeOK

\* Settling a row changes its status and clears its token, nothing else.
LEMMA FinalizeFrame ==
    ASSUME TypeOK, NEW c \in Callers, NEW s \in Statuses, Finalize(c, s)
    PROVE  /\ row' \in [Keys -> Rows]
           /\ row[caller[c].key].status = "executing"
           /\ row'[caller[c].key].status = s
           /\ row'[caller[c].key].hash = row[caller[c].key].hash
           /\ row'[caller[c].key].attempts = row[caller[c].key].attempts
           /\ \A k \in Keys : k # caller[c].key => row'[k] = row[k]
  <1> DEFINE k == caller[c].key
             r == [row[k] EXCEPT !.status = s, !.token = 0]
  <1>1. k \in Keys
    BY DEF TypeOK, CallRecords
  <1>2. row[k] \in Rows /\ r \in Rows
    BY <1>1 DEF TypeOK, Rows
  <1>3. row' = [row EXCEPT ![k] = r] /\ row[k].status = "executing"
    BY DEF Finalize, Holds
  <1> QED BY <1>1, <1>2, <1>3 DEF TypeOK, Rows

\* No step of the journal leaves the types.
LEMMA NextTypeOK == TypeOK /\ [Next]_vars => TypeOK'
  <1> SUFFICES ASSUME TypeOK, [Next]_vars PROVE TypeOK'
    OBVIOUS
  <1>1. ASSUME NEW c \in Callers, NEW k \in Keys, NEW h \in Hashes,
               \/ Replay(c, k, h) \/ RefuseUncertain(c, k, h)
               \/ RefuseBusy(c, k, h) \/ RefuseConflict(c, k, h)
        PROVE  TypeOK'
    <2>1. PICK a \in Answers : Return(c, k, h, a)
      BY <1>1 DEF Replay, RefuseUncertain, RefuseBusy, RefuseConflict, Answers
    <2>2. UNCHANGED <<row, wire, applied>>
      BY <1>1 DEF Replay, RefuseUncertain, RefuseBusy, RefuseConflict
    <2> QED BY <2>1, <2>2, ReturnFrame DEF TypeOK
  <1>2. ASSUME NEW c \in Callers, NEW k \in Keys, NEW h \in Hashes, MarkAbandoned(c, k, h)
        PROVE  TypeOK'
    <2>1. caller' \in [Callers -> CallRecords]
      BY <1>2, ReturnFrame DEF MarkAbandoned, Answers
    <2>2. row' \in [Keys -> Rows]
      BY SMTT(20), ZenonT(30), <1>2 DEF MarkAbandoned, TypeOK, Rows, Statuses
    <2> QED BY <1>2, <2>1, <2>2 DEF MarkAbandoned, TypeOK
  <1>3. ASSUME NEW c \in Callers, NEW k \in Keys, NEW h \in Hashes, Grant(c, k, h)
        PROVE  TypeOK'
    <2>1. row[k].attempts + 1 \in Nat
      BY DEF TypeOK, Rows
    <2>2. [pc |-> "reserved", key |-> k, hash |-> h, token |-> row[k].attempts + 1,
           answer |-> "none"] \in CallRecords
      BY <2>1 DEF CallRecords, Pcs, Answers
    <2>3. [status |-> "executing", hash |-> h, attempts |-> row[k].attempts + 1,
           token |-> row[k].attempts + 1, lapsed |-> FALSE] \in Rows
      BY <2>1 DEF Rows, Statuses
    <2> QED BY <1>3, <2>2, <2>3 DEF Grant, TypeOK
  <1>4. ASSUME NEW c \in Callers,
               FailBeforeSend(c) \/ Receive(c) \/ LoseAnswer(c) \/ CompletionLost(c)
        PROVE  TypeOK'
    <2>1. PICK p \in Pcs : Goto(c, p)
      BY <1>4 DEF FailBeforeSend, Receive, LoseAnswer, CompletionLost, Pcs
    <2>2. UNCHANGED <<row, wire, applied>>
      BY <1>4 DEF FailBeforeSend, Receive, LoseAnswer, CompletionLost
    <2> QED BY <2>1, <2>2, GotoFrame DEF TypeOK
  <1>5. ASSUME NEW c \in Callers, Send(c) \/ Refuse(c)
        PROVE  TypeOK'
    <2>1. caller' \in [Callers -> CallRecords]
      BY <1>5, GotoFrame DEF Send, Refuse, Pcs
    <2>2. wire' \in [Keys -> SUBSET Nat]
      BY <1>5 DEF Send, Refuse, TypeOK, CallRecords
    <2> QED BY <1>5, <2>1, <2>2 DEF Send, Refuse, TypeOK
  <1>6. ASSUME NEW c \in Callers,
               SettleCompleted(c) \/ SettleUncertain(c) \/ SettleFailed(c)
        PROVE  TypeOK'
    <2>1. PICK a \in Answers \cap Statuses : Finalize(c, a) /\ Answer(c, a)
      BY <1>6 DEF SettleCompleted, SettleUncertain, SettleFailed, Answers, Statuses
    <2>2. UNCHANGED <<wire, applied>>
      BY <1>6 DEF SettleCompleted, SettleUncertain, SettleFailed
    <2> QED BY <2>1, <2>2, AnswerFrame, FinalizeFrame DEF TypeOK
  <1>7. ASSUME NEW c \in Callers, SettlementLost(c) \/ Crash(c)
        PROVE  TypeOK'
    <2>1. PICK a \in Answers : Answer(c, a)
      BY <1>7 DEF SettlementLost, Crash, Answers
    <2>2. UNCHANGED <<row, wire, applied>>
      BY <1>7 DEF SettlementLost, Crash
    <2> QED BY <2>1, <2>2, AnswerFrame DEF TypeOK
  <1>8. ASSUME NEW k \in Keys, Lapse(k)
        PROVE  TypeOK'
    BY <1>8 DEF Lapse, TypeOK, Rows
  <1>9. ASSUME NEW k \in Keys, NEW t \in wire[k], TakeEffect(k, t)
        PROVE  TypeOK'
    BY <1>9 DEF TakeEffect, TypeOK
  <1>10. CASE UNCHANGED vars
    BY <1>10 DEF vars, TypeOK
  <1> QED
    BY <1>1, <1>2, <1>3, <1>4, <1>5, <1>6, <1>7, <1>8, <1>9, <1>10, NextCases

\* The variables keep their types in every reachable state of the journal.
THEOREM JournalTypeCorrect == Spec => []TypeOK
  BY InitTypeOK, NextTypeOK, PTL DEF Spec

\* The initial tables satisfy the inductive invariant.
LEMMA InitJournalInv == Init => JournalInv
  <1> SUFFICES ASSUME Init PROVE JournalInv
    OBVIOUS
  <1>1. \A c \in Callers : caller[c].pc = "idle" /\ caller[c].answer = "none"
    BY DEF Init
  <1>2. \A k \in Keys : row[k] = Absent \/ row[k] \in LegacyRows
    BY DEF Init
  <1>3. ASSUME NEW k \in Keys
        PROVE  /\ wire[k] = {}
               /\ applied[k] \subseteq {row[k].attempts}
               /\ row[k].status = "completed" => applied[k] # {}
               /\ row[k].status \in {"absent", "failed"} => applied[k] = {}
    <2>1. CASE row[k] = Absent
      BY <2>1 DEF Init, LegacyEffects, Absent
    <2>2. CASE row[k] \in LegacyRows
      <3>1. PICK h \in Hashes, s \in Statuses \ {"absent"} : row[k] = LegacyRow(h, s)
        BY <2>2 DEF LegacyRows
      <3>2. row[k].status = s /\ row[k].attempts = 1
        BY <3>1 DEF LegacyRow
      <3>3. wire[k] = {} /\ applied[k] \in LegacyEffects(row[k])
        BY DEF Init
      <3>4. /\ applied[k] \subseteq {1}
            /\ s = "completed" => applied[k] # {}
            /\ s = "failed" => applied[k] = {}
        BY <3>2, <3>3 DEF LegacyEffects, Statuses
      <3> QED BY <3>2, <3>3, <3>4
    <2> QED BY <1>2, <2>1, <2>2
  <1> QED BY <1>1, <1>3 DEF JournalInv, InFlight, AttemptIsLast, RowIsTruthful, ReceiptMatchesRequest

\* The inductive step: StrictCallers = {} is what makes a lapsed row final.
LEMMA NextJournalInv ==
    ASSUME StrictCallers = {}, TypeOK, JournalInv, [Next]_vars
    PROVE  JournalInv'
  <1>1. ASSUME NEW c \in Callers, NEW k \in Keys, NEW h \in Hashes,
               RefuseUncertain(c, k, h) \/ RefuseBusy(c, k, h) \/ RefuseConflict(c, k, h)
        PROVE  JournalInv'
    <2>1. PICK a \in {"uncertain", "busy", "rejected"} : Return(c, k, h, a)
      BY <1>1 DEF RefuseUncertain, RefuseBusy, RefuseConflict
    <2>2. UNCHANGED <<row, wire, applied>>
      BY <1>1 DEF RefuseUncertain, RefuseBusy, RefuseConflict
    <2>3. caller'[c].pc = "idle" /\ caller'[c].answer = a
      BY <2>1, ReturnFrame DEF Answers
    <2>4. \A d \in Callers : d # c => caller'[d] = caller[d]
      BY <2>1, ReturnFrame DEF Answers
    <2> QED
      BY <2>2, <2>3, <2>4
      DEF JournalInv, InFlight, AttemptIsLast, RowIsTruthful, ReceiptMatchesRequest
  <1>2. ASSUME NEW c \in Callers, NEW k \in Keys, NEW h \in Hashes, Replay(c, k, h)
        PROVE  JournalInv'
    <2>1. Return(c, k, h, "replayed")
      BY <1>2 DEF Replay
    <2>2. UNCHANGED <<row, wire, applied>> /\ row[k].status = "completed" /\ row[k].hash = h
      BY <1>2 DEF Replay
    <2>3. caller'[c].pc = "idle" /\ caller'[c].key = k /\ caller'[c].hash = h
      BY <2>1, ReturnFrame DEF Answers
    <2>4. \A d \in Callers : d # c => caller'[d] = caller[d]
      BY <2>1, ReturnFrame DEF Answers
    <2>5. \A d \in Callers : InFlight(d)' => d # c /\ InFlight(d)
      BY <2>3, <2>4 DEF InFlight
    <2>6. (\A d \in Callers : InFlight(d) => AttemptIsLast(d))'
      BY <2>2, <2>4, <2>5 DEF JournalInv, AttemptIsLast
    <2>7. (\A d, e \in Callers :
              InFlight(d) /\ InFlight(e) /\ caller[d].key = caller[e].key => d = e)'
      BY <2>4, <2>5 DEF JournalInv
    <2>8. RowIsTruthful' /\ ReceiptMatchesRequest'
      BY <2>2, <2>3, <2>4 DEF JournalInv, RowIsTruthful, ReceiptMatchesRequest
    <2> QED
      BY <2>2, <2>6, <2>7, <2>8 DEF JournalInv
  <1>3. ASSUME NEW c \in Callers, NEW k \in Keys, NEW h \in Hashes, MarkAbandoned(c, k, h)
        PROVE  JournalInv'
    BY <1>3
    DEF MarkAbandoned, Return, Calling, TypeOK, Rows, CallRecords,
        JournalInv, InFlight, AttemptIsLast, RowIsTruthful, ReceiptMatchesRequest
  <1>4. ASSUME NEW c \in Callers, NEW k \in Keys, NEW h \in Hashes, Grant(c, k, h)
        PROVE  JournalInv'
    <2>1. row[k].status \in {"absent", "failed"}
      BY <1>4 DEF Grant, Retryable
    <2>2. wire[k] = {} /\ applied[k] = {} /\ wire' = wire /\ applied' = applied
      BY <1>4, <2>1 DEF Grant, JournalInv, RowIsTruthful
    <2>3. \A d \in Callers : InFlight(d) => caller[d].key # k
      BY <2>1 DEF JournalInv, AttemptIsLast
    <2>4. /\ row'[k].status = "executing" /\ row'[k].hash = h
          /\ row'[k].attempts = row[k].attempts + 1
          /\ \A j \in Keys : j # k => row'[j] = row[j]
      BY <1>4 DEF Grant, TypeOK
    <2>5. /\ caller'[c].pc = "reserved" /\ caller'[c].key = k /\ caller'[c].hash = h
          /\ caller'[c].token = row[k].attempts + 1 /\ caller'[c].answer = "none"
          /\ \A d \in Callers : d # c => caller'[d] = caller[d]
      BY <1>4 DEF Grant, TypeOK
    <2>6. \A d \in Callers : caller[d].key \in Keys
      BY DEF TypeOK, CallRecords
    <2>7. (\A d \in Callers : InFlight(d) => AttemptIsLast(d))'
      BY <2>2, <2>3, <2>4, <2>5, <2>6 DEF JournalInv, InFlight, AttemptIsLast
    <2>8. (\A d, e \in Callers :
              InFlight(d) /\ InFlight(e) /\ caller[d].key = caller[e].key => d = e)'
      BY <2>3, <2>5 DEF JournalInv, InFlight
    <2>9. RowIsTruthful' /\ ReceiptMatchesRequest'
      BY <2>2, <2>4, <2>5, <2>6 DEF JournalInv, RowIsTruthful, ReceiptMatchesRequest
    <2> QED BY <2>2, <2>4, <2>7, <2>8, <2>9 DEF JournalInv
  <1>5. ASSUME NEW c \in Callers, Send(c)
        PROVE  JournalInv'
    BY <1>5
    DEF Send, Goto, TypeOK, Rows, CallRecords,
        JournalInv, InFlight, AttemptIsLast, RowIsTruthful, ReceiptMatchesRequest
  <1>6. ASSUME NEW c \in Callers, FailBeforeSend(c)
        PROVE  JournalInv'
    BY <1>6
    DEF FailBeforeSend, Goto, TypeOK, Rows, CallRecords,
        JournalInv, InFlight, AttemptIsLast, RowIsTruthful, ReceiptMatchesRequest
  <1>7. ASSUME NEW c \in Callers, Refuse(c)
        PROVE  JournalInv'
    BY <1>7
    DEF Refuse, Goto, TypeOK, Rows, CallRecords,
        JournalInv, InFlight, AttemptIsLast, RowIsTruthful, ReceiptMatchesRequest
  <1>8. ASSUME NEW c \in Callers, Receive(c)
        PROVE  JournalInv'
    BY <1>8
    DEF Receive, Goto, TypeOK, Rows, CallRecords,
        JournalInv, InFlight, AttemptIsLast, RowIsTruthful, ReceiptMatchesRequest
  <1>9. ASSUME NEW c \in Callers, LoseAnswer(c) \/ CompletionLost(c)
        PROVE  JournalInv'
    <2>1. PICK p \in {"silence", "unrecorded"} :
             Goto(c, p) /\ (p = "unrecorded" => caller[c].pc = "receipt")
      BY <1>9 DEF LoseAnswer, CompletionLost
    <2>2. UNCHANGED <<row, wire, applied>> /\ InFlight(c)
      BY <1>9 DEF LoseAnswer, CompletionLost, InFlight
    <2>3. /\ caller'[c].pc = p /\ caller'[c].key = caller[c].key
          /\ caller'[c].hash = caller[c].hash /\ caller'[c].token = caller[c].token
          /\ caller'[c].answer = caller[c].answer
          /\ \A d \in Callers : d # c => caller'[d] = caller[d]
      BY <2>1, GotoFrame DEF Pcs
    <2> QED
      BY SMTT(20), <2>1, <2>2, <2>3
      DEF JournalInv, InFlight, AttemptIsLast, RowIsTruthful, ReceiptMatchesRequest
  <1>10. ASSUME NEW c \in Callers, NEW a \in {"completed", "uncertain", "failed"},
                Finalize(c, a), Answer(c, a), UNCHANGED <<wire, applied>>, InFlight(c),
                a = "completed" => caller[c].pc = "receipt",
                a = "failed" => caller[c].pc = "refusal"
         PROVE  JournalInv'
    <2> DEFINE k == caller[c].key
    <2>1. k \in Keys /\ \A d \in Callers : caller[d].key \in Keys
      BY DEF TypeOK, CallRecords
    <2>2. AttemptIsLast(c) /\ \A d \in Callers : d # c /\ InFlight(d) => caller[d].key # k
      BY <1>10 DEF JournalInv
    <2>3. /\ row'[k].status = a /\ row'[k].hash = row[k].hash
          /\ row'[k].attempts = row[k].attempts
          /\ \A j \in Keys : j # k => row'[j] = row[j]
      BY <1>10, FinalizeFrame DEF Statuses
    <2>4. /\ caller'[c].pc = "idle" /\ caller'[c].key = k
          /\ caller'[c].hash = caller[c].hash /\ caller'[c].answer = a
          /\ \A d \in Callers : d # c => caller'[d] = caller[d]
      BY <1>10, AnswerFrame DEF Answers
    <2>5. (\A d \in Callers : InFlight(d) => AttemptIsLast(d))'
      BY <1>10, <2>1, <2>2, <2>3, <2>4 DEF JournalInv, InFlight, AttemptIsLast
    <2>6. RowIsTruthful'
      BY <1>10, <2>2, <2>3 DEF JournalInv, AttemptIsLast, RowIsTruthful
    <2>7. ReceiptMatchesRequest'
      BY <1>10, <2>1, <2>2, <2>3, <2>4 DEF JournalInv, AttemptIsLast, ReceiptMatchesRequest
    <2> QED BY <1>10, <2>1, <2>3, <2>4, <2>5, <2>6, <2>7 DEF JournalInv, InFlight
  <1>11. ASSUME NEW c \in Callers,
                SettleCompleted(c) \/ SettleUncertain(c) \/ SettleFailed(c)
         PROVE  JournalInv'
    BY <1>10, <1>11 DEF SettleCompleted, SettleUncertain, SettleFailed, InFlight
  <1>12. ASSUME NEW c \in Callers, SettlementLost(c) \/ Crash(c)
         PROVE  JournalInv'
    <2>1. PICK a \in {"uncertain", "failed", "none"} : Answer(c, a)
      BY <1>12 DEF SettlementLost, Crash
    <2>2. UNCHANGED <<row, wire, applied>>
      BY <1>12 DEF SettlementLost, Crash
    <2>3. /\ caller'[c].pc = "idle" /\ caller'[c].answer = a
          /\ \A d \in Callers : d # c => caller'[d] = caller[d]
      BY <2>1, AnswerFrame DEF Answers
    <2> QED
      BY SMTT(20), <2>2, <2>3
      DEF JournalInv, InFlight, AttemptIsLast, RowIsTruthful, ReceiptMatchesRequest
  <1>13. ASSUME NEW k \in Keys, Lapse(k)
         PROVE  JournalInv'
    BY <1>13
    DEF Lapse, TypeOK, Rows, CallRecords,
        JournalInv, InFlight, AttemptIsLast, RowIsTruthful, ReceiptMatchesRequest
  <1>14. ASSUME NEW k \in Keys, NEW t \in wire[k], TakeEffect(k, t)
         PROVE  JournalInv'
    BY <1>14
    DEF TakeEffect, TypeOK, Rows, CallRecords,
        JournalInv, InFlight, AttemptIsLast, RowIsTruthful, ReceiptMatchesRequest
  <1>15. CASE UNCHANGED vars
    BY <1>15
    DEF vars, JournalInv, InFlight, AttemptIsLast, RowIsTruthful, ReceiptMatchesRequest
  <1> QED
    BY <1>1, <1>2, <1>3, <1>4, <1>5, <1>6, <1>7, <1>8, <1>9, <1>11, <1>12, <1>13,
       <1>14, <1>15, NextCases

\* The inductive invariant holds in every reachable state.
LEMMA JournalInvariant ==
    ASSUME StrictCallers = {}
    PROVE  Spec => [](TypeOK /\ JournalInv)
  <1>1. Init => TypeOK /\ JournalInv
    BY InitTypeOK, InitJournalInv
  <1>2. TypeOK /\ JournalInv /\ [Next]_vars => (TypeOK /\ JournalInv)'
    BY NextTypeOK, NextJournalInv
  <1> QED BY <1>1, <1>2, PTL DEF Spec

\* At most one attempt of a key ever takes effect, whatever crashes, lapsed
\* leases, lost answers and retries happen: ADR-0008's promise for effects.
THEOREM EffectAtMostOnce ==
    ASSUME StrictCallers = {}
    PROVE  Spec => []AtMostOnce
  <1>1. JournalInv => AtMostOnce
    BY DEF JournalInv, AtMostOnce
  <1> QED BY <1>1, JournalInvariant, PTL

\* A failed row, the only one a key is retried from, has no request that can
\* still act, and a completed row has had its effect.
THEOREM RowsTruthful ==
    ASSUME StrictCallers = {}
    PROVE  Spec => [](RowIsTruthful /\ NoRequestBehindRetry /\ ReceiptMatchesRequest)
  <1>1. JournalInv => RowIsTruthful /\ NoRequestBehindRetry /\ ReceiptMatchesRequest
    BY DEF JournalInv, NoRequestBehindRetry
  <1> QED BY <1>1, JournalInvariant, PTL

\* Completed and uncertain rows are final and a key never changes its request.
\* This one also holds with strict callers.
THEOREM RowsNeverRewritten == Spec => RowNeverRewritten
  <1> DEFINE Kept ==
        \A k \in Keys :
            /\ row[k].status \in {"completed", "uncertain"} => row'[k] = row[k]
            /\ row[k].status # "absent" => row'[k].hash = row[k].hash
  <1>1. ASSUME TypeOK, [Next]_vars
        PROVE  Kept
    <2>1. ASSUME NEW c \in Callers, NEW k \in Keys, NEW h \in Hashes,
                 MarkAbandoned(c, k, h) \/ Grant(c, k, h)
          PROVE  Kept
      <3>1. /\ row[k].status \in {"absent", "failed", "executing"}
            /\ row[k].status # "absent" => row'[k].hash = row[k].hash
            /\ \A j \in Keys : j # k => row'[j] = row[j]
        BY <1>1, <2>1 DEF MarkAbandoned, Grant, Retryable, TypeOK, Rows
      <3> QED BY <3>1
    <2>2. ASSUME NEW c \in Callers, NEW k \in Keys, NEW h \in Hashes,
                 \/ Replay(c, k, h) \/ RefuseUncertain(c, k, h)
                 \/ RefuseBusy(c, k, h) \/ RefuseConflict(c, k, h)
          PROVE  Kept
      BY <2>2 DEF Replay, RefuseUncertain, RefuseBusy, RefuseConflict
    <2>3. ASSUME NEW c \in Callers,
                 SettleCompleted(c) \/ SettleUncertain(c) \/ SettleFailed(c)
          PROVE  Kept
      <3>1. PICK a \in Statuses : Finalize(c, a)
        BY <2>3 DEF SettleCompleted, SettleUncertain, SettleFailed, Statuses
      <3>2. \A k \in Keys :
               /\ k # caller[c].key => row'[k] = row[k]
               /\ k = caller[c].key => /\ row[k].status = "executing"
                                       /\ row'[k].hash = row[k].hash
        BY <1>1, <3>1, FinalizeFrame, Zenon
      <3> QED BY <3>2
    <2>4. ASSUME NEW c \in Callers,
                 \/ Send(c) \/ FailBeforeSend(c) \/ Refuse(c) \/ Receive(c) \/ LoseAnswer(c)
                 \/ CompletionLost(c) \/ SettlementLost(c) \/ Crash(c)
          PROVE  Kept
      BY <2>4 DEF Send, FailBeforeSend, Refuse, Receive, LoseAnswer, CompletionLost,
                  SettlementLost, Crash
    <2>5. ASSUME NEW k \in Keys, Lapse(k)
          PROVE  Kept
      BY <2>5 DEF Lapse, Leased, TypeOK, Rows
    <2>6. ASSUME NEW k \in Keys, NEW t \in wire[k], TakeEffect(k, t)
          PROVE  Kept
      BY <2>6 DEF TakeEffect
    <2>7. CASE UNCHANGED vars
      BY <2>7 DEF vars
    <2> HIDE DEF Kept
    <2> QED BY <1>1, <2>1, <2>2, <2>3, <2>4, <2>5, <2>6, <2>7, NextCases
  <1>2. TypeOK /\ [Next]_vars => [Kept]_vars
    BY <1>1
  <1>3. Spec => [][Kept]_vars
    BY <1>2, JournalTypeCorrect, PTL DEF Spec
  <1> QED BY <1>3 DEF RowNeverRewritten

\* A row that exists has made between one and MaxAttempts attempts.
AttemptsBounded ==
    \A k \in Keys : row[k].status # "absent" => row[k].attempts \in 1..MaxAttempts

LEMMA AttemptsInvariant == Spec => []AttemptsBounded
  <1>1. Init => AttemptsBounded
    <2> SUFFICES ASSUME Init, NEW k \in Keys, row[k].status # "absent"
                 PROVE  row[k].attempts = 1
      BY JournalAssumption DEF AttemptsBounded
    <2>1. row[k] \in LegacyRows
      BY DEF Init, Absent
    <2> QED BY <2>1 DEF LegacyRows, LegacyRow
  <1>2. ASSUME TypeOK, AttemptsBounded, [Next]_vars
        PROVE  AttemptsBounded'
    <2> USE <1>2, JournalAssumption
    <2>1. ASSUME NEW c \in Callers, NEW k \in Keys, NEW h \in Hashes, MarkAbandoned(c, k, h)
          PROVE  AttemptsBounded'
      BY <2>1 DEF MarkAbandoned, AttemptsBounded, TypeOK, Rows
    <2>2. ASSUME NEW c \in Callers, NEW k \in Keys, NEW h \in Hashes, Grant(c, k, h)
          PROVE  AttemptsBounded'
      <3>1. row[k].attempts \in Nat /\ row[k].attempts + 1 \in 1..MaxAttempts
        BY <2>2 DEF Grant, TypeOK, Rows
      <3>2. /\ row'[k].attempts = row[k].attempts + 1
            /\ \A j \in Keys : j # k => row'[j] = row[j]
        BY <2>2 DEF Grant, TypeOK
      <3> QED BY <3>1, <3>2 DEF AttemptsBounded
    <2>3. ASSUME NEW c \in Callers,
                 SettleCompleted(c) \/ SettleUncertain(c) \/ SettleFailed(c)
          PROVE  AttemptsBounded'
      <3>1. PICK a \in Statuses : Finalize(c, a)
        BY <2>3 DEF SettleCompleted, SettleUncertain, SettleFailed, Statuses
      <3>2. \A k \in Keys :
               /\ k # caller[c].key => row'[k] = row[k]
               /\ k = caller[c].key => /\ row[k].status = "executing"
                                       /\ row'[k].attempts = row[k].attempts
        BY <3>1, FinalizeFrame, Zenon
      <3> QED BY <3>2 DEF AttemptsBounded
    <2>4. ASSUME NEW k \in Keys, Lapse(k)
          PROVE  AttemptsBounded'
      BY <2>4 DEF Lapse, AttemptsBounded, TypeOK, Rows
    <2>5. CASE UNCHANGED row
      BY <2>5 DEF AttemptsBounded
    <2> QED
      BY <2>1, <2>2, <2>3, <2>4, <2>5, NextCases
      DEF vars, Replay, RefuseUncertain, RefuseBusy, RefuseConflict, Send, FailBeforeSend,
          Refuse, Receive, LoseAnswer, CompletionLost, SettlementLost, Crash, TakeEffect
  <1> QED BY <1>1, <1>2, JournalTypeCorrect, PTL DEF Spec

\* A step that leaves the statuses alone leaves the verdicts alone.
LEMMA SameVerdict ==
    ASSUME \A k \in Keys : row'[k].status = row[k].status
    PROVE  Verdict' = Verdict
  BY DEF Verdict

\* The journal implements EffectOnce: a caller that only relies on the promise
\* may forget about leases, tokens, crashes and retries.
THEOREM JournalKeepsPromise ==
    ASSUME StrictCallers = {}
    PROVE  Spec => KeepsPromise
  <1>1. ASSUME Init PROVE Promise!Init
    <2>1. \A k \in Keys : row[k] = Absent \/ row[k] \in LegacyRows
      BY <1>1 DEF Init
    <2>2. JournalInv
      BY <1>1, InitJournalInv
    <2>3. Verdict \in [Keys -> Promise!Verdicts]
      BY DEF Verdict, Promise!Verdicts
    <2>4. applied \in [Keys -> {{}} \cup {{t} : t \in 1..MaxAttempts}]
      BY <1>1, JournalAssumption DEF Init
    <2>5. \A k \in Keys : Verdict[k] = "completed" => applied[k] # {}
      BY <2>2 DEF Verdict, JournalInv, RowIsTruthful
    <2> QED BY <2>3, <2>4, <2>5 DEF Promise!Init
  <1>2. ASSUME TypeOK, JournalInv, AttemptsBounded, [Next]_vars
        PROVE  [Promise!Next]_<<applied, Verdict>>
    <2> USE <1>2
    <2>1. ASSUME NEW c \in Callers, NEW k \in Keys, NEW h \in Hashes, MarkAbandoned(c, k, h)
          PROVE  Promise!Doubt(k)
      BY <2>1 DEF MarkAbandoned, Verdict, Promise!Doubt, TypeOK, Rows
    <2>2. ASSUME NEW c \in Callers, NEW k \in Keys, NEW h \in Hashes, Grant(c, k, h)
          PROVE  UNCHANGED <<applied, Verdict>>
      BY <2>2 DEF Grant, Retryable, Verdict, TypeOK
    <2>3. ASSUME NEW c \in Callers, NEW a \in Statuses, Finalize(c, a)
          PROVE  /\ caller[c].key \in Keys
                 /\ Verdict[caller[c].key] = "open"
                 /\ Verdict' = [Verdict EXCEPT ![caller[c].key] =
                                   IF a \in {"completed", "uncertain"} THEN a ELSE "open"]
      <3>1. caller[c].key \in Keys
        BY DEF TypeOK, CallRecords
      <3>2. /\ row[caller[c].key].status = "executing"
            /\ row'[caller[c].key].status = a
            /\ \A k \in Keys : k # caller[c].key => row'[k] = row[k]
        BY <2>3, FinalizeFrame, Zenon
      <3> QED BY <3>1, <3>2 DEF Verdict
    <2>4. ASSUME NEW c \in Callers, SettleCompleted(c)
          PROVE  Promise!Complete(caller[c].key)
      <3>1. Finalize(c, "completed") /\ UNCHANGED applied
        BY <2>4 DEF SettleCompleted
      <3>2. applied[caller[c].key] # {}
        BY <2>4 DEF SettleCompleted, JournalInv, InFlight, AttemptIsLast
      <3> QED BY <2>3, <3>1, <3>2 DEF Statuses, Promise!Complete
    <2>5. ASSUME NEW c \in Callers, SettleUncertain(c)
          PROVE  Promise!Doubt(caller[c].key)
      <3>1. Finalize(c, "uncertain") /\ UNCHANGED applied
        BY <2>5 DEF SettleUncertain
      <3> QED BY <2>3, <3>1 DEF Statuses, Promise!Doubt
    <2>6. ASSUME NEW c \in Callers, SettleFailed(c)
          PROVE  UNCHANGED <<applied, Verdict>>
      <3>1. Finalize(c, "failed") /\ UNCHANGED applied
        BY <2>6 DEF SettleFailed
      <3>2. Verdict' = [Verdict EXCEPT ![caller[c].key] = "open"]
            /\ Verdict[caller[c].key] = "open"
        BY <2>3, <3>1 DEF Statuses
      <3> QED BY <3>1, <3>2 DEF Verdict
    <2>7. ASSUME NEW k \in Keys, Lapse(k)
          PROVE  UNCHANGED <<applied, Verdict>>
      <3>1. \A j \in Keys : row'[j].status = row[j].status
        BY <2>7 DEF Lapse, TypeOK, Rows
      <3> QED BY <2>7, <3>1, SameVerdict DEF Lapse
    <2>8. ASSUME NEW k \in Keys, NEW t \in wire[k], TakeEffect(k, t)
          PROVE  Promise!TakeEffect(k)
      <3>1. applied[k] = {} /\ t = row[k].attempts
        BY DEF JournalInv
      <3>2. t \in 1..MaxAttempts /\ row[k].status # "completed"
        BY <3>1 DEF JournalInv, RowIsTruthful, AttemptsBounded
      <3>3. applied' = [applied EXCEPT ![k] = {t}]
        BY <2>8, <3>1 DEF TakeEffect, TypeOK
      <3>4. Verdict' = Verdict
        BY <2>8, SameVerdict DEF TakeEffect
      <3> QED BY <3>1, <3>2, <3>3, <3>4 DEF Verdict, Promise!TakeEffect
    <2>9. ASSUME UNCHANGED <<row, applied>>
          PROVE  UNCHANGED <<applied, Verdict>>
      BY <2>9, SameVerdict
    <2>10. \A c \in Callers : caller[c].key \in Keys
      BY DEF TypeOK, CallRecords
    <2> QED
      BY <2>1, <2>2, <2>4, <2>5, <2>6, <2>7, <2>8, <2>9, <2>10, NextCases
      DEF vars, Replay, RefuseUncertain, RefuseBusy, RefuseConflict, Send, FailBeforeSend,
          Refuse, Receive, LoseAnswer, CompletionLost, SettlementLost, Crash, Promise!Next
  <1> QED
    BY <1>1, <1>2, JournalTypeCorrect, JournalInvariant, AttemptsInvariant, PTL
    DEF Spec, KeepsPromise, Promise!Spec
\* Why a lease has one holder, whatever mode the callers use: each attempt in
\* flight carries the number of one its row has granted, and no two of a key
\* carry the same.
LeasesApart ==
    /\ \A c \in Callers : InFlight(c) => caller[c].token \in 1..row[caller[c].key].attempts
    /\ \A c, d \in Callers :
           /\ InFlight(c) /\ InFlight(d)
           /\ caller[c].key = caller[d].key /\ caller[c].token = caller[d].token
           => c = d

LEMMA NextLeasesApart ==
    ASSUME TypeOK, LeasesApart, [Next]_vars
    PROVE  LeasesApart'
  <1>1. \A c \in Callers : caller[c].key \in Keys /\ caller[c].token \in Nat
    BY DEF TypeOK, CallRecords
  <1>2. \A k \in Keys : row[k].attempts \in Nat
    BY DEF TypeOK, Rows
  <1>3. ASSUME NEW c \in Callers,
               caller'[c].pc = "idle" \/ /\ InFlight(c)
                                         /\ caller'[c].key = caller[c].key
                                         /\ caller'[c].token = caller[c].token,
               \A d \in Callers : d # c => caller'[d] = caller[d],
               \A k \in Keys : row'[k].attempts = row[k].attempts
        PROVE  LeasesApart'
    <2>1. \A d \in Callers : InFlight(d)' => /\ InFlight(d)
                                             /\ caller'[d].key = caller[d].key
                                             /\ caller'[d].token = caller[d].token
      BY <1>3 DEF InFlight
    <2> QED BY <1>1, <1>3, <2>1 DEF LeasesApart
  <1>4. ASSUME NEW c \in Callers, NEW k \in Keys, NEW h \in Hashes, NEW a \in Answers,
               Return(c, k, h, a), \A j \in Keys : row'[j].attempts = row[j].attempts
        PROVE  LeasesApart'
    BY <1>3, <1>4, ReturnFrame
  <1>5. ASSUME NEW c \in Callers, NEW p \in Pcs, Goto(c, p), InFlight(c), row' = row
        PROVE  LeasesApart'
    BY <1>3, <1>5, GotoFrame
  <1>6. ASSUME NEW c \in Callers, NEW a \in Answers, Answer(c, a),
               \A k \in Keys : row'[k].attempts = row[k].attempts
        PROVE  LeasesApart'
    BY <1>3, <1>6, AnswerFrame
  <1>7. ASSUME NEW c \in Callers, NEW k \in Keys, NEW h \in Hashes,
               \/ Replay(c, k, h) \/ RefuseUncertain(c, k, h)
               \/ RefuseBusy(c, k, h) \/ RefuseConflict(c, k, h)
        PROVE  LeasesApart'
    <2>1. PICK a \in Answers : Return(c, k, h, a)
      BY <1>7 DEF Replay, RefuseUncertain, RefuseBusy, RefuseConflict, Answers
    <2>2. row' = row
      BY <1>7 DEF Replay, RefuseUncertain, RefuseBusy, RefuseConflict
    <2> QED BY <1>4, <2>1, <2>2
  <1>8. ASSUME NEW c \in Callers, NEW k \in Keys, NEW h \in Hashes, MarkAbandoned(c, k, h)
        PROVE  LeasesApart'
    <2>1. Return(c, k, h, "uncertain") /\ "uncertain" \in Answers
      BY <1>8 DEF MarkAbandoned, Answers
    <2>2. \A j \in Keys : row'[j].attempts = row[j].attempts
      BY <1>8 DEF MarkAbandoned, TypeOK, Rows
    <2> QED BY <1>4, <2>1, <2>2
  <1>9. ASSUME NEW c \in Callers, NEW k \in Keys, NEW h \in Hashes, Grant(c, k, h)
        PROVE  LeasesApart'
    <2>1. /\ row'[k].attempts = row[k].attempts + 1
          /\ \A j \in Keys : j # k => row'[j] = row[j]
      BY <1>9 DEF Grant, TypeOK
    <2>2. /\ caller'[c].key = k /\ caller'[c].token = row[k].attempts + 1
          /\ \A d \in Callers : d # c => caller'[d] = caller[d]
      BY <1>9 DEF Grant, TypeOK
    <2>3. \A d \in Callers : InFlight(d)' => caller'[d].token \in 1..row'[caller'[d].key].attempts
      BY <1>1, <1>2, <2>1, <2>2 DEF LeasesApart, InFlight
    <2>4. \A d \in Callers :
             d # c /\ InFlight(d)' /\ caller'[d].key = k => caller'[d].token # row[k].attempts + 1
      BY <1>2, <2>2 DEF LeasesApart, InFlight
    <2> QED BY <2>2, <2>3, <2>4 DEF LeasesApart, InFlight
  <1>10. ASSUME NEW c \in Callers,
                \/ Send(c) \/ FailBeforeSend(c) \/ Refuse(c) \/ Receive(c) \/ LoseAnswer(c)
                \/ CompletionLost(c)
         PROVE  LeasesApart'
    <2>1. PICK p \in Pcs : Goto(c, p)
      BY <1>10 DEF Send, FailBeforeSend, Refuse, Receive, LoseAnswer, CompletionLost, Pcs
    <2>2. InFlight(c) /\ row' = row
      BY <1>10 DEF Send, FailBeforeSend, Refuse, Receive, LoseAnswer, CompletionLost, InFlight
    <2> QED BY <1>5, <2>1, <2>2
  <1>11. ASSUME NEW c \in Callers,
                SettleCompleted(c) \/ SettleUncertain(c) \/ SettleFailed(c)
         PROVE  LeasesApart'
    <2>1. PICK a \in Answers \cap Statuses : Finalize(c, a) /\ Answer(c, a)
      BY <1>11 DEF SettleCompleted, SettleUncertain, SettleFailed, Answers, Statuses
    <2>2. \A k \in Keys : row'[k].attempts = row[k].attempts
      BY <2>1, FinalizeFrame, Zenon
    <2> QED BY <1>6, <2>1, <2>2
  <1>12. ASSUME NEW c \in Callers, SettlementLost(c) \/ Crash(c)
         PROVE  LeasesApart'
    <2>1. PICK a \in Answers : Answer(c, a)
      BY <1>12 DEF SettlementLost, Crash, Answers
    <2>2. row' = row
      BY <1>12 DEF SettlementLost, Crash
    <2> QED BY <1>6, <2>1, <2>2
  <1>13. ASSUME NEW k \in Keys, Lapse(k)
         PROVE  LeasesApart'
    <2>1. \A j \in Keys : row'[j].attempts = row[j].attempts
      BY <1>13 DEF Lapse, TypeOK, Rows
    <2> QED BY <1>1, <1>13, <2>1 DEF Lapse, LeasesApart, InFlight
  <1>14. CASE UNCHANGED <<row, caller>>
    BY <1>14 DEF LeasesApart, InFlight
  <1> QED
    BY <1>7, <1>8, <1>9, <1>10, <1>11, <1>12, <1>13, <1>14, NextCases DEF vars, TakeEffect

LEMMA InitLeasesApart == Init => LeasesApart
  BY DEF Init, LeasesApart, InFlight

\* Two calls never both hold the lease of a row, in either mode: the second
\* one would settle an attempt of another.
THEOREM OneHolderOfALease == Spec => []OneLeaseHolder
  <1>1. LeasesApart => OneLeaseHolder
    BY DEF LeasesApart, OneLeaseHolder, InFlight, Holds
  <1> QED
    BY <1>1, InitTypeOK, NextTypeOK, InitLeasesApart, NextLeasesApart, PTL DEF Spec
=============================================================================
