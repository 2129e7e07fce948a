---------------------- MODULE NotificationDispatchProofs ----------------------
(***************************************************************************)
(* What every service that dispatches notifications may rely on: the steps *)
(* of NotificationDispatch keep its types and never deliver twice.         *)
(***************************************************************************)
EXTENDS NotificationDispatch, TLAPS

LEMMA ReservedRowTypes ==
    ASSUME NEW c \in Callers, NEW r \in Rows, NEW b \in Bodies
    PROVE  /\ RowAfter(c, r, b) \in Rows
           /\ FirstResult(r, b) \in Results
  BY DEF RowAfter, FirstResult, Rows, RowStatuses, Results, Settled, Granted, Abandoned

\* One cell of a table of functions is overwritten.
LEMMA CellUpdate ==
    ASSUME NEW A, NEW B, NEW S, NEW f \in [A -> [B -> S]],
           NEW a \in A, NEW b \in B, NEW v \in S
    PROVE  [f EXCEPT ![a][b] = v] \in [A -> [B -> S]]
<1>1. [f[a] EXCEPT ![b] = v] \in [B -> S]
  OBVIOUS
<1>2. [f EXCEPT ![a][b] = v] = [f EXCEPT ![a] = [f[a] EXCEPT ![b] = v]]
  OBVIOUS
<1>3. QED
  BY <1>1, <1>2

LEMMA RowFieldTypes ==
    ASSUME NEW r \in Rows
    PROVE  /\ [r EXCEPT !.lapsed = TRUE] \in Rows
           /\ [r EXCEPT !.holder = NoCaller] \in Rows
           /\ [r EXCEPT !.lapsed = TRUE].status = r.status
           /\ [r EXCEPT !.holder = NoCaller].status = r.status
           /\ \A u \in RowStatuses : Settled(r, u) \in Rows /\ Settled(r, u).status = u
  BY DEF Rows, Settled

LEMMA RowTypes ==
    ASSUME DispatchTypeOK
    PROVE  \A k \in Keys, t \in Targets : row[k][t] \in Rows
  BY DEF DispatchTypeOK

LEMMA DispatchTypesKept ==
    ASSUME DispatchTypeOK, [DispatchStep]_dispatchVars
    PROVE  DispatchTypeOK'
<1>1. CASE UNCHANGED dispatchVars
  BY <1>1 DEF DispatchTypeOK, dispatchVars
<1>2. ASSUME NEW c \in Callers, NEW k \in Keys, NEW b \in Bodies,
             NEW resolved \in SUBSET Targets, Reserve(c, k, b, resolved)
      PROVE  DispatchTypeOK'
  <2>1. \A t \in Targets : RowAfter(c, row[k][t], b) \in Rows /\ FirstResult(row[k][t], b) \in Results
    BY ReservedRowTypes DEF DispatchTypeOK
  <2>2. row' \in [Keys -> [Targets -> Rows]]
    BY <1>2, <2>1 DEF Reserve, DispatchTypeOK
  <2>3. call' \in [Callers -> Calls]
    BY <1>2, <2>1 DEF Reserve, DispatchTypeOK, Calls, Results
  <2>4. QED
    BY <1>2, <2>2, <2>3 DEF Reserve, DispatchTypeOK
<1>3. ASSUME NEW c \in Callers, NEW k \in Keys, NEW t \in Targets,
             \/ Accept(c, k, t) \/ Reject(c, k, t) \/ LoseAnswer(c, k, t)
             \/ ReceiptUnrecorded(c, k, t) \/ FailureUnrecorded(c, k, t)
      PROVE  DispatchTypeOK'
  <2>1. PICK s \in {"completed", "failed", "uncertain"} : Report(c, t, s)
    BY <1>3 DEF Accept, Reject, LoseAnswer, ReceiptUnrecorded, FailureUnrecorded
  <2>2. call' \in [Callers -> Calls]
    BY <2>1 DEF Report, DispatchTypeOK, Calls, Results
  <2>3. UNCHANGED row \/ \E u \in {"completed", "failed", "uncertain"} : Finalize(c, k, t, u)
    BY <1>3 DEF Accept, Reject, LoseAnswer, ReceiptUnrecorded, FailureUnrecorded
  <2>4. ASSUME NEW u \in {"completed", "failed", "uncertain"}, Finalize(c, k, t, u)
        PROVE  row' \in [Keys -> [Targets -> Rows]]
    <3>1. row[k][t] \in Rows /\ u \in RowStatuses
      BY RowTypes DEF RowStatuses
    <3>2. Settled(row[k][t], u) \in Rows
      BY <3>1, RowFieldTypes
    <3>3. QED
      BY <2>4, <3>2, CellUpdate DEF Finalize, DispatchTypeOK
  <2>5. ASSUME Take(k, t)
        PROVE  delivered' \in [Keys -> [Targets -> Nat]]
    <3>1. delivered[k][t] + 1 \in Nat
      BY DEF DispatchTypeOK
    <3>2. QED
      BY <2>5, <3>1, CellUpdate DEF Take, DispatchTypeOK
  <2>6. UNCHANGED delivered \/ Take(k, t)
    BY <1>3 DEF Accept, Reject, LoseAnswer, ReceiptUnrecorded, FailureUnrecorded
  <2>7. QED
    BY <2>2, <2>3, <2>4, <2>5, <2>6 DEF DispatchTypeOK
<1>4. ASSUME NEW k \in Keys, NEW t \in Targets, Lapse(k, t)
      PROVE  DispatchTypeOK'
  <2>1. [row[k][t] EXCEPT !.lapsed = TRUE] \in Rows
    <3>1. row[k][t] \in Rows
      BY RowTypes
    <3>2. QED
      BY <3>1, RowFieldTypes
  <2>2. row' = [row EXCEPT ![k][t] = [row[k][t] EXCEPT !.lapsed = TRUE]]
    BY <1>4 DEF Lapse
  <2>3. row' \in [Keys -> [Targets -> Rows]]
    BY <2>1, <2>2, CellUpdate DEF DispatchTypeOK
  <2>4. QED
    BY <1>4, <2>3 DEF Lapse, DispatchTypeOK
<1>5. ASSUME NEW c \in Callers, Return(c)
      PROVE  DispatchTypeOK'
  BY <1>5 DEF Return, NoCall, DispatchTypeOK, Calls, Results
<1>6. CASE Abandon
  <2>1. row' \in [Keys -> [Targets -> Rows]]
    <3>1. \A k \in Keys, t \in Targets : [row[k][t] EXCEPT !.holder = NoCaller] \in Rows
      <4>1. SUFFICES ASSUME NEW k \in Keys, NEW t \in Targets
                     PROVE  [row[k][t] EXCEPT !.holder = NoCaller] \in Rows
        OBVIOUS
      <4>2. row[k][t] \in Rows
        BY RowTypes
      <4>3. QED
        BY <4>2, RowFieldTypes
    <3>2. QED
      BY <1>6, <3>1 DEF Abandon
  <2>2. call' \in [Callers -> Calls]
    BY <1>6 DEF Abandon, NoCall, Calls, Results
  <2>3. delivered' \in [Keys -> [Targets -> Nat]]
    BY <1>6 DEF Abandon, DispatchTypeOK
  <2>4. QED
    BY <2>1, <2>2, <2>3 DEF DispatchTypeOK
<1>7. QED
  BY <1>1, <1>2, <1>3, <1>4, <1>5, <1>6 DEF DispatchStep

\* Only a row without a message on its way, or taken, is given out.
LEMMA ReservedRowStatus ==
    ASSUME NEW c \in Callers, NEW r \in Rows, NEW b \in Bodies
    PROVE  /\ Granted(r, b) => r.status \in {"absent", "failed"}
           /\ Granted(r, b) => RowAfter(c, r, b).status = "executing"
           /\ r.status \in {"executing", "uncertain"} =>
                  RowAfter(c, r, b).status \in {"executing", "uncertain"}
           /\ r.status = "completed" => RowAfter(c, r, b).status = "completed"
           /\ FirstResult(r, b) = "sending" <=> Granted(r, b)
  BY DEF RowAfter, FirstResult, Rows, Settled, Granted, Abandoned

\* A step that delivers, or that gives a row out, finds it as DispatchInv needs.
LEMMA DispatchInvKept ==
    ASSUME DispatchTypeOK, DispatchInv, [DispatchStep]_dispatchVars
    PROVE  DispatchInv'
<1>1. CASE UNCHANGED dispatchVars
  BY <1>1 DEF DispatchInv, Sending, dispatchVars
<1>2. ASSUME NEW c \in Callers, NEW k \in Keys, NEW b \in Bodies,
             NEW resolved \in SUBSET Targets, Reserve(c, k, b, resolved)
      PROVE  DispatchInv'
  <2>1. \A j \in Keys, t \in Targets :
            \/ row'[j][t] = row[j][t]
            \/ j = k /\ row'[j][t] = RowAfter(c, row[j][t], b)
    BY <1>2 DEF Reserve, DispatchTypeOK
  <2>2. \A j \in Keys, t \in Targets : row[j][t] \in Rows
    BY DEF DispatchTypeOK
  <2>3. \A j \in Keys, t \in Targets :
            /\ row[j][t].status \in {"executing", "uncertain"} =>
                   row'[j][t].status \in {"executing", "uncertain"}
            /\ row[j][t].status = "completed" => row'[j][t].status = "completed"
    BY <2>1, <2>2, ReservedRowStatus
  <2>4. ASSUME NEW d \in Callers, NEW j \in Keys, NEW t \in Targets, Sending(d, j, t)'
        PROVE  \/ d # c /\ Sending(d, j, t)
               \/ /\ d = c /\ j = k
                  /\ Granted(row[k][t], b)
                  /\ row'[k][t].status = "executing"
    <3>1. CASE d # c
      BY <1>2, <2>4, <3>1 DEF Reserve, Sending, DispatchTypeOK
    <3>2. CASE d = c
      <4>1. j = k /\ t \in resolved \cap Adapters /\ FirstResult(row[k][t], b) = "sending"
        BY <1>2, <2>4, <3>2 DEF Reserve, Sending, DispatchTypeOK
      <4>2. row'[k][t] = RowAfter(c, row[k][t], b)
        BY <1>2, <4>1 DEF Reserve, DispatchTypeOK
      <4>3. QED
        BY <2>2, <3>2, <4>1, <4>2, ReservedRowStatus
    <3>3. QED
      BY <3>1, <3>2
  <2>5. \A j \in Keys, t \in Targets :
            Granted(row[j][t], b) => row[j][t].status \in {"absent", "failed"}
    BY <2>2, ReservedRowStatus
  <2>6. /\ UNCHANGED delivered
        /\ \A j \in Keys, t \in Targets : delivered[j][t] \in Nat
    BY <1>2 DEF Reserve, DispatchTypeOK
  <2>7. \A j \in Keys, t \in Targets :
            /\ delivered'[j][t] <= 1
            /\ delivered'[j][t] = 1 => row'[j][t].status \in {"executing", "completed", "uncertain"}
    BY <2>3, <2>6 DEF DispatchInv
  <2>8. ASSUME NEW d \in Callers, NEW j \in Keys, NEW t \in Targets, Sending(d, j, t)'
        PROVE  /\ delivered'[j][t] = 0
               /\ row'[j][t].status \in {"executing", "uncertain"}
               /\ \A e \in Callers : Sending(e, j, t)' => e = d
    <3>1. CASE Sending(d, j, t) /\ d # c
      <4>1. row[j][t].status \in {"executing", "uncertain"} /\ delivered[j][t] = 0
        BY <3>1 DEF DispatchInv
      <4>2. \A e \in Callers : Sending(e, j, t)' => Sending(e, j, t)
        BY <2>4, <2>5, <4>1
      <4>3. QED
        BY <2>3, <2>6, <3>1, <4>1, <4>2 DEF DispatchInv
    <3>2. CASE d = c /\ j = k /\ Granted(row[k][t], b) /\ row'[k][t].status = "executing"
      <4>1. row[k][t].status \in {"absent", "failed"}
        BY <2>5, <3>2
      <4>2. delivered[k][t] = 0
        BY <2>6, <4>1 DEF DispatchInv
      <4>3. \A e \in Callers : ~Sending(e, k, t)
        BY <4>1 DEF DispatchInv
      <4>4. QED
        BY <2>4, <2>6, <3>2, <4>2, <4>3
    <3>3. QED
      BY <2>4, <2>8, <3>1, <3>2
  <2>9. QED
    BY <2>7, <2>8 DEF DispatchInv
<1>3. ASSUME NEW c \in Callers, NEW k \in Keys, NEW t \in Targets,
             \/ Accept(c, k, t) \/ Reject(c, k, t) \/ LoseAnswer(c, k, t)
             \/ ReceiptUnrecorded(c, k, t) \/ FailureUnrecorded(c, k, t)
      PROVE  DispatchInv'
  <2>1. Sending(c, k, t) /\ delivered[k][t] = 0 /\ row[k][t].status \in {"executing", "uncertain"}
    BY <1>3 DEF Accept, Reject, LoseAnswer, ReceiptUnrecorded, FailureUnrecorded, DispatchInv
  <2>2. \A d \in Callers, j \in Keys, u \in Targets :
            Sending(d, j, u)' => Sending(d, j, u) /\ <<d, j, u>> # <<c, k, t>>
    BY <1>3 DEF Accept, Reject, LoseAnswer, ReceiptUnrecorded, FailureUnrecorded,
                Report, Sending, DispatchTypeOK, Calls
  <2>3. \A j \in Keys, u \in Targets : <<j, u>> # <<k, t>> =>
            row'[j][u] = row[j][u] /\ delivered'[j][u] = delivered[j][u]
    BY <1>3 DEF Accept, Reject, LoseAnswer, ReceiptUnrecorded, FailureUnrecorded,
                Finalize, Take, DispatchTypeOK
  <2>4. \A d \in Callers, j \in Keys, u \in Targets :
            Sending(d, j, u)' => <<j, u>> # <<k, t>>
    BY <2>1, <2>2 DEF DispatchInv
  <2>5. /\ delivered'[k][t] \in {0, 1}
        /\ delivered'[k][t] = 1 => row'[k][t].status \in {"executing", "completed", "uncertain"}
    <3>1. row[k][t] \in Rows
      BY DEF DispatchTypeOK
    <3>2. ASSUME NEW u \in {"completed", "failed", "uncertain"}, Finalize(c, k, t, u)
          PROVE  row'[k][t].status = u
      <4>1. u \in RowStatuses
        BY DEF RowStatuses
      <4>2. Settled(row[k][t], u).status = u
        BY <3>1, <4>1, RowFieldTypes
      <4>3. QED
        BY <3>2, <4>2 DEF Finalize, DispatchTypeOK
    <3>3. UNCHANGED delivered \/ Take(k, t)
      BY <1>3 DEF Accept, Reject, LoseAnswer, ReceiptUnrecorded, FailureUnrecorded
    <3>4. Take(k, t) =>
              row'[k][t].status \in {"executing", "completed", "uncertain"}
      <4>1. Reject(c, k, t) => ~Take(k, t)
        BY <2>1 DEF Reject, Take, DispatchTypeOK
      <4>2. QED
        BY <1>3, <2>1, <3>2, <4>1 DEF Accept, LoseAnswer, ReceiptUnrecorded, FailureUnrecorded
    <3>5. QED
      BY <2>1, <3>3, <3>4 DEF Take, DispatchTypeOK
  <2>6. QED
    BY <2>2, <2>3, <2>4, <2>5 DEF DispatchInv
<1>4. ASSUME NEW k \in Keys, NEW t \in Targets, Lapse(k, t)
      PROVE  DispatchInv'
  <2>1. \A j \in Keys, u \in Targets : row'[j][u].status = row[j][u].status
    BY <1>4 DEF Lapse, DispatchTypeOK, Rows
  <2>2. QED
    BY <1>4, <2>1 DEF Lapse, DispatchInv, Sending
<1>5. ASSUME NEW c \in Callers, Return(c)
      PROVE  DispatchInv'
  <2>1. \A d \in Callers, j \in Keys, u \in Targets : Sending(d, j, u)' => Sending(d, j, u)
    BY <1>5 DEF Return, NoCall, Sending, DispatchTypeOK, Calls
  <2>2. QED
    BY <1>5, <2>1 DEF Return, DispatchInv
<1>6. CASE Abandon
  <2>1. \A d \in Callers, j \in Keys, u \in Targets : ~Sending(d, j, u)'
    BY <1>6 DEF Abandon, NoCall, Sending
  <2>2. \A j \in Keys, u \in Targets : row'[j][u].status = row[j][u].status
    <3>1. SUFFICES ASSUME NEW j \in Keys, NEW u \in Targets
                   PROVE  row'[j][u].status = row[j][u].status
      OBVIOUS
    <3>2. row[j][u] \in Rows
      BY RowTypes
    <3>3. row'[j][u] = [row[j][u] EXCEPT !.holder = NoCaller]
      BY <1>6 DEF Abandon
    <3>4. QED
      BY <3>2, <3>3, RowFieldTypes
  <2>3. \A j \in Keys, u \in Targets :
            \/ delivered'[j][u] = delivered[j][u]
            \/ delivered'[j][u] = delivered[j][u] + 1 /\ \E c \in Callers : Sending(c, j, u)
    <3>1. PICK lost \in SUBSET {kt \in Keys \X Targets :
                                   \E c \in Callers : Sending(c, kt[1], kt[2])} :
              delivered' = [j \in Keys |-> [u \in Targets |->
                  IF <<j, u>> \in lost THEN delivered[j][u] + 1 ELSE delivered[j][u]]]
      BY <1>6, Zenon DEF Abandon
    <3>2. \A j \in Keys, u \in Targets :
              <<j, u>> \in lost => \E c \in Callers : Sending(c, j, u)
      OBVIOUS
    <3>3. QED
      BY <3>1, <3>2
  <2>4. QED
    BY <2>1, <2>2, <2>3 DEF DispatchInv, DispatchTypeOK
<1>7. QED
  BY <1>1, <1>2, <1>3, <1>4, <1>5, <1>6 DEF DispatchStep
=============================================================================
