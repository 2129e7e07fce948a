-------------------------------- MODULE Cutover --------------------------------
(***************************************************************************)
(* The cutover from the retired notification project.  Its workers keep    *)
(* their rows in SQLite with a write-ahead log; once they have stopped, an *)
(* operator imports a frozen copy: memo deliveries, deals, forwarded       *)
(* messages or intelligence evidence.  An import hashes the file, reads    *)
(* it and is applied in one transaction with the record of its hash; the   *)
(* record makes a second import of the same source a no-op and refuses one *)
(* of another content.  The service that takes over shows what the rows    *)
(* taken do not close.  The order stop, copy, import, start is that of     *)
(* docs/deals.md, docs/reminders.md and docs/forwarded-relay.md.           *)
(***************************************************************************)
EXTENDS Naturals, FiniteSets

CONSTANTS
    ImportKinds,  \* of "memo", "deals", "forwarded" and "evidence"
    Items,        \* what the old project and the new service may both show
    Importers,    \* runs of the import command at the same time
    History,      \* days of evidence an import takes
    MaxAge        \* bound on the days

\* Four sources can be moved.
ASSUME CutoverAssumption == ImportKinds \subseteq {"memo", "deals", "forwarded", "evidence"}

VARIABLES
    kind,       \* the source being moved
    old,        \* the rows of the old project, with its log
    sentOn,     \* the day the old project sent an item
    main,       \* the rows of its main file
    oldUp,      \* its worker runs
    backup,     \* the online backup, absent before it is made
    import,     \* what each run of the command has read
    record,     \* the import record of the source, absent before
    closed,     \* items closed by an imported row
    serviceUp,  \* the new service runs
    newRow,     \* the new service's rows
    shown,      \* how often each item was shown
    cutoverDay

cutoverVars == <<kind, old, sentOn, main, oldUp, backup, import, record, closed, serviceUp, newRow, shown, cutoverDay>>

NotImporting == [pc |-> "idle", hash |-> <<>>, items |-> {}]

NoRecord == [hash |-> <<>>, items |-> {}]

CutoverInit ==
    /\ kind \in ImportKinds
    /\ old = [i \in Items |-> "absent"] /\ main = old /\ oldUp = TRUE
    /\ sentOn = [i \in Items |-> 0]
    /\ backup = {}
    /\ import = [j \in Importers |-> NotImporting]
    /\ record = NoRecord /\ closed = {}
    /\ serviceUp = FALSE
    /\ newRow = [i \in Items |-> "absent"]
    /\ shown = [i \in Items |-> 0]
    /\ cutoverDay = 0

NextDay ==
    /\ cutoverDay < MaxAge
    /\ cutoverDay' = cutoverDay + 1
    /\ UNCHANGED <<kind, old, sentOn, main, oldUp, backup, import, record, closed, serviceUp, newRow, shown>>

-----------------------------------------------------------------------------
(* The old project (external).                                             *)

OldStep(i, from, to, sends) ==
    /\ oldUp /\ old[i] = from
    /\ old' = [old EXCEPT ![i] = to]
    /\ shown' = [shown EXCEPT ![i] = @ + sends]
    /\ sentOn' = IF to = "sent" THEN [sentOn EXCEPT ![i] = cutoverDay] ELSE sentOn
    /\ UNCHANGED <<kind, main, oldUp, backup, import, record, closed, serviceUp, newRow, cutoverDay>>

\* A memo is marked before it is published; the others are marked once sent.
OldWork(i) ==
    \/ OldStep(i, "absent", "pending", 0)
    \/ kind = "memo" /\ OldStep(i, "pending", "publishing", 0)
    \/ kind = "memo" /\ shown[i] = 0 /\ OldStep(i, "publishing", "publishing", 1)
    \/ kind = "memo" /\ shown[i] = 1 /\ OldStep(i, "publishing", "sent", 0)
    \/ kind # "memo" /\ OldStep(i, "pending", "sent", 1)

\* A worker that ends writes its log back; one that is killed leaves it.
OldStops(killed) ==
    /\ oldUp
    /\ oldUp' = FALSE
    /\ main' = IF killed THEN main ELSE old
    /\ UNCHANGED <<kind, old, sentOn, backup, import, record, closed, serviceUp, newRow, shown, cutoverDay>>

Backup ==
    /\ ~oldUp /\ backup = {}
    /\ backup' = {old}
    /\ UNCHANGED <<kind, old, sentOn, main, oldUp, import, record, closed, serviceUp, newRow, shown, cutoverDay>>

-----------------------------------------------------------------------------
(* The import command.                                                     *)

\* sha256FrozenSqliteSnapshot: the live file is refused while it has a log.
Frozen(rows) == rows \in backup \/ (rows = main /\ main = old)

\* Mutant of Taken: a memo caught between its two marks is left to the service.
TakenIfSent(rows) ==
    CASE kind \in {"deals", "forwarded"} -> {i \in Items : rows[i] # "absent"}
      [] kind = "memo" -> {i \in Items : rows[i] = "sent"}
      [] OTHER -> {i \in Items : rows[i] = "sent" /\ cutoverDay - sentOn[i] <= History}

\* What a bundle closes: a deal or a message of the old project however far it
\* got, a delivery it made or may have made, recent evidence it sent.
TakenBy(rows) ==
    CASE kind \in {"deals", "forwarded"} -> {i \in Items : rows[i] # "absent"}
      [] kind = "memo" -> {i \in Items : rows[i] \in {"publishing", "sent"}}
      [] OTHER -> {i \in Items : rows[i] = "sent" /\ cutoverDay - sentOn[i] <= History}

ReadSnapshot(j, rows) ==
    /\ ~oldUp /\ import[j].pc # "read" /\ Frozen(rows)
    /\ import' = [import EXCEPT ![j] = [pc |-> "read", hash |-> rows, items |-> TakenBy(rows)]]
    /\ UNCHANGED <<kind, old, sentOn, main, oldUp, backup, record, closed, serviceUp, newRow, shown, cutoverDay>>

\* The record of evidence also holds how many seeds there were.
SameImport(j) ==
    /\ record.hash = import[j].hash
    /\ kind = "evidence" => Cardinality(record.items) = Cardinality(import[j].items)

\* importLegacy of the four repositories: one transaction.
Apply(j) ==
    /\ import[j].pc = "read"
    /\ IF record = NoRecord
       THEN /\ record' = [hash |-> import[j].hash, items |-> import[j].items]
            /\ closed' = import[j].items
            /\ import' = [import EXCEPT ![j] = NotImporting]
       ELSE /\ import' = [import EXCEPT ![j] = IF SameImport(j) THEN NotImporting ELSE [@ EXCEPT !.pc = "refused"]]
            /\ UNCHANGED <<record, closed>>
    /\ UNCHANGED <<kind, old, sentOn, main, oldUp, backup, serviceUp, newRow, shown, cutoverDay>>

\* A dry run ends here, and so does a command that is stopped.
Leave(j) ==
    /\ import[j].pc # "idle"
    /\ import' = [import EXCEPT ![j] = NotImporting]
    /\ UNCHANGED <<kind, old, sentOn, main, oldUp, backup, record, closed, serviceUp, newRow, shown, cutoverDay>>

-----------------------------------------------------------------------------
(* The new service.                                                        *)

StartService ==
    /\ record # NoRecord /\ ~serviceUp
    /\ serviceUp' = TRUE
    /\ UNCHANGED <<kind, old, sentOn, main, oldUp, backup, import, record, closed, newRow, shown, cutoverDay>>

\* An item with an imported row is known, deduplicated or already delivered.
CollectItem(i) ==
    /\ serviceUp /\ newRow[i] = "absent"
    /\ newRow' = [newRow EXCEPT ![i] = IF i \in closed THEN "known" ELSE "pending"]
    /\ UNCHANGED <<kind, old, sentOn, main, oldUp, backup, import, record, closed, serviceUp, shown, cutoverDay>>

Show(i) ==
    /\ serviceUp /\ newRow[i] = "pending"
    /\ newRow' = [newRow EXCEPT ![i] = "known"]
    /\ shown' = [shown EXCEPT ![i] = @ + 1]
    /\ UNCHANGED <<kind, old, sentOn, main, oldUp, backup, import, record, closed, serviceUp, cutoverDay>>

CutoverNext ==
    \/ NextDay \/ Backup \/ StartService
    \/ \E killed \in BOOLEAN : OldStops(killed)
    \/ \E i \in Items : OldWork(i) \/ CollectItem(i) \/ Show(i)
    \/ \E j \in Importers : Apply(j) \/ Leave(j) \/ \E rows \in backup \cup {main} : ReadSnapshot(j, rows)

CutoverSpec == CutoverInit /\ [][CutoverNext]_cutoverVars

CutoverTypeOK ==
    /\ kind \in ImportKinds
    /\ closed = record.items /\ closed \subseteq Items
    /\ \A j \in Importers : import[j].pc \in {"idle", "read", "refused"}
    /\ \A i \in Items : /\ old[i] \in {"absent", "pending", "publishing", "sent"}
                        /\ newRow[i] \in {"absent", "pending", "known"}

\* docs/deals.md: history is not sent again after the cutover, whatever the old
\* worker was doing when it stopped and whichever file was imported.  (Evidence
\* closes its window only, on purpose.)
ShownOnceAcross == kind # "evidence" => \A i \in Items : shown[i] <= 1

=============================================================================
