------------------------------ MODULE BarkTargets ------------------------------
(***************************************************************************)
(* The managed Bark targets: a JSON file under secrets/ that the operator  *)
(* changes from the web console and every push reads afresh.  A change     *)
(* reads the whole file, validates, and replaces it through a temporary    *)
(* file, waiting at each step; a promise chain per data directory keeps    *)
(* two changes apart.  An audit record follows the file.  The breakers     *)
(* that a new key resets are in Channels.                                  *)
(***************************************************************************)
EXTENDS Naturals, Sequences, SequencesExt

CONSTANTS
    TargetIds,        \* ids of managed targets
    DeviceKeys,       \* what a target holds: its device key, domains and server
    Editors,          \* requests of the operator, at the same time
    MaxManagerStops   \* bound on the stops of the process

VARIABLES
    file,     \* bark-targets.json: the targets in their order
    line,     \* the chain of withManagementLock: who waits, first the holder
    edit,     \* what each request asks for and has read
    audit,    \* the targets as the audit records tell them
    told,     \* ghost: the targets as the answers told the operator
    managerStops

targetVars == <<file, line, edit, audit, told, managerStops>>

Target == [id : TargetIds, key : DeviceKeys]

NotEditing == [pc |-> "idle", mode |-> "create", asks |-> {}, read |-> <<>>]

TargetsInit ==
    /\ file = <<>>
    /\ line = <<>>
    /\ edit = [e \in Editors |-> NotEditing]
    /\ audit = {} /\ told = {}
    /\ managerStops = 0

HasId(targets, i) == \E n \in DOMAIN targets : targets[n].id = i

\* Mutant of Place: an update appends.
PlaceAtEnd(targets, i) == Len(targets) + 1

\* The place of a target, one past the end for a new one.
Place(targets, i) ==
    IF HasId(targets, i) THEN CHOOSE n \in DOMAIN targets : targets[n].id = i ELSE Len(targets) + 1

With(targets, t) ==
    LET n == Place(targets, t.id)
    IN  [m \in DOMAIN targets \cup {n} |-> IF m = n THEN t ELSE targets[m]]

\* A set of targets holds the latest of every id.
Record(known, t) == {u \in known : u.id # t.id} \cup {t}

-----------------------------------------------------------------------------
(* upsertManagedTarget.                                                    *)

Submit(e, mode, t) ==
    /\ edit[e].pc = "idle"
    /\ edit' = [edit EXCEPT ![e] = [NotEditing EXCEPT !.pc = "waits", !.mode = mode, !.asks = {t}]]
    /\ line' = Append(line, e)
    /\ UNCHANGED <<file, audit, told, managerStops>>

\* Mutant of Turn: nobody waits for the change before.
TurnOfAll(e) == line # <<>>

\* A change runs when the one before it has ended, well or not.
Turn(e) == line # <<>> /\ Head(line) = e

Goes(e) ==
    /\ edit' = [edit EXCEPT ![e] = NotEditing]
    /\ line' = Tail(line)

ReadFile(e) ==
    /\ edit[e].pc = "waits" /\ Turn(e)
    /\ edit' = [edit EXCEPT ![e].pc = "read", ![e].read = file]
    /\ UNCHANGED <<file, line, audit, told, managerStops>>

\* The mode of the route: POST creates, PUT updates.
Refused(e) ==
    \E t \in edit[e].asks :
        \/ edit[e].mode = "create" /\ HasId(edit[e].read, t.id)
        \/ edit[e].mode = "update" /\ ~HasId(edit[e].read, t.id)

Refuse(e) ==
    /\ edit[e].pc = "read" /\ Refused(e)
    /\ Goes(e)
    /\ UNCHANGED <<file, audit, told, managerStops>>

\* The temporary file takes the place of the old one at once.
WriteFile(e) ==
    /\ edit[e].pc = "read" /\ ~Refused(e)
    /\ \E t \in edit[e].asks : file' = With(edit[e].read, t)
    /\ edit' = [edit EXCEPT ![e].pc = "written", ![e].read = <<>>]
    /\ UNCHANGED <<line, audit, told, managerStops>>

Acknowledge(e) ==
    /\ edit[e].pc = "written"
    /\ \E t \in edit[e].asks : audit' = Record(audit, t) /\ told' = Record(told, t)
    /\ Goes(e)
    /\ UNCHANGED <<file, managerStops>>

\* A process that stops leaves the file as it is and forgets who waited.
ManagerStop ==
    /\ managerStops < MaxManagerStops
    /\ managerStops' = managerStops + 1
    /\ line' = <<>> /\ edit' = [e \in Editors |-> NotEditing]
    /\ UNCHANGED <<file, audit, told>>

TargetsNext ==
    \/ \E e \in Editors :
        \/ \E mode \in {"create", "update"}, t \in Target : Submit(e, mode, t)
        \/ ReadFile(e) \/ Refuse(e) \/ WriteFile(e) \/ Acknowledge(e)
    \/ ManagerStop

TargetsSpec == TargetsInit /\ [][TargetsNext]_targetVars

-----------------------------------------------------------------------------

\* The types of the targets' state; no id is twice in the file.
TargetsTypeOK ==
    /\ file \in Seq(Target)
    /\ \A m, n \in DOMAIN file : file[m].id = file[n].id => m = n
    /\ ToSet(line) \subseteq Editors
    /\ \A e \in Editors : edit[e].pc \in {"idle", "waits", "read", "written"}
    /\ audit \subseteq Target /\ told \subseteq Target

\* A change the operator was told of is in the file until a later one of the
\* same target replaces it: no overlapping change of another target undoes it,
\* and neither does a stop (withManagementLock, writeManagedTargets).
ToldStands ==
    \A t \in told : \/ t \in ToSet(file)
                    \/ \E e \in Editors : edit[e].pc = "written" /\ \E u \in edit[e].asks : u.id = t.id
                    \/ managerStops > 0 /\ HasId(file, t.id)
=============================================================================
