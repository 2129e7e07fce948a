----------------------------- MODULE SkillRegistry -----------------------------
(***************************************************************************)
(* The registry of the Skill packages on disk: a single-flight scan with a *)
(* short cache, the creation, change and removal of a package, and the     *)
(* preview of a file.  Every operation finds its package in a listing that *)
(* may be older than the disk, and the two files of a package are written  *)
(* one after the other.  What makes a package active is its activation.    *)
(* A file is the number of its text, 0 when it is missing.                 *)
(***************************************************************************)
EXTENDS Naturals

CONSTANTS
    Packages,       \* skill ids
    Requests,       \* requests of the operator and of anonymous readers
    MaxTexts,       \* bound on the texts written to SKILL.md
    MaxOperations,  \* bound on the requests served
    MaxRegistryStops

ASSUME RegistryAssumption ==
    /\ Packages # {}
    /\ MaxTexts \in Nat \ {0}

VARIABLES
    disk,        \* the package directories
    activation,  \* status in skill_activations, written by the commissions
    cache,       \* the last listing, while it lasts
    scan,        \* the scan in flight
    cooling,     \* whether a manual refresh is still ignored
    req,         \* what each request is doing
    scanned,     \* ghost: every text a scan has hashed
    shown,       \* ghost: every text a preview has shown
    written, operations, registryStops

registryVars == <<disk, activation, cache, scan, cooling, req, scanned, shown, written, operations, registryStops>>

NoPackage == [dir |-> FALSE, md |-> 0, status |-> "none"]

\* An entry of a listing; md is the text whose digest it holds.
NoEntry == [listed |-> FALSE, md |-> 0, status |-> "none"]

NoListing == [p \in Packages |-> NoEntry]

Idle == [kind |-> "none", pc |-> "idle", pkg |-> CHOOSE p \in Packages : TRUE, entry |-> NoEntry,
         waiting |-> FALSE]

NoScan == [on |-> FALSE, left |-> {}, read |-> {}, listing |-> NoListing]

RegistryInit ==
    /\ disk \in [Packages -> {NoPackage, [dir |-> TRUE, md |-> 1, status |-> "candidate"]}]
    /\ activation = [p \in Packages |-> "none"]
    /\ cache = [on |-> FALSE, listing |-> NoListing]
    /\ scan = NoScan
    /\ cooling = FALSE
    /\ req = [r \in Requests |-> Idle]
    /\ scanned = {} /\ shown = {}
    /\ written = 1
    /\ operations = 0 /\ registryStops = 0

\* The cache and the cooldown of a manual refresh last three seconds.
PassTime ==
    /\ \/ cache.on /\ cache' = [cache EXCEPT !.on = FALSE] /\ UNCHANGED cooling
       \/ cooling /\ cooling' = FALSE /\ UNCHANGED cache
    /\ UNCHANGED <<disk, activation, scan, req, scanned, shown, written, operations, registryStops>>

\* The commission of the Skill is activated, and rolled back later.
Govern(p) ==
    /\ activation[p] # "rolled_back"
    /\ activation' = [activation EXCEPT ![p] = IF @ = "active" THEN "rolled_back" ELSE "active"]
    /\ UNCHANGED <<disk, cache, scan, cooling, req, scanned, shown, written, operations, registryStops>>

-----------------------------------------------------------------------------
(* list and get.                                                           *)

\* Only a reader asks for a fresh scan; it is ignored while that cools down.
Request(r, kind, p) ==
    /\ req[r].pc = "idle" /\ operations < MaxOperations
    /\ operations' = operations + 1
    /\ req' = [req EXCEPT ![r] = [Idle EXCEPT !.kind = kind, !.pkg = p,
                                              !.pc = IF kind = "create" THEN "mkdir" ELSE "get"]]
    /\ \/ UNCHANGED <<cache, cooling>>
       \/ kind = "list" /\ ~cooling /\ cooling' = TRUE /\ cache' = [cache EXCEPT !.on = FALSE]
    /\ UNCHANGED <<disk, activation, scan, scanned, shown, written, registryStops>>

\* What a request does with its entry; it ends when the package is not listed.
Found(q, listing) ==
    LET entry == listing[q.pkg]
        next == IF q.kind = "list" \/ q.pc = "reget" \/ ~entry.listed THEN "idle"
                ELSE IF q.pc = "reread" \/ q.kind = "read" THEN "read"
                ELSE IF q.kind = "update" THEN "choose" ELSE "remove"
        kept == IF q.pc = "reread" THEN [q.entry EXCEPT !.md = entry.md] ELSE entry
    IN  IF next = "idle" THEN Idle ELSE [q EXCEPT !.pc = next, !.entry = kept, !.waiting = FALSE]

Getting(r) == req[r].pc \in {"get", "reread", "reget"} /\ ~req[r].waiting

GetCached(r) ==
    /\ Getting(r) /\ cache.on
    /\ req' = [req EXCEPT ![r] = Found(@, cache.listing)]
    /\ UNCHANGED <<disk, activation, cache, scan, cooling, scanned, shown, written, operations, registryStops>>

\* A request joins the scan in flight, whenever that began.
AwaitScan(r) ==
    /\ Getting(r) /\ ~cache.on
    /\ req' = [req EXCEPT ![r].waiting = TRUE]
    /\ scan' = IF scan.on THEN scan ELSE [NoScan EXCEPT !.on = TRUE, !.left = Packages]
    /\ UNCHANGED <<disk, activation, cache, cooling, scanned, shown, written, operations, registryStops>>

ActiveRow(p) == activation[p] = "active"

\* The files of one package after the other are read; a directory without
\* SKILL.md is listed too.
ReadPackage(p) ==
    /\ scan.on /\ p \in scan.left /\ scan.read = {}
    /\ scan' = IF disk[p].dir
               THEN [scan EXCEPT !.read = {p},
                                 !.listing[p] = [listed |-> TRUE, md |-> 0,
                                     status |-> IF disk[p].md = 0 THEN "invalid"
                                                ELSE IF disk[p].status = "invalid" THEN "candidate"
                                                ELSE disk[p].status]]
               ELSE [scan EXCEPT !.left = @ \ {p}]
    /\ UNCHANGED <<disk, activation, cache, cooling, req, scanned, shown, written, operations, registryStops>>

\* finalizeValidation: an activation or the package itself makes it active.
Status(p, declared) ==
    IF declared = "invalid" THEN "invalid"
    ELSE IF ActiveRow(p) \/ declared = "active" THEN "active"
    ELSE IF declared = "none" THEN "warning" ELSE "candidate"

\* Then its files are read again for their digest, which fails when one is gone,
\* and the activation is read.
HashPackage(p) ==
    /\ scan.on /\ p \in scan.read
    /\ LET declared == scan.listing[p].status
           text == IF declared = "invalid" THEN 0 ELSE disk[p].md
       IN  /\ declared = "invalid" \/ disk[p].md # 0
           /\ scan' = [scan EXCEPT !.left = @ \ {p}, !.read = {},
                                   !.listing[p] = [listed |-> TRUE, md |-> text, status |-> Status(p, declared)]]
           /\ scanned' = scanned \cup {text}
    /\ UNCHANGED <<disk, activation, cache, cooling, req, shown, written, operations, registryStops>>

Answered(result) == [r \in Requests |-> IF req[r].waiting THEN result[r] ELSE req[r]]

FinishScan ==
    /\ scan.on /\ scan.left = {}
    /\ cache' = [on |-> TRUE, listing |-> scan.listing]
    /\ req' = Answered([r \in Requests |-> Found(req[r], scan.listing)])
    /\ scan' = NoScan
    /\ UNCHANGED <<disk, activation, cooling, scanned, shown, written, operations, registryStops>>

\* A limit is exceeded or a file changed under the scan: nothing is cached.
ScanFails ==
    /\ scan.on
    /\ req' = Answered([r \in Requests |-> Idle])
    /\ scan' = NoScan
    /\ UNCHANGED <<disk, activation, cache, cooling, scanned, shown, written, operations, registryStops>>

-----------------------------------------------------------------------------
(* create, update and delete.                                              *)

Go(r, pc) == req' = [req EXCEPT ![r].pc = pc]

\* The directory is the claim of a new id.
MakeDirectory(r) ==
    LET p == req[r].pkg IN
    /\ req[r].pc = "mkdir"
    /\ IF disk[p].dir THEN req' = [req EXCEPT ![r] = Idle] /\ UNCHANGED disk
       ELSE Go(r, "write") /\ disk' = [disk EXCEPT ![p].dir = TRUE]
    /\ UNCHANGED <<activation, cache, scan, cooling, scanned, shown, written, operations, registryStops>>

\* A change brings its own text or keeps the one on disk, which it reads first.
Choose(r) ==
    /\ req[r].pc = "choose"
    /\ \/ Go(r, "write")
       \/ req[r].entry.md # 0 /\ Go(r, "reread")
    /\ UNCHANGED <<disk, activation, cache, scan, cooling, scanned, shown, written, operations, registryStops>>

WriteManifest(r) ==
    LET p == req[r].pkg IN
    /\ req[r].pc = "write"
    /\ IF ~disk[p].dir THEN req' = [req EXCEPT ![r] = Idle] /\ UNCHANGED <<disk, written>>
       ELSE /\ written < MaxTexts
            /\ written' = written + 1
            /\ disk' = [disk EXCEPT ![p].md = written + 1]
            /\ Go(r, "metadata")
    /\ UNCHANGED <<activation, cache, scan, cooling, scanned, shown, operations, registryStops>>

\* The status of the entry is written as that of the package.
Declared(q) == IF q.kind = "create" THEN "candidate" ELSE q.entry.status

WriteMetadata(r) ==
    LET p == req[r].pkg IN
    /\ req[r].pc = "metadata"
    /\ IF ~disk[p].dir THEN req' = [req EXCEPT ![r] = Idle] /\ UNCHANGED <<disk, cache>>
       ELSE /\ disk' = [disk EXCEPT ![p].status = Declared(req[r])]
            /\ cache' = [cache EXCEPT !.on = FALSE]
            /\ Go(r, "reget")
    /\ UNCHANGED <<activation, scan, cooling, scanned, shown, written, operations, registryStops>>

RemovePackage(r) ==
    /\ req[r].pc = "remove"
    /\ disk' = [disk EXCEPT ![req[r].pkg] = NoPackage]
    /\ cache' = [cache EXCEPT !.on = FALSE]
    /\ req' = [req EXCEPT ![r] = Idle]
    /\ UNCHANGED <<activation, scan, cooling, scanned, shown, written, operations, registryStops>>

-----------------------------------------------------------------------------
(* readFile: the text on disk must still be the one of the listing.        *)

\* Mutant of Unchanged: a file of the package is trusted because it is listed.
Listed(q) == disk[q.pkg].md # 0

Unchanged(q) == disk[q.pkg].md # 0 /\ disk[q.pkg].md = q.entry.md

ReadText(r) ==
    /\ req[r].pc = "read"
    /\ IF ~Unchanged(req[r]) THEN req' = [req EXCEPT ![r] = Idle] /\ UNCHANGED shown
       ELSE IF req[r].kind = "read"
       THEN req' = [req EXCEPT ![r] = Idle] /\ shown' = shown \cup {disk[req[r].pkg].md}
       ELSE Go(r, "write") /\ UNCHANGED shown
    /\ UNCHANGED <<disk, activation, cache, scan, cooling, scanned, written, operations, registryStops>>

RegistryStop ==
    /\ registryStops < MaxRegistryStops
    /\ registryStops' = registryStops + 1
    /\ cache' = [cache EXCEPT !.on = FALSE]
    /\ scan' = NoScan /\ cooling' = FALSE
    /\ req' = [r \in Requests |-> Idle]
    /\ UNCHANGED <<disk, activation, scanned, shown, written, operations>>

RegistryNext ==
    \/ PassTime \/ FinishScan \/ ScanFails \/ RegistryStop
    \/ \E p \in Packages : Govern(p) \/ ReadPackage(p) \/ HashPackage(p)
    \/ \E r \in Requests :
        \/ \E kind \in {"list", "read", "create", "update", "delete"}, p \in Packages : Request(r, kind, p)
        \/ GetCached(r) \/ AwaitScan(r) \/ MakeDirectory(r) \/ Choose(r)
        \/ WriteManifest(r) \/ WriteMetadata(r) \/ RemovePackage(r) \/ ReadText(r)

RegistrySpec == RegistryInit /\ [][RegistryNext]_registryVars

RegistryTypeOK ==
    /\ \A p \in Packages :
        /\ disk[p].md \in 0..MaxTexts
        /\ disk[p].status \in {"none", "candidate", "active", "warning", "invalid"}
        /\ ~disk[p].dir => disk[p] = NoPackage
    /\ activation \in [Packages -> {"none", "active", "rolled_back"}]
    /\ scan.left \subseteq Packages /\ scan.read \subseteq Packages
    /\ written \in 1..MaxTexts

\* docs/skill-governance.md: a preview shows text that was scanned.  Whatever
\* is written between the listing and the reading, no text is shown that a scan
\* has not hashed.
PreviewWasScanned == shown \subseteq scanned

=============================================================================
