----------------------------- MODULE MCMessages ------------------------------
(* What Totemora reads and sends: the desk and the digests of Codex, the       *)
(* connection to its server, the move from the old project, market data, the   *)
(* Bark targets, the operator's console, the finance briefings, the forwarded  *)
(* relay, the deals and the scans of the two watches.  In the models they      *)
(* share no state, so their product is checked one service at a time: the      *)
(* first state chooses which.                                                  *)
EXTENDS CodexDesk, CodexDigests, AppServerLink, Cutover, MarketSnapshot, BarkTargets,
        OperatorPage, Briefings, ForwardedRelay, Deals, Scans, TLC

CONSTANTS
    A, B

VARIABLE
    service  \* the one this behaviour is of

Looked == {"desk", "digests", "server", "cutover", "market", "targets", "page",
           "briefings", "relay", "deals", "scans"}

\* While one service is looked at, the others have nothing to do: those with
\* properties of their own wait in a first state, the others are empty.
MessagesInit ==
    /\ service \in Looked
    /\ IF service = "desk" THEN DeskInit
       ELSE /\ link = {} /\ links = {} /\ ask = {} /\ replied = {} /\ queued = {}
            /\ applying = {} /\ notice = {} /\ tick = {} /\ daily = {}
    /\ IF service = "digests" THEN DigestInit
       ELSE /\ subscription = {} /\ window = {} /\ delivery = {} /\ session = {}
            /\ last = {} /\ posted = {} /\ today = {} /\ digestStops = {}
    /\ IF service = "server" THEN LinkInit
       ELSE /\ server = {} /\ wire = {} /\ socket = {} /\ client = {} /\ inUse = {}
            /\ attached = {} /\ runner = {} /\ backoff = {} /\ asked = {} /\ said = {}
            /\ heard = {} /\ linkFaults = {}
    /\ IF service = "cutover" THEN CutoverInit
       ELSE /\ kind = {} /\ old = {} /\ sentOn = {} /\ main = {} /\ oldUp = {}
            /\ backup = {} /\ import = {} /\ record = {} /\ closed = {} /\ serviceUp = {}
            /\ newRow = {} /\ shown = {} /\ cutoverDay = {}
    /\ IF service = "market" THEN MarketInit
       ELSE /\ now = {} /\ quotes = {} /\ briefed = {} /\ marketHealth = {}
    /\ IF service = "targets" THEN TargetsInit
       ELSE /\ file = {} /\ line = {} /\ edit = {} /\ audit = {} /\ told = {}
            /\ managerStops = {}
    /\ IF service = "page" THEN PageInit
       ELSE /\ secret = {} /\ accepted = {} /\ local = {} /\ storageEvents = {}
            /\ page = {} /\ moves = {}
    /\ BriefInit /\ RelayInit /\ DealsInit /\ ScansInit
    /\ service # "relay" => twins = {}
    /\ service # "deals" => \A d \in Deals : deal[d] = "absent"
    /\ service # "scans" => domain = "ai"

\* A service takes its steps while it is the one looked at.
OwnStep(s, next, vars) ==
    \/ service = s /\ next
    \/ service # s /\ UNCHANGED vars

MessagesNext ==
    /\ UNCHANGED service
    /\ OwnStep("desk", DeskNext, deskVars) /\ OwnStep("digests", DigestNext, digestVars)
    /\ OwnStep("server", LinkNext, linkVars) /\ OwnStep("cutover", CutoverNext, cutoverVars)
    /\ OwnStep("market", MarketNext, marketVars) /\ OwnStep("targets", TargetsNext, targetVars)
    /\ OwnStep("page", PageNext, pageVars) /\ OwnStep("briefings", BriefNext, briefVars)
    /\ OwnStep("relay", RelayNext, relayVars) /\ OwnStep("deals", DealsNext, dealVars)
    /\ OwnStep("scans", ScansNext, scanVars)

messagesVars ==
    <<service, deskVars, digestVars, linkVars, cutoverVars, marketVars, targetVars, pageVars,
      briefVars, relayVars, dealVars, scanVars>>

MessagesSpec == MessagesInit /\ [][MessagesNext]_messagesVars

------------------------------------------------------------------------------

\* Every variable keeps its type.
TypesOK ==
    /\ service = "desk" => DeskTypeOK
    /\ service = "digests" => DigestTypeOK
    /\ service = "server" => LinkTypeOK
    /\ service = "cutover" => CutoverTypeOK
    /\ service = "market" => MarketTypeOK
    /\ service = "targets" => TargetsTypeOK
    /\ service = "page" => PageTypeOK
    /\ service = "briefings" => BriefTypeOK
    /\ service = "relay" => RelayTypeOK
    /\ service = "deals" => DealsTypeOK
    /\ service = "scans" => ScansTypeOK

\* Nothing is shown or answered twice: a message of a day's digest, an item the
\* old project showed before the move, a question of the server of Codex.
ShownOnce ==
    /\ service = "digests" => OneDigestPerDay
    /\ service = "cutover" => ShownOnceAcross
    /\ service = "desk" => AnsweredOnce

\* What is heard, told and shown is so.  MarketSnapshot: what a briefing calls
\* last night is the last session, or a shortened one has just closed since.
\* AppServerLink: the client hears the server's messages in order, and a question
\* that is open belongs to the connection in use or to one that ended with its
\* process.  BarkTargets: a change that was acknowledged stands in the file.
\* OperatorPage: a page shows what the token of its login may read.
ShownIsSo ==
    /\ service = "market" => LastNightIsLast
    /\ service = "server" => HeardInOrder /\ OpenOnTheLink
    /\ service = "targets" => ToldStands
    /\ service = "page" => ShownToItsReader

\* The sources of the scans: AI HOT and a plain feed, or disclosures.
SomeOffTopic == {<<"hot", 1>>, <<"feed", 1>>}

Versions == [src \in {"hot", "feed", "disclosures"} |-> IF src = "feed" THEN 1 ELSE 2]

Symmetry == Permutations(A) \cup Permutations(B)
=============================================================================
