---------------------------- MODULE OperatorPage -----------------------------
(***************************************************************************)
(* The operator's login on the web console, in several tabs of a browser   *)
(* (shared/operator-session.js), and two of the pages it protects: the     *)
(* Codex console, which polls (features/codex-supervisor.js, the           *)
(* subscriptions beside it do the same), and the home page with the        *)
(* pictures of the content studio.  Either reads in two steps.  A page     *)
(* runs one handler at a time and goes on while its requests are under     *)
(* way; tabs share localStorage and hear of its changes through storage    *)
(* events.  What a page shows is reduced to the token that was allowed to  *)
(* read it, the revision of the login to whether a request was made in the *)
(* present one.  The selection of a thread and the requests that change    *)
(* something are left out.                                                 *)
(***************************************************************************)
EXTENDS Naturals, Sequences

CONSTANTS
    Tabs,     \* tabs of one browser
    Tokens,   \* what may be typed as the token
    NoToken,  \* an empty input, an absent entry
    MaxMoves  \* bound on the operator's moves and on lost requests

VARIABLES
    secret,         \* the token the server accepts
    accepted,       \* ghost: the tokens its session route accepted
    local,          \* the entry of localStorage
    storageEvents,  \* the storage events on their way to each tab
    page,           \* what each tab holds
    moves

pageVars == <<secret, accepted, local, storageEvents, page, moves>>

Views == {"codex", "home"}

\* A request: where it is, the token it carries, whether the revision is still its own.
Requests == [step : {"idle", "asked", "accepted", "denied", "lost"}, part : {1, 2},
             token : Tokens \cup {NoToken}, current : BOOLEAN]

NoRequest == [step |-> "idle", part |-> 1, token |-> NoToken, current |-> FALSE]

Asked(p, part) == [step |-> "asked", part |-> part, token |-> p.input, current |-> TRUE]

\* A loaded page fills the input from storage and validates what it found.
Loaded(view, session, stored) ==
    LET found == IF session # NoToken THEN session ELSE stored
        blank == [view |-> view, input |-> found, session |-> session,
                  remember |-> stored # NoToken, authenticated |-> FALSE, check |-> NoRequest,
                  read |-> NoRequest, shown |-> NoToken, poll |-> FALSE]
    IN  [blank EXCEPT !.check = IF found = NoToken THEN NoRequest ELSE Asked(blank, 1)]

PageInit ==
    /\ secret \in Tokens
    /\ accepted = {secret}
    /\ local \in {NoToken, secret}
    /\ storageEvents = [t \in Tabs |-> <<>>]
    /\ \E open \in [Tabs -> Views] : page = [t \in Tabs |-> Loaded(open[t], NoToken, local)]
    /\ moves = 0

-----------------------------------------------------------------------------
(* What the handlers have in common.                                       *)

\* The other tabs hear of a change of the entry, not of a write that changes nothing.
SetLocal(t, token) ==
    /\ local' = token
    /\ storageEvents' = IF token = local THEN storageEvents
                ELSE [u \in Tabs |-> IF u = t THEN storageEvents[u] ELSE Append(storageEvents[u], token)]

\* The entries a remembered or a forgotten token leaves: storeOperatorToken.
StoreToken(t, remember, token) == SetLocal(t, IF remember THEN token ELSE NoToken)

Kept(p) == [p EXCEPT !.session = IF p.remember THEN NoToken ELSE p.input]

NewRevision(p) == [p EXCEPT !.read.current = FALSE]

\* The views are locked, the token is forgotten in this tab.
Invalidated(p) ==
    [NewRevision(p) EXCEPT !.authenticated = FALSE, !.input = NoToken, !.session = NoToken,
                           !.shown = NoToken, !.poll = FALSE]

\* A refresh while one is under way is dropped: the end of that one polls again.
Refreshed(p) ==
    IF p.authenticated /\ p.view = "codex" /\ p.read.step = "idle"
    THEN [p EXCEPT !.read = Asked(p, 1), !.poll = FALSE]
    ELSE [p EXCEPT !.poll = FALSE]

\* refreshProtectedViews releases the pictures and reads the console again.
ViewsRefreshed(p) ==
    Refreshed([p EXCEPT !.shown = IF p.view = "home" THEN NoToken ELSE @])

\* Mutant of Same: an answer is shown to whoever is logged in.
SameIfLoggedIn(p, r) == p.authenticated

\* The login an answer comes back to is the one its request was made under.
Same(p, r) == p.authenticated /\ r.current

Become(t, p) == page' = [page EXCEPT ![t] = p]

Move ==
    /\ moves < MaxMoves
    /\ moves' = moves + 1

-----------------------------------------------------------------------------
(* What the operator does.                                                 *)

\* Typing forgets the stored token at once and, after a login, ends it.
Type(t, token) ==
    /\ Move
    /\ token # page[t].input
    /\ LET p == page[t]
       IN  Become(t, IF p.authenticated THEN [Invalidated(p) EXCEPT !.input = token]
                     ELSE [p EXCEPT !.input = token, !.session = NoToken])
    /\ SetLocal(t, NoToken)
    /\ UNCHANGED <<secret, accepted>>

ToggleRemember(t) ==
    /\ Move
    /\ LET p == [page[t] EXCEPT !.remember = ~@]
       IN  IF p.authenticated
           THEN Become(t, Kept(p)) /\ StoreToken(t, p.remember, p.input)
           ELSE Become(t, p) /\ UNCHANGED <<local, storageEvents>>
    /\ UNCHANGED <<secret, accepted>>

\* The button is disabled while a validation is under way.
SubmitToken(t) ==
    /\ Move
    /\ page[t].check.step = "idle"
    /\ IF page[t].input = NoToken
       THEN Become(t, Invalidated(page[t])) /\ SetLocal(t, NoToken)
       ELSE /\ Become(t, [page[t] EXCEPT !.check = Asked(page[t], 1)])
            /\ UNCHANGED <<local, storageEvents>>
    /\ UNCHANGED <<secret, accepted>>

Logout(t) ==
    /\ Move
    /\ page[t].authenticated
    /\ Become(t, ViewsRefreshed(Invalidated(page[t])))
    /\ SetLocal(t, NoToken)
    /\ UNCHANGED <<secret, accepted>>

\* The tab keeps its sessionStorage; whatever its requests answer is lost.
Reload(t) ==
    /\ Move
    /\ Become(t, Loaded(page[t].view, page[t].session, local))
    /\ storageEvents' = [storageEvents EXCEPT ![t] = <<>>]
    /\ UNCHANGED <<secret, accepted, local>>

\* The server is started with a token of which no page was told before.
Rotate ==
    /\ \E token \in Tokens \ (accepted \cup {secret}) : secret' = token
    /\ UNCHANGED <<accepted, local, storageEvents, page, moves>>

-----------------------------------------------------------------------------
(* Requests and their answers.                                             *)

\* The server looks at the token of a request when it reaches it; the bytes of
\* a picture whose status was seen come without another look.
Verdict(t, kind) ==
    IF page[t][kind].token = secret \/ (page[t].view = "home" /\ page[t][kind].part = 2)
    THEN "accepted" ELSE "denied"

ServeRequest(t, kind) ==
    /\ page[t][kind].step = "asked"
    /\ page' = [page EXCEPT ![t][kind].step = Verdict(t, kind)]
    /\ accepted' = accepted \cup IF kind = "check" /\ Verdict(t, kind) = "accepted"
                                 THEN {page[t][kind].token} ELSE {}
    /\ UNCHANGED <<secret, local, storageEvents, moves>>

\* A request that fails without an answer.
Lose(t, kind) ==
    /\ Move
    /\ page[t][kind].step = "asked"
    /\ page' = [page EXCEPT ![t][kind].step = "lost"]
    /\ UNCHANGED <<secret, accepted, local, storageEvents>>

\* Mutant of Unchanged: what was typed meanwhile counts as validated.
UnchangedOrNot(p) == TRUE

\* The input still holds the token that was validated.
InputUnchanged(p) == p.input = p.check.token

\* validateOperatorSession after its answer: any failure forgets the token.
EndCheck(t) ==
    /\ page[t].check.step \in {"accepted", "denied", "lost"}
    /\ LET p == [page[t] EXCEPT !.check = NoRequest]
           q == [NewRevision(p) EXCEPT !.authenticated = TRUE]
       IN  IF page[t].check.step = "accepted" /\ InputUnchanged(page[t])
           THEN /\ Become(t, ViewsRefreshed(Kept(q)))
                /\ StoreToken(t, p.remember, page[t].check.token)
           ELSE Become(t, Invalidated(p)) /\ SetLocal(t, NoToken)
    /\ UNCHANGED <<secret, accepted, moves>>

\* A 401 ends the login of the page, whichever it belonged to: operatorApi.
Denied(t) ==
    /\ page[t].read.step = "denied"
    /\ Become(t, [Invalidated(page[t]) EXCEPT !.read = NoRequest])
    /\ SetLocal(t, NoToken)
    /\ UNCHANGED <<secret, accepted, moves>>

Dropped(p) == [p EXCEPT !.read = NoRequest, !.poll = p.view = "codex" /\ p.authenticated]

\* The second part: the detail of a thread, asked for anew, or the picture's bytes.
Continued(p) ==
    [p EXCEPT !.read = IF p.view = "codex" THEN Asked(p, 2)
                       ELSE [@ EXCEPT !.step = "asked", !.part = 2]]

EndRead(t) ==
    LET p == page[t]
    IN  /\ p.read.step \in {"accepted", "lost"}
        /\ Become(t, IF p.read.step = "lost" \/ ~Same(p, p.read) THEN Dropped(p)
                     ELSE IF p.read.part = 1 THEN Continued(p)
                     ELSE [Dropped(p) EXCEPT !.shown = p.read.token])
        /\ UNCHANGED <<secret, accepted, local, storageEvents, moves>>

\* hydrateIllustrations, for a picture of a work that is listed.
AskPicture(t) ==
    /\ page[t].view = "home" /\ page[t].authenticated
    /\ page[t].read.step = "idle" /\ page[t].shown = NoToken
    /\ Become(t, [page[t] EXCEPT !.read = Asked(page[t], 1)])
    /\ UNCHANGED <<secret, accepted, local, storageEvents, moves>>

Poll(t) ==
    /\ page[t].poll
    /\ Become(t, Refreshed(page[t]))
    /\ UNCHANGED <<secret, accepted, local, storageEvents, moves>>

\* A storage event concerns a page that is logged in with another token.
Hear(t) ==
    /\ storageEvents[t] # <<>>
    /\ storageEvents' = [storageEvents EXCEPT ![t] = Tail(@)]
    /\ LET p == page[t]
       IN  Become(t, IF p.authenticated /\ Head(storageEvents[t]) # p.input
                     THEN ViewsRefreshed(Invalidated(p)) ELSE p)
    /\ UNCHANGED <<secret, accepted, local, moves>>

PageNext ==
    \/ \E t \in Tabs :
        \/ \E token \in Tokens \cup {NoToken} : Type(t, token)
        \/ ToggleRemember(t) \/ SubmitToken(t) \/ Logout(t) \/ Reload(t)
        \/ \E kind \in {"check", "read"} : ServeRequest(t, kind) \/ Lose(t, kind)
        \/ EndCheck(t) \/ Denied(t) \/ EndRead(t) \/ AskPicture(t)
        \/ Poll(t) \/ Hear(t)
    \/ Rotate

PageSpec == PageInit /\ [][PageNext]_pageVars

-----------------------------------------------------------------------------

PageTypeOK ==
    /\ secret \in Tokens /\ accepted \subseteq Tokens
    /\ local \in Tokens \cup {NoToken}
    /\ \A t \in Tabs :
        /\ storageEvents[t] \in Seq(Tokens \cup {NoToken})
        /\ page[t].input \in Tokens \cup {NoToken}
        /\ {page[t].check, page[t].read} \subseteq Requests

\* A page that shows what is protected is logged in with the very token that
\* was allowed to read it, and no token stays in a login or in the browser that
\* the server did not accept: not after typing, logging out and in again or a
\* change in another tab while answers are on their way (operatorApi,
\* assertOperatorSession, validateOperatorSession).
ShownToItsReader ==
    /\ local \in accepted \cup {NoToken}
    /\ \A t \in Tabs :
        /\ page[t].session \in accepted \cup {NoToken}
        /\ page[t].authenticated => page[t].input \in accepted
        /\ page[t].shown # NoToken => page[t].authenticated /\ page[t].shown = page[t].input
=============================================================================
