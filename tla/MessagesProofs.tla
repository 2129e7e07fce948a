--------------------------- MODULE MessagesProofs ---------------------------
(****************************************************************************)
(* Proofs about what Totemora reads and sends: the desk and the digests of  *)
(* Codex, the connection to its server, the move from the old project, the  *)
(* market data, the Bark targets, the operator's console, the finance       *)
(* briefings, the forwarded relay, the deals and the scans. The eleven      *)
(* services of MCMessages share no variable: each part has an invariant of  *)
(* its own, and the last part puts them together.                           *)
(****************************************************************************)
EXTENDS MCMessages, FiniteSetTheorems, SequenceTheorems, WellFoundedInduction, TLAPS

(****************************************************************************)
(* DESK. Why a question is answered once: an answer takes its row out of    *)
(* "open" in the same step, whichever chat it came from, and only a         *)
(* suggestion whose default was taken is applied again, with that default.  *)
(****************************************************************************)

AskRows == [status: AskStatuses, kind: AskKinds, link: 0..MaxLinks, choice: Options \cup {"none"}]

Pairs == Asks \X Chats

TickRows == [running: BOOLEAN, todo: SUBSET Pairs, flying: SUBSET Pairs, failed: BOOLEAN]

\* What is known of a question: nothing was said while it is open, one of its
\* two ways of answering is never used, and what was said is on record.
AskFits(a) ==
    /\ ask[a].status \in {"absent", "open"} => replied[a] = <<>> /\ queued[a] = {} /\ a \notin applying
    /\ FromServer(a) => queued[a] = {} /\ ask[a].status # "defaulted"
    /\ ~FromServer(a) => replied[a] = <<>>
    /\ replied[a] \in {<<>>, <<[link |-> ask[a].link, choice |-> ask[a].choice]>>}
    /\ queued[a] \subseteq {ask[a].choice}
    /\ ask[a].status = "defaulted" => ask[a].choice \in Options

DeskInv ==
    /\ DeskTypeOK
    /\ replied \in [Asks -> Seq([link : 0..MaxLinks, choice : Options])]
    /\ \A a \in Asks : AskFits(a)

LEMMA AsksKnown ==
    ASSUME DeskInv
    PROVE  /\ link \in 0..MaxLinks /\ links \in 0..MaxLinks /\ applying \subseteq Asks
           /\ ask \in [Asks -> AskRows]
           /\ replied \in [Asks -> Seq([link : 0..MaxLinks, choice : Options])]
           /\ queued \in [Asks -> SUBSET Options]
  BY DEF DeskInv, DeskTypeOK, AskRows

LEMMA NoticesKnown ==
    ASSUME DeskInv
    PROVE  /\ notice \in [Asks -> [Chats -> {"absent", "executing", "completed", "failed", "uncertain"}]]
           /\ tick \in TickRows
           /\ daily \in [minute: {"before", "08:30", "after"}, sent: SUBSET Chats]
  BY DEF DeskInv, DeskTypeOK, TickRows, Pairs

LEMMA TicksKnown ==
    /\ NoTick \in TickRows
    /\ \A p \in TickRows : p.todo \subseteq Pairs /\ p.flying \subseteq Pairs
    /\ \A p \in TickRows, T \in SUBSET Pairs, b \in BOOLEAN : [p EXCEPT !.todo = T, !.failed = b] \in TickRows
    /\ \A p \in TickRows, T \in SUBSET Pairs, F \in SUBSET Pairs : [p EXCEPT !.todo = T, !.flying = F] \in TickRows
    /\ \A p \in TickRows, b \in BOOLEAN : [p EXCEPT !.flying = {}, !.failed = b] \in TickRows
    /\ \A T \in SUBSET Pairs : [NoTick EXCEPT !.running = TRUE, !.todo = T] \in TickRows
  BY DEF NoTick, TickRows

LEMMA DeskInvInit == DeskInit => DeskInv
<1> SUFFICES ASSUME DeskInit
             PROVE  DeskInv
  OBVIOUS
<1>1. /\ link = 0 /\ links = 0 /\ ask = [a \in Asks |-> NoAsk] /\ replied = [a \in Asks |-> <<>>]
      /\ queued = [a \in Asks |-> {}] /\ applying = {}
  BY DEF DeskInit
<1>2. NoAsk \in AskRows /\ NoAsk.status = "absent" /\ NoAsk.kind = "approval"
  BY DeskAssumption DEF NoAsk, AskRows, AskStatuses, AskKinds, ServerKinds, AgentKinds
<1>3. ask \in [Asks -> AskRows] /\ \A a \in Asks : ask[a].status = "absent" /\ ask[a].kind = "approval"
  BY <1>1, <1>2
<1>4. replied \in [Asks -> Seq([link : 0..MaxLinks, choice : Options])]
  BY <1>1
<1>5. \A a \in Asks : AskFits(a)
  BY <1>1, <1>3 DEF AskFits, FromServer, ServerKinds
<1>6. \A a \in Asks : Len(replied[a]) <= 1
  <2>1. Len(<<>>) <= 1
    OBVIOUS
  <2>2. \A a \in Asks : replied[a] = <<>>
    BY <1>1
  <2>3. QED
    BY <2>1, <2>2
<1>7. /\ notice \in [Asks -> [Chats -> {"absent", "executing", "completed", "failed", "uncertain"}]]
      /\ tick \in TickRows
      /\ daily \in [minute: {"before", "08:30", "after"}, sent: SUBSET Chats]
  BY TicksKnown DEF DeskInit
<1>8. link \in 0..MaxLinks /\ links \in 0..MaxLinks /\ queued \in [Asks -> SUBSET Options] /\ applying \subseteq Asks
  BY <1>1, DeskAssumption
<1>9. DeskTypeOK
  BY <1>3, <1>6, <1>7, <1>8 DEF DeskTypeOK, AskRows, TickRows, Pairs
<1>10. QED
  BY <1>4, <1>5, <1>9 DEF DeskInv

\* A question whose rows did not change is as it was.
LEMMA AskStands ==
    ASSUME DeskInv, NEW d \in Asks, ask'[d] = ask[d], replied'[d] = replied[d], queued'[d] = queued[d],
           d \in applying' => d \in applying
    PROVE  AskFits(d)'
<1>1. AskFits(d)
  BY DEF DeskInv
<1>2. QED
  BY <1>1 DEF AskFits, FromServer

\* A step that deals with one question: what is left to show of it.
LEMMA AskStep ==
    ASSUME DeskInv, NEW a \in Asks, UNCHANGED <<link, links, notice, tick, daily>>,
           ask' \in [Asks -> AskRows], replied' \in [Asks -> Seq([link : 0..MaxLinks, choice : Options])],
           queued' \in [Asks -> SUBSET Options], applying' \subseteq Asks,
           \A d \in Asks \ {a} : /\ ask'[d] = ask[d] /\ replied'[d] = replied[d] /\ queued'[d] = queued[d]
                                 /\ d \in applying' => d \in applying,
           AskFits(a)'
    PROVE  DeskInv'
<1>1. \A d \in Asks : AskFits(d)'
  BY AskStands
<1>2. \A d \in Asks : Len(replied'[d]) <= 1
  <2>1. Len(<<>>) <= 1 /\ \A x : Len(<<x>>) <= 1
    OBVIOUS
  <2>2. \A d \in Asks : replied'[d] = <<>> \/ \E x : replied'[d] = <<x>>
    BY <1>1 DEF AskFits
  <2>3. QED
    BY <2>1, <2>2
<1>3. DeskTypeOK'
  BY <1>2, AsksKnown, NoticesKnown DEF DeskTypeOK, AskRows, TickRows, Pairs
<1>4. QED
  BY <1>1, <1>3 DEF DeskInv

LEMMA CreateKeeps ==
    ASSUME DeskInv, NEW a \in Asks, NEW k \in AskKinds, HandleServerRequest(a, k) \/ RaiseAgentInteraction(a, k)
    PROVE  DeskInv'
<1>1. PICK l \in 0..MaxLinks : Create(a, k, l)
  BY AsksKnown, DeskAssumption DEF HandleServerRequest, RaiseAgentInteraction
<1>2. /\ ask[a].status = "absent" /\ UNCHANGED <<link, links, replied, queued, applying, notice, tick, daily>>
      /\ ask' = [ask EXCEPT ![a] = [status |-> "open", kind |-> k, link |-> l, choice |-> "none"]]
  BY <1>1 DEF Create
<1>3. [status |-> "open", kind |-> k, link |-> l, choice |-> "none"] \in AskRows
  BY DEF AskRows, AskStatuses
<1>4. /\ ask' \in [Asks -> AskRows] /\ ask'[a].status = "open"
      /\ \A d \in Asks \ {a} : ask'[d] = ask[d]
  BY <1>2, <1>3, AsksKnown
<1>5. replied'[a] = <<>> /\ queued'[a] = {} /\ a \notin applying'
  BY <1>2 DEF DeskInv, AskFits
<1>6. AskFits(a)'
  BY <1>4, <1>5 DEF AskFits
<1>7. QED
  BY <1>2, <1>4, <1>6, AsksKnown, AskStep

LEMMA ServerAnswerKeeps ==
    ASSUME DeskInv, NEW a \in Asks, NEW o \in Options, AnswerServerInteraction(a, o)
    PROVE  DeskInv'
<1>1. /\ ask[a].status = "open" /\ FromServer(a)
      /\ UNCHANGED <<link, links, queued, applying, notice, tick, daily>>
  BY DEF AnswerServerInteraction, MayAnswer
<1>2. replied[a] = <<>> /\ queued[a] = {} /\ a \notin applying
  BY <1>1 DEF DeskInv, AskFits
<1>3. ask[a] \in AskRows /\ ask \in [Asks -> AskRows]
  BY AsksKnown
<1>4. CASE /\ ask[a].link = link
           /\ replied' = [replied EXCEPT ![a] = Append(@, [link |-> link, choice |-> o])]
           /\ ask' = [ask EXCEPT ![a].status = "resolved", ![a].choice = o]
  <2>1. PICK q \in AskRows :
            /\ q = [ask[a] EXCEPT !.status = "resolved", !.choice = o]
            /\ q.status = "resolved" /\ q.choice = o /\ q.kind = ask[a].kind /\ q.link = ask[a].link
    <3>1. \A r \in AskRows : LET q == [r EXCEPT !.status = "resolved", !.choice = o]
                             IN  q \in AskRows /\ q.status = "resolved" /\ q.choice = o /\ q.kind = r.kind /\ q.link = r.link
      BY DEF AskRows, AskStatuses
    <3>2. QED
      BY <3>1, <1>3
  <2>2. ask' = [ask EXCEPT ![a] = q]
    BY <1>3, <1>4, <2>1
  <2>3. ask' \in [Asks -> AskRows] /\ ask'[a] = q /\ \A d \in Asks \ {a} : ask'[d] = ask[d]
    BY <1>3, <2>2
  <2>4. [link |-> link, choice |-> o] \in [link : 0..MaxLinks, choice : Options]
    BY AsksKnown
  <2>5. Append(replied[a], [link |-> link, choice |-> o]) = <<[link |-> link, choice |-> o]>>
    BY <1>2
  <2>6. <<[link |-> link, choice |-> o]>> \in Seq([link : 0..MaxLinks, choice : Options])
    BY <2>4
  <2>7. /\ replied' \in [Asks -> Seq([link : 0..MaxLinks, choice : Options])]
        /\ replied'[a] = <<[link |-> link, choice |-> o]>>
        /\ \A d \in Asks \ {a} : replied'[d] = replied[d]
    BY <1>4, <2>5, <2>6, AsksKnown
  <2>8. AskFits(a)'
    BY <1>1, <1>2, <1>4, <2>1, <2>3, <2>7 DEF AskFits, FromServer
  <2>9. QED
    BY <1>1, <2>3, <2>7, <2>8, AsksKnown, AskStep
<1>5. CASE UNCHANGED replied /\ ask' = [ask EXCEPT ![a].status = "manual_attention", ![a].choice = o]
  <2>1. PICK q \in AskRows :
            /\ q = [ask[a] EXCEPT !.status = "manual_attention", !.choice = o]
            /\ q.status = "manual_attention" /\ q.kind = ask[a].kind
    <3>1. \A r \in AskRows : LET q == [r EXCEPT !.status = "manual_attention", !.choice = o]
                             IN  q \in AskRows /\ q.status = "manual_attention" /\ q.kind = r.kind
      BY DEF AskRows, AskStatuses
    <3>2. QED
      BY <3>1, <1>3
  <2>2. ask' = [ask EXCEPT ![a] = q]
    BY <1>3, <1>5, <2>1
  <2>3. ask' \in [Asks -> AskRows] /\ ask'[a] = q /\ \A d \in Asks \ {a} : ask'[d] = ask[d]
    BY <1>3, <2>2
  <2>4. AskFits(a)'
    BY <1>1, <1>2, <1>5, <2>1, <2>3 DEF AskFits, FromServer
  <2>5. QED
    BY <1>1, <1>5, <2>3, <2>4, AsksKnown, AskStep
<1>6. CASE UNCHANGED replied /\ ask' = [ask EXCEPT ![a].status = "manual_attention"]
  <2>1. PICK q \in AskRows :
            /\ q = [ask[a] EXCEPT !.status = "manual_attention"]
            /\ q.status = "manual_attention" /\ q.kind = ask[a].kind
    <3>1. \A r \in AskRows : LET q == [r EXCEPT !.status = "manual_attention"]
                             IN  q \in AskRows /\ q.status = "manual_attention" /\ q.kind = r.kind
      BY DEF AskRows, AskStatuses
    <3>2. QED
      BY <3>1, <1>3
  <2>2. ask' = [ask EXCEPT ![a] = q]
    BY <1>3, <1>6, <2>1
  <2>3. ask' \in [Asks -> AskRows] /\ ask'[a] = q /\ \A d \in Asks \ {a} : ask'[d] = ask[d]
    BY <1>3, <2>2
  <2>4. AskFits(a)'
    BY <1>1, <1>2, <1>6, <2>1, <2>3 DEF AskFits, FromServer
  <2>5. QED
    BY <1>1, <1>6, <2>3, <2>4, AsksKnown, AskStep
<1>7. QED
  BY <1>4, <1>5, <1>6 DEF AnswerServerInteraction

\* An agent's question is applied: for the first time, or its default again.
LEMMA ApplyLocalKeeps ==
    ASSUME DeskInv, NEW a \in Asks, NEW o \in Options, NEW s \in {"answered", "defaulted"},
           ~FromServer(a), ask[a].status # "absent", queued[a] \subseteq {o},
           ApplyLocalAnswer(a, o, s), UNCHANGED <<link, links, replied, notice, tick, daily>>
    PROVE  DeskInv'
<1>1. replied[a] = <<>>
  BY DEF DeskInv, AskFits
<1>2. ask[a] \in AskRows /\ ask \in [Asks -> AskRows]
  BY AsksKnown
<1>3. PICK t \in {"answered", "defaulted", "resolved"} : ask' = [ask EXCEPT ![a].status = t, ![a].choice = o]
  BY DEF ApplyLocalAnswer
<1>4. PICK q \in AskRows :
          /\ q = [ask[a] EXCEPT !.status = t, !.choice = o]
          /\ q.status = t /\ q.choice = o /\ q.kind = ask[a].kind /\ q.link = ask[a].link
  <2>1. \A r \in AskRows : LET q == [r EXCEPT !.status = t, !.choice = o]
                           IN  q \in AskRows /\ q.status = t /\ q.choice = o /\ q.kind = r.kind /\ q.link = r.link
    BY DEF AskRows, AskStatuses
  <2>2. QED
    BY <2>1, <1>2
<1>5. ask' = [ask EXCEPT ![a] = q]
  BY <1>2, <1>3, <1>4
<1>6. ask' \in [Asks -> AskRows] /\ ask'[a] = q /\ \A d \in Asks \ {a} : ask'[d] = ask[d]
  BY <1>2, <1>5
<1>7. /\ queued' \in [Asks -> SUBSET Options] /\ queued'[a] \subseteq {o}
      /\ \A d \in Asks \ {a} : queued'[d] = queued[d]
  <2>1. CASE UNCHANGED queued
    BY <2>1, AsksKnown
  <2>2. CASE queued' = [queued EXCEPT ![a] = @ \cup {o}]
    BY <2>2, AsksKnown
  <2>3. QED
    BY <2>1, <2>2 DEF ApplyLocalAnswer
<1>8. applying' \subseteq Asks /\ \A d \in Asks \ {a} : d \in applying' => d \in applying
  BY AsksKnown DEF ApplyLocalAnswer
<1>9. AskFits(a)'
  BY <1>1, <1>4, <1>6, <1>7 DEF AskFits, FromServer
<1>10. QED
  BY <1>6, <1>7, <1>8, <1>9, AsksKnown, AskStep

LEMMA LocalAnswerKeeps ==
    ASSUME DeskInv, NEW a \in Asks, NEW o \in Options, AnswerLocal(a, o)
    PROVE  DeskInv'
<1>1. ask[a].status = "open" /\ queued[a] \subseteq {o}
  BY DEF AnswerLocal, MayAnswer, DeskInv, AskFits
<1>2. QED
  BY <1>1, ApplyLocalKeeps DEF AnswerLocal

LEMMA DefaultedKeeps ==
    ASSUME DeskInv, NEW a \in Asks, ApplyDefaulted(a)
    PROVE  DeskInv'
<1>1. ask[a].status = "defaulted" /\ AskFits(a)
  BY DEF ApplyDefaulted, DeskInv
<1>2. ask[a].choice \in Options /\ queued[a] \subseteq {ask[a].choice} /\ ~FromServer(a)
  BY <1>1 DEF AskFits
<1>3. QED
  BY <1>1, <1>2, ApplyLocalKeeps DEF ApplyDefaulted

LEMMA PauseEndsKeeps ==
    ASSUME DeskInv, NEW a \in Asks, PauseEnds(a)
    PROVE  DeskInv'
<1>1. /\ a \in applying /\ applying' = applying \ {a}
      /\ UNCHANGED <<link, links, replied, queued, notice, tick, daily>>
  BY DEF PauseEnds
<1>2. PICK t \in {"resolved", ask[a].status} : ask' = [ask EXCEPT ![a].status = t]
  BY DEF PauseEnds
<1>3. AskFits(a) /\ ask[a].status \notin {"absent", "open"} /\ ask[a] \in AskRows /\ ask \in [Asks -> AskRows]
  BY <1>1, AsksKnown DEF DeskInv, AskFits
<1>4. PICK q \in AskRows :
          /\ q = [ask[a] EXCEPT !.status = t]
          /\ q.status = t /\ q.choice = ask[a].choice /\ q.kind = ask[a].kind /\ q.link = ask[a].link
  <2>1. t \in AskStatuses
    BY <1>3 DEF AskRows, AskStatuses
  <2>2. \A r \in AskRows : LET q == [r EXCEPT !.status = t]
                           IN  q \in AskRows /\ q.status = t /\ q.choice = r.choice /\ q.kind = r.kind /\ q.link = r.link
    BY <2>1 DEF AskRows
  <2>3. QED
    BY <2>2, <1>3
<1>5. ask' = [ask EXCEPT ![a] = q]
  BY <1>2, <1>3, <1>4
<1>6. ask' \in [Asks -> AskRows] /\ ask'[a] = q /\ \A d \in Asks \ {a} : ask'[d] = ask[d]
  BY <1>3, <1>5
<1>7. AskFits(a)'
  BY <1>1, <1>3, <1>4, <1>6 DEF AskFits, FromServer
<1>8. QED
  BY <1>1, <1>6, <1>7, AsksKnown, AskStep

LEMMA ExpiredKeeps ==
    ASSUME DeskInv, NEW a \in Asks, ApplyExpired(a)
    PROVE  DeskInv'
<1>1. /\ ask[a].status = "open" /\ ~FromServer(a)
      /\ UNCHANGED <<link, links, replied, queued, applying, notice, tick, daily>>
  BY DEF ApplyExpired
<1>2. replied[a] = <<>> /\ queued[a] = {} /\ a \notin applying /\ ask[a] \in AskRows /\ ask \in [Asks -> AskRows]
  BY <1>1, AsksKnown DEF DeskInv, AskFits
<1>3. CASE \E o \in Options : ask' = [ask EXCEPT ![a].status = "defaulted", ![a].choice = o]
  <2>1. PICK o \in Options : ask' = [ask EXCEPT ![a].status = "defaulted", ![a].choice = o]
    BY <1>3
  <2>2. PICK q \in AskRows :
            /\ q = [ask[a] EXCEPT !.status = "defaulted", !.choice = o]
            /\ q.status = "defaulted" /\ q.choice = o /\ q.kind = ask[a].kind
    <3>1. \A r \in AskRows : LET q == [r EXCEPT !.status = "defaulted", !.choice = o]
                             IN  q \in AskRows /\ q.status = "defaulted" /\ q.choice = o /\ q.kind = r.kind
      BY DEF AskRows, AskStatuses
    <3>2. QED
      BY <3>1, <1>2
  <2>3. ask' = [ask EXCEPT ![a] = q]
    BY <1>2, <2>1, <2>2
  <2>4. ask' \in [Asks -> AskRows] /\ ask'[a] = q /\ \A d \in Asks \ {a} : ask'[d] = ask[d]
    BY <1>2, <2>3
  <2>5. AskFits(a)'
    BY <1>1, <1>2, <2>2, <2>4 DEF AskFits, FromServer
  <2>6. QED
    BY <1>1, <2>4, <2>5, AsksKnown, AskStep
<1>4. CASE ask' = [ask EXCEPT ![a].status = "expired"]
  <2>1. PICK q \in AskRows :
            /\ q = [ask[a] EXCEPT !.status = "expired"]
            /\ q.status = "expired" /\ q.kind = ask[a].kind
    <3>1. \A r \in AskRows : LET q == [r EXCEPT !.status = "expired"]
                             IN  q \in AskRows /\ q.status = "expired" /\ q.kind = r.kind
      BY DEF AskRows, AskStatuses
    <3>2. QED
      BY <3>1, <1>2
  <2>2. ask' = [ask EXCEPT ![a] = q]
    BY <1>2, <1>4, <2>1
  <2>3. ask' \in [Asks -> AskRows] /\ ask'[a] = q /\ \A d \in Asks \ {a} : ask'[d] = ask[d]
    BY <1>2, <2>2
  <2>4. AskFits(a)'
    BY <1>1, <1>2, <2>1, <2>3 DEF AskFits, FromServer
  <2>5. QED
    BY <1>1, <2>3, <2>4, AsksKnown, AskStep
<1>5. QED
  BY <1>3, <1>4 DEF ApplyExpired

\* A connection that comes or goes, with notice or without.
LEMMA ConnectionKeeps ==
    ASSUME DeskInv, AttachConnection \/ DetachConnection \/ DeskCrash
    PROVE  DeskInv'
<1>1. /\ UNCHANGED <<replied, queued, notice, daily>> /\ applying' \subseteq applying
      /\ link' \in 0..MaxLinks /\ links' \in 0..MaxLinks
  BY AsksKnown, DeskAssumption DEF AttachConnection, DetachConnection, DeskCrash
<1>2. tick' \in TickRows
  BY NoticesKnown, TicksKnown DEF AttachConnection, DetachConnection, DeskCrash
<1>3. /\ ask' \in [Asks -> AskRows]
      /\ \A a \in Asks : \/ ask'[a] = ask[a]
                         \/ /\ ask'[a].status = "manual_attention" /\ ask'[a].kind = ask[a].kind
                            /\ ask'[a].link = ask[a].link /\ ask'[a].choice = ask[a].choice
  <2>1. CASE UNCHANGED ask
    BY <2>1, AsksKnown
  <2>2. CASE DetachConnection
    <3>1. \A r \in AskRows : LET q == [r EXCEPT !.status = "manual_attention"]
                             IN  /\ q \in AskRows /\ q.status = "manual_attention"
                                 /\ q.kind = r.kind /\ q.link = r.link /\ q.choice = r.choice
      BY DEF AskRows, AskStatuses
    <3>2. \A a \in Asks : ask[a] \in AskRows
      BY AsksKnown
    <3>3. \A a \in Asks : ask'[a] = ask[a] \/ ask'[a] = [ask[a] EXCEPT !.status = "manual_attention"]
      BY <2>2 DEF DetachConnection
    <3>4. ASSUME NEW a \in Asks
          PROVE  /\ ask'[a] \in AskRows
                 /\ \/ ask'[a] = ask[a]
                    \/ /\ ask'[a].status = "manual_attention" /\ ask'[a].kind = ask[a].kind
                       /\ ask'[a].link = ask[a].link /\ ask'[a].choice = ask[a].choice
      <4>1. CASE ask'[a] = ask[a]
        BY <3>2, <4>1
      <4>2. CASE ask'[a] = [ask[a] EXCEPT !.status = "manual_attention"]
        <5>1. ask[a] \in AskRows
          BY <3>2
        <5>2. QED
          BY <3>1, <4>2, <5>1
      <4>3. QED
        BY <3>3, <4>1, <4>2
    <3>5. ask' \in [Asks -> AskRows]
      BY <2>2, <3>4 DEF DetachConnection
    <3>6. QED
      BY <3>4, <3>5
  <2>3. QED
    BY <2>1, <2>2 DEF AttachConnection, DeskCrash
<1>4. \A a \in Asks : AskFits(a)'
  BY <1>1, <1>3 DEF DeskInv, AskFits, FromServer
<1>5. DeskTypeOK'
  BY <1>1, <1>3, <1>2 DEF DeskInv, DeskTypeOK, AskRows, TickRows, Pairs
<1>6. QED
  BY <1>1, <1>4, <1>5, AsksKnown DEF DeskInv

\* The minute of codex.telegram: what is sent is not what was answered.
LEMMA MinuteKeeps ==
    ASSUME DeskInv,
           \/ PushNewInteractions \/ PushDailySummary \/ Minute
           \/ \E a \in Asks, c \in Chats :
                  PushInteraction(a, c) \/ \E s \in {"completed", "failed", "uncertain"} : SendInteraction(a, c, s)
    PROVE  DeskInv'
<1>1. UNCHANGED <<link, links, ask, replied, queued, applying>>
  BY DEF PushNewInteractions, PushDailySummary, Minute, PushInteraction, SendInteraction
<1>2. notice' \in [Asks -> [Chats -> {"absent", "executing", "completed", "failed", "uncertain"}]]
  <2>1. \A a \in Asks, c \in Chats, s \in {"executing", "completed", "failed", "uncertain"} :
            [notice EXCEPT ![a][c] = s] \in [Asks -> [Chats -> {"absent", "executing", "completed", "failed", "uncertain"}]]
    BY NoticesKnown
  <2>2. \/ UNCHANGED notice
        \/ \E a \in Asks, c \in Chats, s \in {"executing", "completed", "failed", "uncertain"} :
               notice' = [notice EXCEPT ![a][c] = s]
    <3>1. CASE PushNewInteractions \/ PushDailySummary \/ Minute
      BY <3>1 DEF PushNewInteractions, PushDailySummary, Minute
    <3>2. ASSUME NEW a \in Asks, NEW c \in Chats, PushInteraction(a, c)
          PROVE  \E s \in {"executing", "uncertain"} : notice' = [notice EXCEPT ![a][c] = s]
      BY <3>2 DEF PushInteraction
    <3>3. ASSUME NEW a \in Asks, NEW c \in Chats, NEW s \in {"completed", "failed", "uncertain"}, SendInteraction(a, c, s)
          PROVE  notice' = [notice EXCEPT ![a][c] = s]
      BY <3>3 DEF SendInteraction
    <3>4. QED
      BY <3>1, <3>2, <3>3
  <2>3. QED
    <3>1. CASE UNCHANGED notice
      BY <3>1, NoticesKnown
    <3>2. CASE \E a \in Asks, c \in Chats, s \in {"executing", "completed", "failed", "uncertain"} :
                   notice' = [notice EXCEPT ![a][c] = s]
      <4>1. PICK a \in Asks, c \in Chats, s \in {"executing", "completed", "failed", "uncertain"} :
                   notice' = [notice EXCEPT ![a][c] = s]
        BY <3>2
      <4>2. QED
        BY <2>1, <4>1
    <3>3. QED
      BY <2>2, <3>1, <3>2
<1>3. tick' \in TickRows
  <2>1. CASE PushNewInteractions
    <3>1. {p \in Asks \X Chats : ask[p[1]].status = "open" /\ ~Delivered(p[1], p[2])} \in SUBSET Pairs
      BY DEF Pairs
    <3>2. QED
      BY <2>1, <3>1, TicksKnown DEF PushNewInteractions
  <2>2. CASE PushDailySummary \/ Minute
    BY <2>2, NoticesKnown, TicksKnown DEF PushDailySummary, Minute
  <2>3. ASSUME NEW a \in Asks, NEW c \in Chats, PushInteraction(a, c)
        PROVE  tick' \in TickRows
    <3>1. <<a, c>> \in Pairs /\ tick \in TickRows
      BY NoticesKnown DEF Pairs
    <3>2. tick.todo \ {<<a, c>>} \in SUBSET Pairs /\ {<<a, c>>} \in SUBSET Pairs
      BY <3>1, TicksKnown
    <3>3. CASE \E s \in {"executing", "uncertain"} :
                   tick' = [tick EXCEPT !.todo = @ \ {<<a, c>>}, !.failed = @ \/ s = "executing"]
      <4>1. PICK s \in {"executing", "uncertain"} :
                   tick' = [tick EXCEPT !.todo = @ \ {<<a, c>>}, !.failed = @ \/ s = "executing"]
        BY <3>3
      <4>2. (tick.failed \/ s = "executing") \in BOOLEAN
        BY Zenon
      <4>3. QED
        BY <3>1, <3>2, <4>1, <4>2, TicksKnown, Zenon
    <3>4. CASE tick' = [tick EXCEPT !.todo = @ \ {<<a, c>>}, !.flying = {<<a, c>>}]
      BY <3>1, <3>2, <3>4, TicksKnown
    <3>5. QED
      BY <2>3, <3>3, <3>4 DEF PushInteraction
  <2>4. ASSUME NEW a \in Asks, NEW c \in Chats, NEW s \in {"completed", "failed", "uncertain"}, SendInteraction(a, c, s)
        PROVE  tick' \in TickRows
    <3>1. (tick.failed \/ s = "failed") \in BOOLEAN
      BY Zenon
    <3>2. tick' = [tick EXCEPT !.flying = {}, !.failed = @ \/ s = "failed"]
      BY <2>4 DEF SendInteraction
    <3>3. QED
      BY <3>1, <3>2, NoticesKnown, TicksKnown, Zenon
  <2>5. QED
    BY <2>1, <2>2, <2>3, <2>4
<1>4. daily' \in [minute: {"before", "08:30", "after"}, sent: SUBSET Chats]
  BY NoticesKnown DEF PushNewInteractions, PushDailySummary, Minute, PushInteraction, SendInteraction
<1>5. QED
  BY <1>1, <1>2, <1>3, <1>4 DEF DeskInv, DeskTypeOK, AskFits, FromServer, TickRows, Pairs

LEMMA DeskInvInductive ==
    ASSUME DeskInv, [DeskNext]_deskVars
    PROVE  DeskInv'
<1>1. CASE UNCHANGED deskVars
  BY <1>1 DEF deskVars, DeskInv, DeskTypeOK, AskFits, FromServer
<1>2. ASSUME NEW a \in Asks, NEW o \in Options, AnswerOnWeb(a, o) \/ HandleCallback(a, o)
      PROVE  DeskInv'
  BY <1>2, ServerAnswerKeeps, LocalAnswerKeeps DEF AnswerOnWeb, HandleCallback
<1>3. QED
  BY <1>1, <1>2, CreateKeeps, PauseEndsKeeps, ExpiredKeeps, DefaultedKeeps, ConnectionKeeps, MinuteKeeps DEF DeskNext

LEMMA DeskInvHolds == DeskSpec => []DeskInv
  BY DeskInvInit, DeskInvInductive, PTL DEF DeskSpec

LEMMA DeskInvEnough == DeskInv => DeskTypeOK /\ AnsweredOnce
<1> SUFFICES ASSUME DeskInv
             PROVE  DeskTypeOK /\ AnsweredOnce
  OBVIOUS
<1>1. \A a \in Asks : AskFits(a)
  BY DEF DeskInv
<1>2. AnsweredOnce
  BY <1>1 DEF AnsweredOnce, AskFits
<1>3. QED
  BY <1>2 DEF DeskInv

\* The questions, the chats they were told to and what they wait for keep their types.
THEOREM DeskTypeCorrect == DeskSpec => []DeskTypeOK
<1>1. DeskInv => DeskTypeOK
  BY DeskInvEnough
<1>2. QED
  BY <1>1, DeskInvHolds, PTL

\* A question is answered with one answer, however many chats it was sent to and
\* whatever the sweep of a minute crosses; only the default of a suggestion is
\* applied again.
THEOREM QuestionsAnsweredOnce == DeskSpec => []AnsweredOnce
<1>1. DeskInv => AnsweredOnce
  BY DeskInvEnough
<1>2. QED
  BY <1>1, DeskInvHolds, PTL

-----------------------------------------------------------------------------
(****************************************************************************)
(* DIGESTS. Why a day's window yields one message: the day belongs to one   *)
(* run, one session sends that run, and while it does no day of the run has *)
(* its message yet; a run that may have arrived is never sent again.        *)
(****************************************************************************)

Deliveries == [status: {"absent", "executing", "completed", "failed", "uncertain"}, digest: Digests]

SessionTypes == [sending: BOOLEAN, sub: Subscriptions, run: Runs \cup {NoRun}, day: Days]

\* A day that has its message belongs to a run that may have arrived.
PostedFits(s) ==
    \A d \in Days :
        posted[s][d] = 1 => /\ window[s][d] \in Runs
                            /\ delivery[s][window[s][d]].status \in {"executing", "completed", "uncertain"}

\* The run of a session owns its day, and none of its days has a message.
SendingFits(c) ==
    session[c].sending =>
        /\ session[c].run \in Runs
        /\ delivery[session[c].sub][session[c].run].status = "executing"
        /\ window[session[c].sub][session[c].day] = session[c].run
        /\ \A d \in Days : window[session[c].sub][d] = session[c].run => posted[session[c].sub][d] = 0

OneSends ==
    \A c, e \in Sessions :
        /\ session[c].sending /\ session[e].sending
        /\ session[c].sub = session[e].sub /\ session[c].run = session[e].run
        => c = e

DigestInv ==
    /\ DigestTypeOK
    /\ posted \in [Subscriptions -> [Days -> {0, 1}]]
    /\ \A s \in Subscriptions : PostedFits(s)
    /\ \A c \in Sessions : SendingFits(c)
    /\ OneSends

\* What the step lemmas know of the state.
LEMMA DigestKnown ==
    ASSUME DigestInv
    PROVE  /\ window \in [Subscriptions -> [Days -> Runs \cup {NoRun}]]
           /\ delivery \in [Subscriptions -> [Runs -> Deliveries]]
           /\ session \in [Sessions -> SessionTypes]
           /\ posted \in [Subscriptions -> [Days -> {0, 1}]]
           /\ today \in Days
  BY DEF DigestInv, DigestTypeOK, Deliveries, SessionTypes

LEMMA NoSessionTyped == NoSession \in SessionTypes /\ ~NoSession.sending
  BY DigestAssumption DEF NoSession, SessionTypes

LEMMA DigestInvInit == DigestInit => DigestInv
<1> SUFFICES ASSUME DigestInit
             PROVE  DigestInv
  OBVIOUS
<1>1. NoDelivery \in Deliveries /\ NoLast \in [run: Runs \cup {NoRun}, status: {"never", "delivered", "failed", "uncertain"}]
  BY DigestAssumption DEF NoDelivery, Deliveries, NoLast
<1>2. DigestTypeOK
  BY <1>1, NoSessionTyped, DigestAssumption DEF DigestInit, DigestTypeOK, Deliveries, SessionTypes
<1>3. /\ posted \in [Subscriptions -> [Days -> {0, 1}]]
      /\ \A s \in Subscriptions, d \in Days : posted[s][d] = 0
      /\ \A c \in Sessions : ~session[c].sending
  BY NoSessionTyped DEF DigestInit
<1>4. QED
  BY <1>2, <1>3 DEF DigestInv, PostedFits, SendingFits, OneSends

\* The record on show keeps its type.
LEMMA RecordTyped ==
    ASSUME DigestInv, NEW s \in Subscriptions, NEW r \in Runs,
           NEW status \in {"delivered", "failed", "uncertain"}, RecordOutcome(s, r, status)
    PROVE  last' \in [Subscriptions -> [run: Runs \cup {NoRun}, status: {"never", "delivered", "failed", "uncertain"}]]
<1>1. last \in [Subscriptions -> [run: Runs \cup {NoRun}, status: {"never", "delivered", "failed", "uncertain"}]]
  BY DEF DigestInv, DigestTypeOK
<1>2. [run |-> r, status |-> status] \in [run: Runs \cup {NoRun}, status: {"never", "delivered", "failed", "uncertain"}]
  OBVIOUS
<1>3. QED
  BY <1>1, <1>2 DEF RecordOutcome

\* What is set in the journal row of one run.
LEMMA StatusSet ==
    ASSUME DigestInv, NEW s \in Subscriptions, NEW r \in Runs, NEW status \in {"completed", "failed", "uncertain"},
           delivery' = [delivery EXCEPT ![s][r].status = status]
    PROVE  /\ delivery' \in [Subscriptions -> [Runs -> Deliveries]]
           /\ delivery'[s][r].status = status
           /\ \A t \in Subscriptions, q \in Runs : ~(t = s /\ q = r) => delivery'[t][q] = delivery[t][q]
<1>1. \A p \in Deliveries : /\ [p EXCEPT !.status = status] \in Deliveries
                            /\ [p EXCEPT !.status = status].status = status
  BY DEF Deliveries
<1>2. delivery[s][r] \in Deliveries
  BY DigestKnown
<1>3. PICK rec \in Deliveries : rec = [delivery[s][r] EXCEPT !.status = status] /\ rec.status = status
  BY <1>1, <1>2
<1>4. delivery' = [delivery EXCEPT ![s] = [delivery[s] EXCEPT ![r] = rec]]
  BY <1>3
<1>5. QED
  BY <1>3, <1>4, DigestKnown

LEMMA SubscriptionKeeps ==
    ASSUME DigestInv, NEW s \in Subscriptions, CreateSubscription(s) \/ RevokeSubscription(s)
    PROVE  DigestInv'
<1>1. /\ subscription' \in [Subscriptions -> {"none", "active", "revoked"}]
      /\ UNCHANGED <<window, delivery, session, last, posted, today>>
  BY DEF CreateSubscription, RevokeSubscription, DigestInv, DigestTypeOK
<1>2. QED
  BY <1>1 DEF DigestInv, DigestTypeOK, PostedFits, SendingFits, OneSends

LEMMA PublishKeeps ==
    ASSUME DigestInv, NEW c \in Sessions, NEW s \in Subscriptions, NEW r \in Runs, NEW d \in Digests,
           PublishDigest(c, s, r, d)
    PROVE  DigestInv'
<1> DEFINE begun == [sending |-> TRUE, sub |-> s, run |-> r, day |-> today]
<1>1. /\ ~session[c].sending /\ window[s][today] \in {NoRun, r}
      /\ delivery[s][r].status \in {"absent", "failed"}
      /\ UNCHANGED <<subscription, last, posted, today>>
  BY DEF PublishDigest, Available
<1>2. begun \in SessionTypes /\ [status |-> "executing", digest |-> d] \in Deliveries
  BY DigestKnown DEF SessionTypes, Deliveries
<1>3. /\ delivery' \in [Subscriptions -> [Runs -> Deliveries]]
      /\ delivery'[s][r].status = "executing"
      /\ \A t \in Subscriptions, q \in Runs : ~(t = s /\ q = r) => delivery'[t][q] = delivery[t][q]
  BY <1>2, DigestKnown DEF PublishDigest
<1>4. /\ window' \in [Subscriptions -> [Days -> Runs \cup {NoRun}]]
      /\ window'[s][today] = r
      /\ \A t \in Subscriptions, e \in Days : ~(t = s /\ e = today) => window'[t][e] = window[t][e]
  BY DigestKnown DEF PublishDigest
<1>5. /\ session' \in [Sessions -> SessionTypes] /\ session'[c] = begun
      /\ \A e \in Sessions \ {c} : session'[e] = session[e]
  BY <1>2, DigestKnown DEF PublishDigest
<1>6. \A e \in Days : window[s][e] = r => posted[s][e] = 0
  BY <1>1, DigestKnown DEF DigestInv, PostedFits
<1>7. posted[s][today] = 0
  BY <1>1, <1>6, DigestKnown, DigestAssumption DEF DigestInv, PostedFits
<1>8. \A e \in Sessions : session[e].sending => ~(session[e].sub = s /\ session[e].run = r)
  BY <1>1 DEF DigestInv, SendingFits
<1>9. DigestTypeOK'
  BY <1>1, <1>3, <1>4, <1>5 DEF DigestInv, DigestTypeOK, Deliveries, SessionTypes
<1>10. ASSUME NEW t \in Subscriptions, NEW e \in Days, posted[t][e] = 1
       PROVE  /\ window'[t][e] \in Runs
              /\ delivery'[t][window'[t][e]].status \in {"executing", "completed", "uncertain"}
  <2>1. ~(t = s /\ e = today)
    BY <1>7, <1>10
  <2>2. window'[t][e] = window[t][e] /\ window[t][e] \in Runs
    BY <1>4, <1>10, <2>1 DEF DigestInv, PostedFits
  <2>3. QED
    BY <1>3, <1>10, <2>2 DEF DigestInv, PostedFits
<1>11. SendingFits(c)'
  <2>1. \A e \in Days : window'[s][e] = r => posted[s][e] = 0
    BY <1>4, <1>6, <1>7
  <2>2. session'[c].sub = s /\ session'[c].run = r /\ session'[c].day = today
    BY <1>5
  <2>3. QED
    BY <1>1, <1>3, <1>4, <2>1, <2>2 DEF SendingFits
<1>12. ASSUME NEW e \in Sessions \ {c}
       PROVE  SendingFits(e)'
  <2>1. SUFFICES ASSUME session[e].sending
                 PROVE  SendingFits(e)'
    BY <1>5 DEF SendingFits
  <2>2. session[e].sub \in Subscriptions /\ session[e].run \in Runs /\ session[e].day \in Days
    BY <2>1, DigestKnown DEF DigestInv, SendingFits, SessionTypes
  <2>3. ~(session[e].sub = s /\ session[e].day = today)
    BY <1>1, <1>8, <2>1, <2>2, DigestAssumption DEF DigestInv, SendingFits
  <2>4. delivery'[session[e].sub][session[e].run].status = "executing"
    BY <1>3, <1>8, <2>1, <2>2 DEF DigestInv, SendingFits
  <2>5. window'[session[e].sub][session[e].day] = session[e].run
    BY <1>4, <2>1, <2>2, <2>3 DEF DigestInv, SendingFits
  <2>6. \A x \in Days : window'[session[e].sub][x] = session[e].run => posted[session[e].sub][x] = 0
    BY <1>4, <1>8, <2>1, <2>2 DEF DigestInv, SendingFits
  <2>7. QED
    BY <1>1, <1>5, <2>1, <2>2, <2>4, <2>5, <2>6 DEF SendingFits
<1>13. OneSends'
  BY <1>5, <1>8 DEF DigestInv, OneSends
<1>14. \A t \in Subscriptions : PostedFits(t)'
  BY <1>1, <1>10 DEF PostedFits
<1>15. QED
  BY <1>1, <1>9, <1>11, <1>12, <1>13, <1>14 DEF DigestInv

LEMMA OrphanedKeeps ==
    ASSUME DigestInv, NEW s \in Subscriptions, NEW r \in Runs, PublishOrphaned(s, r)
    PROVE  DigestInv'
<1>1. /\ \A c \in Sessions : ~(session[c].sending /\ session[c].sub = s /\ session[c].run = r)
      /\ RecordOutcome(s, r, "uncertain")
      /\ UNCHANGED <<subscription, window, session, posted, today>>
  BY DEF PublishOrphaned, Orphaned
<1>2. /\ delivery' \in [Subscriptions -> [Runs -> Deliveries]]
      /\ delivery'[s][r].status = "uncertain"
      /\ \A t \in Subscriptions, q \in Runs : ~(t = s /\ q = r) => delivery'[t][q] = delivery[t][q]
  <2>1. \A p \in Deliveries : /\ [p EXCEPT !.status = "uncertain"] \in Deliveries
                              /\ [p EXCEPT !.status = "uncertain"].status = "uncertain"
    BY DEF Deliveries
  <2>2. delivery[s][r] \in Deliveries
    BY DigestKnown
  <2>3. PICK rec \in Deliveries : rec = [delivery[s][r] EXCEPT !.status = "uncertain"] /\ rec.status = "uncertain"
    BY <2>1, <2>2
  <2>4. delivery' = [delivery EXCEPT ![s] = [delivery[s] EXCEPT ![r] = rec]]
    BY <2>3 DEF PublishOrphaned
  <2>5. QED
    BY <2>3, <2>4, DigestKnown
<1>3. DigestTypeOK'
  BY <1>1, <1>2, RecordTyped DEF DigestInv, DigestTypeOK, Deliveries
<1>4. \A t \in Subscriptions : PostedFits(t)'
  BY <1>1, <1>2 DEF DigestInv, PostedFits
<1>5. \A c \in Sessions : SendingFits(c)'
  BY <1>1, <1>2, DigestKnown DEF DigestInv, SendingFits, SessionTypes
<1>6. QED
  BY <1>1, <1>3, <1>4, <1>5 DEF DigestInv, OneSends

LEMMA ReplayedKeeps ==
    ASSUME DigestInv, NEW s \in Subscriptions, NEW r \in Runs, PublishReplayed(s, r)
    PROVE  DigestInv'
<1>1. PICK status \in {"delivered", "uncertain"} : RecordOutcome(s, r, status)
  BY DEF PublishReplayed
<1>2. UNCHANGED <<subscription, window, delivery, session, posted, today>>
  BY DEF PublishReplayed
<1>3. DigestTypeOK'
  BY <1>1, <1>2, RecordTyped DEF DigestInv, DigestTypeOK
<1>4. QED
  BY <1>2, <1>3 DEF DigestInv, PostedFits, SendingFits, OneSends

\* A message more for the day of a session that sends.
LEMMA PostAdds ==
    ASSUME DigestInv, NEW c \in Sessions, session[c].sending, PostDigest(c)
    PROVE  LET s == session[c].sub
               d == session[c].day
           IN  /\ posted' \in [Subscriptions -> [Days -> {0, 1}]]
               /\ \A t \in Subscriptions, e \in Days : ~(t = s /\ e = d) => posted'[t][e] = posted[t][e]
<1>1. session[c].sub \in Subscriptions /\ session[c].day \in Days
  BY DigestKnown DEF SessionTypes
<1>2. posted[session[c].sub][session[c].day] = 0
  BY <1>1 DEF DigestInv, SendingFits
<1>3. QED
  BY <1>1, <1>2, DigestKnown DEF PostDigest

LEMMA SendEndsKeeps ==
    ASSUME DigestInv, NEW c \in Sessions, NEW status \in {"completed", "failed", "uncertain"}, SendEnds(c, status)
    PROVE  DigestInv'
<1> DEFINE s == session[c].sub
           r == session[c].run
<1>1. /\ session[c].sending /\ UNCHANGED <<subscription, window, today>>
      /\ PostDigest(c) \/ UNCHANGED posted
      /\ status = "failed" => UNCHANGED posted
  BY DEF SendEnds
<1>2. /\ s \in Subscriptions /\ r \in Runs /\ session[c].day \in Days
      /\ window[s][session[c].day] = r
      /\ delivery[s][r].status = "executing"
      /\ \A d \in Days : window[s][d] = r => posted[s][d] = 0
  BY <1>1, DigestKnown DEF DigestInv, SendingFits, SessionTypes
<1>3. /\ delivery' \in [Subscriptions -> [Runs -> Deliveries]]
      /\ delivery'[s][r].status = status
      /\ \A t \in Subscriptions, q \in Runs : ~(t = s /\ q = r) => delivery'[t][q] = delivery[t][q]
  BY <1>2, StatusSet DEF SendEnds
<1>4. /\ posted' \in [Subscriptions -> [Days -> {0, 1}]]
      /\ \A t \in Subscriptions, e \in Days : ~(t = s /\ e = session[c].day) => posted'[t][e] = posted[t][e]
  BY <1>1, PostAdds, DigestKnown
<1>5. /\ session' \in [Sessions -> SessionTypes] /\ ~session'[c].sending
      /\ \A e \in Sessions \ {c} : session'[e] = session[e]
  BY NoSessionTyped, DigestKnown DEF SendEnds
<1>6. last' \in [Subscriptions -> [run: Runs \cup {NoRun}, status: {"never", "delivered", "failed", "uncertain"}]]
  <2>1. CASE UNCHANGED last
    BY <2>1 DEF DigestInv, DigestTypeOK
  <2>2. CASE RecordOutcome(s, r, IF status = "completed" THEN "delivered" ELSE status)
    <3>1. (IF status = "completed" THEN "delivered" ELSE status) \in {"delivered", "failed", "uncertain"}
      OBVIOUS
    <3>2. QED
      BY <1>2, <2>2, <3>1, RecordTyped
  <2>3. QED
    BY <2>1, <2>2 DEF SendEnds
<1>7. DigestTypeOK'
  BY <1>1, <1>3, <1>5, <1>6 DEF DigestInv, DigestTypeOK, Deliveries, SessionTypes
<1>8. ASSUME NEW t \in Subscriptions, NEW d \in Days, posted'[t][d] = 1
      PROVE  /\ window[t][d] \in Runs
             /\ delivery'[t][window[t][d]].status \in {"executing", "completed", "uncertain"}
  <2>1. CASE t = s /\ d = session[c].day
    <3>1. status # "failed"
      BY <1>1, <1>2, <1>8, <2>1
    <3>2. QED
      BY <1>2, <1>3, <2>1, <3>1
  <2>2. CASE ~(t = s /\ d = session[c].day)
    <3>1. posted[t][d] = 1 /\ window[t][d] \in Runs
      BY <1>4, <1>8, <2>2 DEF DigestInv, PostedFits
    <3>2. ~(t = s /\ window[t][d] = r)
      BY <1>2, <3>1
    <3>3. QED
      BY <1>3, <3>1, <3>2 DEF DigestInv, PostedFits
  <2>3. QED
    BY <2>1, <2>2
<1>9. \A t \in Subscriptions : PostedFits(t)'
  BY <1>1, <1>8 DEF PostedFits
<1>10. ASSUME NEW e \in Sessions
       PROVE  SendingFits(e)'
  <2>1. SUFFICES ASSUME session'[e].sending
                 PROVE  SendingFits(e)'
    BY DEF SendingFits
  <2>2. e # c /\ session'[e] = session[e] /\ session[e].sending
    BY <1>5, <2>1
  <2>3. session[e].sub \in Subscriptions /\ session[e].run \in Runs /\ session[e].day \in Days
    BY <2>2, DigestKnown DEF DigestInv, SendingFits, SessionTypes
  <2>4. ~(session[e].sub = s /\ session[e].run = r)
    BY <1>1, <2>2 DEF DigestInv, OneSends
  <2>5. delivery'[session[e].sub][session[e].run].status = "executing"
    BY <1>3, <2>2, <2>3, <2>4 DEF DigestInv, SendingFits
  <2>6. \A d \in Days : window[session[e].sub][d] = session[e].run => posted'[session[e].sub][d] = 0
    BY <1>2, <1>4, <2>2, <2>3, <2>4 DEF DigestInv, SendingFits
  <2>7. QED
    BY <1>1, <2>2, <2>3, <2>5, <2>6 DEF DigestInv, SendingFits
<1>11. OneSends'
  BY <1>5 DEF DigestInv, OneSends
<1>12. QED
  BY <1>4, <1>7, <1>9, <1>10, <1>11 DEF DigestInv

LEMMA DigestStopKeeps ==
    ASSUME DigestInv, DigestStop
    PROVE  DigestInv'
<1>1. UNCHANGED <<subscription, window, delivery, last, today>>
  BY DEF DigestStop
<1>2. session' \in [Sessions -> SessionTypes] /\ \A c \in Sessions : ~session'[c].sending
  BY NoSessionTyped DEF DigestStop
<1>3. posted' \in [Subscriptions -> [Days -> {0, 1}]] /\ \A s \in Subscriptions : PostedFits(s)'
  <2>1. CASE UNCHANGED posted
    BY <1>1, <2>1 DEF DigestInv, PostedFits
  <2>2. ASSUME NEW c \in Sessions, session[c].sending, PostDigest(c)
        PROVE  posted' \in [Subscriptions -> [Days -> {0, 1}]] /\ \A s \in Subscriptions : PostedFits(s)'
    <3>1. /\ session[c].sub \in Subscriptions /\ session[c].day \in Days /\ session[c].run \in Runs
          /\ window[session[c].sub][session[c].day] = session[c].run
          /\ delivery[session[c].sub][session[c].run].status = "executing"
      BY <2>2, DigestKnown DEF DigestInv, SendingFits, SessionTypes
    <3>2. QED
      BY <1>1, <2>2, <3>1, PostAdds DEF DigestInv, PostedFits
  <2>3. QED
    BY <2>1, <2>2 DEF DigestStop
<1>4. DigestTypeOK'
  BY <1>1, <1>2 DEF DigestInv, DigestTypeOK, SessionTypes
<1>5. QED
  BY <1>2, <1>3, <1>4 DEF DigestInv, SendingFits, OneSends

LEMMA DigestInvInductive ==
    ASSUME DigestInv, [DigestNext]_digestVars
    PROVE  DigestInv'
<1>1. CASE Midnight
  <2>1. today' \in Days /\ UNCHANGED <<subscription, window, delivery, session, last, posted>>
    BY <1>1 DEF Midnight
  <2>2. QED
    BY <2>1 DEF DigestInv, DigestTypeOK, PostedFits, SendingFits, OneSends
<1>2. CASE UNCHANGED digestVars
  BY <1>2 DEF digestVars, DigestInv, DigestTypeOK, PostedFits, SendingFits, OneSends
<1>3. QED
  BY <1>1, <1>2, SubscriptionKeeps, PublishKeeps, OrphanedKeeps, ReplayedKeeps, SendEndsKeeps, DigestStopKeeps
  DEF DigestNext

LEMMA DigestInvHolds == DigestSpec => []DigestInv
  BY DigestInvInit, DigestInvInductive, PTL DEF DigestSpec

LEMMA DigestInvEnough == DigestInv => DigestTypeOK /\ OneDigestPerDay
  BY DEF DigestInv, OneDigestPerDay

\* The subscriptions, their windows and deliveries keep their types.
THEOREM DigestTypeCorrect == DigestSpec => []DigestTypeOK
<1>1. DigestInv => DigestTypeOK
  BY DigestInvEnough
<1>2. QED
  BY <1>1, DigestInvHolds, PTL

\* A session shows a digest of a day at most once, wherever the process stops
\* between the delivery and its record.
THEOREM DigestsOnceADay == DigestSpec => []OneDigestPerDay
<1>1. DigestInv => OneDigestPerDay
  BY DigestInvEnough
<1>2. QED
  BY <1>1, DigestInvHolds, PTL

-----------------------------------------------------------------------------
(****************************************************************************)
(* SERVER LINK. Why no message is lost or overtaken: what the client was    *)
(* given and what the wire still holds are together what the server said,   *)
(* until the socket is closed. Why an ask waits on the link only: a         *)
(* connection is put in use when there is none, and takes its asks with it. *)
(****************************************************************************)

Frames ==
    {Text("all", m) : m \in ServerMessages}
        \cup {Text("head", m) : m \in ServerMessages}
        \cup {Text("tail", m) : m \in ServerMessages}
        \cup {Control("ping"), Control("close"), Control("garbage")}

\* A frame that completes a message.
Completes(f) == f.op = "text" /\ f.part # "head"

\* What was heard is the beginning of what was said.
InOrder(h, s) ==
    /\ Len(h) <= Len(s)
    /\ \A k \in 1..Len(h) : h[k] = s[k]

\* n[i] is how much will have been heard when the i-th frame is read.
Hears(n, w, h, s) ==
    /\ n[0] = Len(h) /\ n[Len(w)] = Len(s)
    /\ \A i \in 1..Len(w) :
           IF Completes(w[i]) THEN n[i] = n[i - 1] + 1 /\ w[i].msg = s[n[i]] ELSE n[i] = n[i - 1]

OnTheWire(w, h, s) ==
    /\ InOrder(h, s)
    /\ \E n \in [0..Len(w) -> 0..Len(s)] : Hears(n, w, h, s)

LEMMA FramesKnown ==
    /\ \A f \in Frames : Completes(f) => f.msg \in ServerMessages
    /\ \A m \in ServerMessages, part \in {"all", "tail"} :
          Text(part, m) \in Frames /\ Completes(Text(part, m)) /\ Text(part, m).msg = m
    /\ \A m \in ServerMessages : Text("head", m) \in Frames /\ ~Completes(Text("head", m))
    /\ \A op \in {"ping", "close", "garbage"} : Control(op) \in Frames /\ ~Completes(Control(op))
<1>1. /\ \A m, part : Text(part, m).op = "text" /\ Text(part, m).part = part /\ Text(part, m).msg = m
      /\ \A op : Control(op).op = op
  BY DEF Text, Control
<1>2. \A part \in {"all", "head", "tail"}, m \in ServerMessages : Text(part, m) \in Frames
  BY DEF Frames
<1>3. \A op \in {"ping", "close", "garbage"} : Control(op) \in Frames
  BY DEF Frames
<1>4. \A f \in Frames : \/ \E m \in ServerMessages : f = Text("all", m)
                        \/ \E m \in ServerMessages : f = Text("head", m)
                        \/ \E m \in ServerMessages : f = Text("tail", m)
                        \/ f = Control("ping") \/ f = Control("close") \/ f = Control("garbage")
  BY DEF Frames
<1>5. \A f \in Frames : Completes(f) => f.msg \in ServerMessages
  BY <1>1, <1>4 DEF Completes
<1>6. QED
  BY <1>1, <1>2, <1>3, <1>5 DEF Completes

LEMMA NothingOnTheWire == OnTheWire(<<>>, <<>>, <<>>)
<1> DEFINE n == [i \in 0..0 |-> 0]
<1>1. Len(<<>>) = 0
  OBVIOUS
<1>2. n \in [0..Len(<<>>) -> 0..Len(<<>>)] /\ n[0] = 0
  BY <1>1
<1>3. Hears(n, <<>>, <<>>, <<>>)
  BY <1>1, <1>2 DEF Hears
<1>4. QED
  BY <1>1, <1>2, <1>3 DEF OnTheWire, InOrder

LEMMA WireTail ==
    ASSUME NEW w \in Seq(Frames), w # <<>>
    PROVE  /\ Head(w) \in Frames /\ Head(w) = w[1] /\ Len(w) \in Nat \ {0}
           /\ Tail(w) \in Seq(Frames) /\ Len(Tail(w)) = Len(w) - 1
           /\ \A i \in 1..(Len(w) - 1) : Tail(w)[i] = w[i + 1]
<1>1. Len(w) \in Nat /\ Len(w) # 0
  BY EmptySeq
<1>2. QED
  BY <1>1, HeadTailProperties

\* A frame that completes nothing is read, or one that does.
LEMMA WireRead ==
    ASSUME NEW w \in Seq(Frames), w # <<>>, NEW h \in Seq(ServerMessages), NEW s \in Seq(ServerMessages),
           OnTheWire(w, h, s)
    PROVE  /\ ~Completes(Head(w)) => OnTheWire(Tail(w), h, s)
           /\ Completes(Head(w)) => OnTheWire(Tail(w), Append(h, Head(w).msg), s)
<1>1. PICK n \in [0..Len(w) -> 0..Len(s)] : Hears(n, w, h, s)
  BY DEF OnTheWire
<1> DEFINE m == [i \in 0..Len(Tail(w)) |-> n[i + 1]]
<1>2. /\ Len(w) \in Nat \ {0} /\ Len(Tail(w)) = Len(w) - 1 /\ Head(w) = w[1] /\ Len(h) \in Nat /\ Len(s) \in Nat
      /\ \A i \in 1..(Len(w) - 1) : Tail(w)[i] = w[i + 1]
  BY WireTail
<1>3. /\ m \in [0..Len(Tail(w)) -> 0..Len(s)]
      /\ m[0] = n[1] /\ m[Len(Tail(w))] = Len(s)
      /\ \A i \in 1..Len(Tail(w)) : m[i] = n[i + 1] /\ m[i - 1] = n[i]
  BY <1>1, <1>2 DEF Hears
<1>4. \A i \in 1..Len(Tail(w)) :
          IF Completes(Tail(w)[i]) THEN m[i] = m[i - 1] + 1 /\ Tail(w)[i].msg = s[m[i]] ELSE m[i] = m[i - 1]
  <2> SUFFICES ASSUME NEW i \in 1..Len(Tail(w))
               PROVE  IF Completes(Tail(w)[i]) THEN m[i] = m[i - 1] + 1 /\ Tail(w)[i].msg = s[m[i]] ELSE m[i] = m[i - 1]
    OBVIOUS
  <2>1. i + 1 \in 1..Len(w) /\ (i + 1) - 1 = i /\ Tail(w)[i] = w[i + 1]
    BY <1>2
  <2>2. IF Completes(w[i + 1]) THEN n[i + 1] = n[i] + 1 /\ w[i + 1].msg = s[n[i + 1]] ELSE n[i + 1] = n[i]
    BY <1>1, <2>1 DEF Hears
  <2>3. QED
    BY <1>3, <2>1, <2>2
<1>5. 1 \in 1..Len(w) /\ n[0] = Len(h) /\ n[1] \in 0..Len(s)
  BY <1>1, <1>2 DEF Hears
<1>6. IF Completes(w[1]) THEN n[1] = n[0] + 1 /\ w[1].msg = s[n[1]] ELSE n[1] = n[0]
  <2>1. 1 - 1 = 0
    OBVIOUS
  <2>2. QED
    BY <1>1, <1>5, <2>1 DEF Hears
<1> HIDE DEF m
<1>7. CASE ~Completes(Head(w))
  <2>1. m[0] = Len(h)
    BY <1>2, <1>3, <1>5, <1>6, <1>7
  <2>2. Hears(m, Tail(w), h, s)
    BY <1>3, <1>4, <2>1 DEF Hears
  <2>3. QED
    BY <1>3, <1>7, <2>2 DEF OnTheWire
<1>8. CASE Completes(Head(w))
  <2> DEFINE g == Append(h, Head(w).msg)
  <2>1. Head(w).msg \in ServerMessages
    BY <1>8, FramesKnown, WireTail
  <2>2. Len(g) = Len(h) + 1 /\ g[Len(h) + 1] = Head(w).msg /\ \A k \in 1..Len(h) : g[k] = h[k]
    BY <2>1, AppendProperties
  <2>3. n[1] = Len(h) + 1 /\ Head(w).msg = s[Len(h) + 1]
    BY <1>2, <1>5, <1>6, <1>8
  <2> HIDE DEF g
  <2>4. InOrder(g, s)
    BY <1>2, <1>5, <2>2, <2>3 DEF OnTheWire, InOrder
  <2>5. Hears(m, Tail(w), g, s)
    BY <1>3, <1>4, <2>2, <2>3 DEF Hears
  <2>6. OnTheWire(Tail(w), g, s)
    BY <1>3, <2>4, <2>5 DEF OnTheWire
  <2>7. QED
    BY <1>8, <2>6 DEF g
<1>9. QED
  BY <1>7, <1>8

\* A frame is sent that completes nothing.
LEMMA WireControl ==
    ASSUME NEW w \in Seq(Frames), NEW h \in Seq(ServerMessages), NEW s \in Seq(ServerMessages),
           OnTheWire(w, h, s), NEW f \in Frames, ~Completes(f)
    PROVE  Append(w, f) \in Seq(Frames) /\ OnTheWire(Append(w, f), h, s)
<1>1. PICK n \in [0..Len(w) -> 0..Len(s)] : Hears(n, w, h, s)
  BY DEF OnTheWire
<1> DEFINE x == Append(w, f)
           m == [i \in 0..Len(x) |-> IF i = Len(x) THEN Len(s) ELSE n[i]]
<1>2. /\ x \in Seq(Frames) /\ Len(x) = Len(w) + 1 /\ Len(w) \in Nat /\ Len(s) \in Nat
      /\ x[Len(w) + 1] = f /\ \A i \in 1..Len(w) : x[i] = w[i]
  BY AppendProperties
<1> HIDE DEF x
<1>3. /\ m \in [0..Len(x) -> 0..Len(s)] /\ m[Len(x)] = Len(s)
      /\ \A i \in 0..Len(w) : m[i] = n[i]
  BY <1>1, <1>2
<1> HIDE DEF m
<1>4. /\ n[0] = Len(h) /\ n[Len(w)] = Len(s)
      /\ \A i \in 1..Len(w) :
             IF Completes(w[i]) THEN n[i] = n[i - 1] + 1 /\ w[i].msg = s[n[i]] ELSE n[i] = n[i - 1]
  BY <1>1 DEF Hears
<1>5. ASSUME NEW i \in 1..Len(x)
      PROVE  IF Completes(x[i]) THEN m[i] = m[i - 1] + 1 /\ x[i].msg = s[m[i]] ELSE m[i] = m[i - 1]
  <2>1. CASE i = Len(w) + 1
    BY <1>2, <1>3, <1>4, <2>1
  <2>2. CASE i # Len(w) + 1
    <3>1. i \in 1..Len(w) /\ i - 1 \in 0..Len(w) /\ i \in 0..Len(w)
      BY <1>2, <2>2
    <3>2. m[i] = n[i] /\ m[i - 1] = n[i - 1] /\ x[i] = w[i]
      BY <1>2, <1>3, <3>1
    <3>3. QED
      BY <1>4, <3>1, <3>2
  <2>3. QED
    BY <2>1, <2>2
<1>6. m[0] = Len(h)
  BY <1>2, <1>3, <1>4
<1>7. Hears(m, x, h, s)
  BY <1>3, <1>5, <1>6 DEF Hears
<1>8. OnTheWire(x, h, s)
  BY <1>3, <1>7 DEF OnTheWire
<1>9. QED
  BY <1>2, <1>8 DEF x

\* A frame is sent that completes a message.
LEMMA WireSay ==
    ASSUME NEW w \in Seq(Frames), NEW h \in Seq(ServerMessages), NEW s \in Seq(ServerMessages),
           OnTheWire(w, h, s), NEW f \in Frames, Completes(f)
    PROVE  Append(w, f) \in Seq(Frames) /\ OnTheWire(Append(w, f), h, Append(s, f.msg))
<1>1. PICK n \in [0..Len(w) -> 0..Len(s)] : Hears(n, w, h, s)
  BY DEF OnTheWire
<1> DEFINE x == Append(w, f)
           t == Append(s, f.msg)
           m == [i \in 0..Len(x) |-> IF i = Len(x) THEN Len(t) ELSE n[i]]
<1>2. /\ x \in Seq(Frames) /\ Len(x) = Len(w) + 1 /\ Len(w) \in Nat /\ Len(s) \in Nat /\ Len(h) \in Nat
      /\ x[Len(w) + 1] = f /\ \A i \in 1..Len(w) : x[i] = w[i]
  BY AppendProperties
<1>3. f.msg \in ServerMessages
  BY FramesKnown
<1>4. /\ t \in Seq(ServerMessages) /\ Len(t) = Len(s) + 1
      /\ t[Len(s) + 1] = f.msg /\ \A k \in 1..Len(s) : t[k] = s[k]
  BY <1>3, AppendProperties
<1> HIDE DEF x, t
<1>5. /\ m \in [0..Len(x) -> 0..Len(t)] /\ m[Len(x)] = Len(t)
      /\ \A i \in 0..Len(w) : m[i] = n[i]
  BY <1>1, <1>2, <1>4
<1> HIDE DEF m
<1>6. /\ n[0] = Len(h) /\ n[Len(w)] = Len(s)
      /\ \A i \in 1..Len(w) :
             IF Completes(w[i]) THEN n[i] = n[i - 1] + 1 /\ w[i].msg = s[n[i]] ELSE n[i] = n[i - 1]
  BY <1>1 DEF Hears
<1>7. ASSUME NEW i \in 1..Len(x)
      PROVE  IF Completes(x[i]) THEN m[i] = m[i - 1] + 1 /\ x[i].msg = t[m[i]] ELSE m[i] = m[i - 1]
  <2>1. CASE i = Len(w) + 1
    <3>1. i = Len(x) /\ i - 1 = Len(w) /\ Len(w) \in 0..Len(w)
      BY <1>2, <2>1
    <3>2. x[i] = f /\ m[i] = Len(s) + 1
      BY <1>2, <1>4, <1>5, <3>1
    <3>3. m[i - 1] = Len(s)
      BY <1>5, <1>6, <3>1
    <3>4. QED
      BY <1>2, <1>4, <3>2, <3>3
  <2>2. CASE i # Len(w) + 1
    <3>1. i \in 1..Len(w) /\ i - 1 \in 0..Len(w) /\ i \in 0..Len(w)
      BY <1>2, <2>2
    <3>2. m[i] = n[i] /\ m[i - 1] = n[i - 1] /\ x[i] = w[i] /\ n[i] \in 0..Len(s) /\ n[i - 1] \in 0..Len(s)
      BY <1>1, <1>2, <1>5, <3>1
    <3>3. Completes(w[i]) => n[i] \in 1..Len(s)
      BY <1>2, <1>6, <3>1, <3>2
    <3>4. QED
      BY <1>4, <1>6, <3>1, <3>2, <3>3
  <2>3. QED
    BY <2>1, <2>2
<1>8. m[0] = Len(h)
  BY <1>2, <1>5, <1>6
<1>9. Hears(m, x, h, t)
  BY <1>5, <1>7, <1>8 DEF Hears
<1>10. InOrder(h, t)
  BY <1>2, <1>4 DEF OnTheWire, InOrder
<1>11. OnTheWire(x, h, t)
  BY <1>5, <1>9, <1>10 DEF OnTheWire
<1>12. QED
  BY <1>2, <1>11 DEF x, t
-----------------------------------------------------------------------------
(* The messages.                                                           *)

Ended(c) == socket[c].state \in {"closed", "dead"}

\* A socket that has ended reads nothing more; of the others nothing is lost.
WireFits(c) ==
    IF Ended(c) THEN InOrder(heard[c], said[c]) ELSE OnTheWire(wire[c], heard[c], said[c])

MessagesFit ==
    /\ wire \in [Connections -> Seq(Frames)]
    /\ said \in [Connections -> Seq(ServerMessages)]
    /\ heard \in [Connections -> Seq(ServerMessages)]
    /\ \A c \in Connections : WireFits(c)

SocketRows == [state : {"unused", "opening", "open", "closed", "dead"}, closeSent : BOOLEAN, half : BOOLEAN]

LEMMA WireInit == LinkInit => MessagesFit
<1> SUFFICES ASSUME LinkInit
             PROVE  MessagesFit
  OBVIOUS
<1>1. /\ wire = [c \in Connections |-> <<>>] /\ said = [c \in Connections |-> <<>>]
      /\ heard = [c \in Connections |-> <<>>]
      /\ socket = [c \in Connections |-> [state |-> "unused", closeSent |-> FALSE, half |-> FALSE]]
  BY DEF LinkInit
<1>2. \A c \in Connections : WireFits(c)
  BY <1>1, NothingOnTheWire DEF WireFits, Ended
<1>3. QED
  BY <1>1, <1>2 DEF MessagesFit

\* A step that is about one connection.
LEMMA WireStep ==
    ASSUME MessagesFit, NEW c \in Connections, NEW w \in Seq(Frames),
           NEW h \in Seq(ServerMessages), NEW s \in Seq(ServerMessages),
           wire' = [wire EXCEPT ![c] = w], heard' = [heard EXCEPT ![c] = h], said' = [said EXCEPT ![c] = s],
           \A d \in Connections \ {c} : socket'[d].state = socket[d].state,
           IF Ended(c)' THEN InOrder(h, s) ELSE OnTheWire(w, h, s)
    PROVE  MessagesFit'
<1>1. /\ wire' \in [Connections -> Seq(Frames)] /\ said' \in [Connections -> Seq(ServerMessages)]
      /\ heard' \in [Connections -> Seq(ServerMessages)]
      /\ wire'[c] = w /\ heard'[c] = h /\ said'[c] = s
      /\ \A d \in Connections \ {c} : wire'[d] = wire[d] /\ heard'[d] = heard[d] /\ said'[d] = said[d]
  BY DEF MessagesFit
<1>2. WireFits(c)'
  BY <1>1 DEF WireFits
<1>3. \A d \in Connections \ {c} : WireFits(d)'
  BY <1>1 DEF MessagesFit, WireFits, Ended
<1>4. QED
  BY <1>1, <1>2, <1>3 DEF MessagesFit

LEMMA WireKnown ==
    ASSUME MessagesFit, NEW c \in Connections
    PROVE  /\ wire[c] \in Seq(Frames) /\ heard[c] \in Seq(ServerMessages) /\ said[c] \in Seq(ServerMessages)
           /\ WireFits(c) /\ InOrder(heard[c], said[c])
           /\ wire = [wire EXCEPT ![c] = wire[c]] /\ heard = [heard EXCEPT ![c] = heard[c]]
           /\ said = [said EXCEPT ![c] = said[c]]
  BY DEF MessagesFit, WireFits, OnTheWire

\* Sockets change, but none ends.
LEMMA WireQuiet ==
    ASSUME MessagesFit, UNCHANGED <<wire, said, heard>>,
           \A c \in Connections : Ended(c)' <=> Ended(c)
    PROVE  MessagesFit'
  BY DEF MessagesFit, WireFits

\* A socket is closed, and what was on its way to it is gone.
LEMMA WireClosed ==
    ASSUME MessagesFit, NEW c \in Connections, UNCHANGED <<said, heard>>, wire' = [wire EXCEPT ![c] = <<>>],
           socket'[c].state = "closed", \A d \in Connections \ {c} : socket'[d].state = socket[d].state
    PROVE  MessagesFit'
<1>1. <<>> \in Seq(Frames)
  OBVIOUS
<1>2. QED
  BY <1>1, WireKnown, WireStep DEF Ended

\* With the process every socket ends that was ever used.
LEMMA WireCrash ==
    ASSUME MessagesFit, socket \in [Connections -> SocketRows], LinkCrash
    PROVE  MessagesFit'
<1>1. UNCHANGED <<said, heard>>
  BY DEF LinkCrash
<1>2. ASSUME NEW c \in Connections
      PROVE  wire'[c] \in Seq(Frames) /\ WireFits(c)'
  <2>1. /\ wire[c] \in Seq(Frames) /\ WireFits(c) /\ InOrder(heard[c], said[c])
    BY WireKnown
  <2>2. CASE socket[c].state = "unused"
    <3>1. wire'[c] = wire[c] /\ socket'[c].state = "unused"
      BY <2>2 DEF LinkCrash
    <3>2. QED
      BY <1>1, <2>1, <2>2, <3>1 DEF WireFits, Ended
  <2>3. CASE socket[c].state # "unused"
    <3>1. wire'[c] = <<>> /\ socket'[c].state = "dead"
      BY <2>3 DEF LinkCrash, SocketRows
    <3>2. QED
      BY <1>1, <2>1, <3>1 DEF WireFits, Ended
  <2>4. QED
    BY <2>2, <2>3
<1>3. wire' \in [Connections -> Seq(Frames)]
  <2>1. wire' = [c \in Connections |-> wire'[c]]
    BY DEF LinkCrash
  <2>2. QED
    BY <1>2, <2>1
<1>4. QED
  BY <1>1, <1>2, <1>3 DEF MessagesFit

LEMMA SendFits ==
    ASSUME MessagesFit, NEW c \in Connections, NEW m \in ServerMessages, Send(c, m)
    PROVE  MessagesFit'
<1> DEFINE w == wire[c]
           h == heard[c]
           s == said[c]
<1>1. /\ w \in Seq(Frames) /\ h \in Seq(ServerMessages) /\ s \in Seq(ServerMessages) /\ OnTheWire(w, h, s)
      /\ UNCHANGED <<socket, heard>> /\ ~Ended(c) /\ ~Ended(c)'
      /\ said' = [said EXCEPT ![c] = Append(s, m)]
  BY WireKnown DEF Send, WireFits, Ended
<1>2. PICK frames \in Framings(m) : wire' = [wire EXCEPT ![c] = w \o frames]
  BY DEF Send
<1> HIDE DEF w, h, s
<1>3. /\ Text("all", m) \in Frames /\ Text("head", m) \in Frames /\ Text("tail", m) \in Frames
      /\ Control("ping") \in Frames
      /\ Completes(Text("all", m)) /\ Completes(Text("tail", m))
      /\ Text("all", m).msg = m /\ Text("tail", m).msg = m
      /\ ~Completes(Text("head", m)) /\ ~Completes(Control("ping"))
  BY FramesKnown
<1>4. \A v \in Seq(Frames), f \in Frames : Append(v, f) \in Seq(Frames)
  BY AppendProperties
<1>5. Append(s, m) \in Seq(ServerMessages)
  BY <1>1, AppendProperties
<1>6. w \o frames \in Seq(Frames) /\ OnTheWire(w \o frames, h, Append(s, m))
  <2>1. CASE frames = <<Text("all", m)>>
    <3>1. w \o frames = Append(w, Text("all", m))
      BY <1>1, <1>3, <2>1, AppendIsConcat
    <3>2. QED
      BY <1>1, <1>3, <3>1, WireSay
  <2>2. ASSUME NEW v \in Seq(Frames), OnTheWire(v, h, s), w \o frames = Append(v, Text("tail", m))
        PROVE  w \o frames \in Seq(Frames) /\ OnTheWire(w \o frames, h, Append(s, m))
    BY <1>1, <1>3, <2>2, WireSay
  <2>3. CASE frames = <<Text("head", m), Text("tail", m)>>
    <3>1. w \o frames = Append(Append(w, Text("head", m)), Text("tail", m))
      BY <1>1, <1>3, <2>3
    <3>2. Append(w, Text("head", m)) \in Seq(Frames) /\ OnTheWire(Append(w, Text("head", m)), h, s)
      BY <1>1, <1>3, WireControl
    <3>3. QED
      BY <2>2, <3>1, <3>2
  <2>4. CASE frames = <<Text("head", m), Control("ping"), Text("tail", m)>>
    <3> DEFINE u == Append(w, Text("head", m))
               v == Append(u, Control("ping"))
    <3>1. w \o frames = Append(v, Text("tail", m))
      BY <1>1, <1>3, <2>4
    <3>2. u \in Seq(Frames) /\ OnTheWire(u, h, s)
      BY <1>1, <1>3, WireControl
    <3> HIDE DEF u
    <3>3. v \in Seq(Frames) /\ OnTheWire(v, h, s)
      BY <1>1, <1>3, <3>2, WireControl
    <3>4. QED
      BY <2>2, <3>1, <3>3
  <2>5. QED
    BY <2>1, <2>3, <2>4 DEF Framings
<1>7. heard' = [heard EXCEPT ![c] = h]
  BY <1>1, WireKnown DEF h
<1>8. QED
  BY <1>1, <1>2, <1>5, <1>6, <1>7, WireStep

LEMMA ControlFits ==
    ASSUME MessagesFit, NEW c \in Connections, NEW op \in {"close", "garbage"},
           wire' = [wire EXCEPT ![c] = Append(@, Control(op))], UNCHANGED <<socket, said, heard>>
    PROVE  MessagesFit'
<1>1. Control(op) \in Frames /\ ~Completes(Control(op))
  BY FramesKnown
<1>2. /\ wire[c] \in Seq(Frames) /\ heard[c] \in Seq(ServerMessages) /\ said[c] \in Seq(ServerMessages)
      /\ WireFits(c) /\ InOrder(heard[c], said[c])
      /\ heard' = [heard EXCEPT ![c] = heard[c]] /\ said' = [said EXCEPT ![c] = said[c]]
  BY WireKnown
<1>3. Append(wire[c], Control(op)) \in Seq(Frames)
  BY <1>1, <1>2, AppendProperties
<1>4. ~Ended(c) => OnTheWire(Append(wire[c], Control(op)), heard[c], said[c])
  BY <1>1, <1>2, WireControl DEF WireFits
<1>5. Ended(c)' <=> Ended(c)
  BY DEF Ended
<1>6. QED
  BY <1>2, <1>3, <1>4, <1>5, WireStep

\* A frame is read from a socket that is open.
LEMMA ReadLink ==
    ASSUME MessagesFit, NEW c \in Connections, socket[c].state = "open", wire[c] # <<>>,
           TakeFrame(c), UNCHANGED said, socket'[c].state = "open",
           \A d \in Connections \ {c} : socket'[d].state = socket[d].state,
           \/ ~Completes(Head(wire[c])) /\ UNCHANGED heard
           \/ Completes(Head(wire[c])) /\ heard' = [heard EXCEPT ![c] = Append(@, Head(wire[c]).msg)]
    PROVE  MessagesFit'
<1>1. /\ wire[c] \in Seq(Frames) /\ heard[c] \in Seq(ServerMessages) /\ said[c] \in Seq(ServerMessages)
      /\ OnTheWire(wire[c], heard[c], said[c]) /\ said' = [said EXCEPT ![c] = said[c]]
      /\ heard = [heard EXCEPT ![c] = heard[c]] /\ wire' = [wire EXCEPT ![c] = Tail(wire[c])]
  BY WireKnown DEF WireFits, Ended, TakeFrame
<1>2. Tail(wire[c]) \in Seq(Frames) /\ Head(wire[c]) \in Frames
  BY <1>1, WireTail
<1>3. CASE ~Completes(Head(wire[c])) /\ UNCHANGED heard
  BY <1>1, <1>2, <1>3, WireRead, WireStep DEF Ended
<1>4. CASE Completes(Head(wire[c])) /\ heard' = [heard EXCEPT ![c] = Append(@, Head(wire[c]).msg)]
  <2>1. Append(heard[c], Head(wire[c]).msg) \in Seq(ServerMessages)
    BY <1>1, <1>2, <1>4, FramesKnown, AppendProperties
  <2>2. OnTheWire(Tail(wire[c]), Append(heard[c], Head(wire[c]).msg), said[c])
    BY <1>1, <1>4, WireRead
  <2>3. QED
    BY <1>1, <1>2, <1>4, <2>1, <2>2, WireStep DEF Ended
<1>5. QED
  BY <1>3, <1>4

LEMMA MessagesStillFit ==
    ASSUME MessagesFit, socket \in [Connections -> SocketRows], [LinkNext]_linkVars
    PROVE  MessagesFit'
<1>1. CASE UNCHANGED linkVars
  BY <1>1, WireQuiet DEF linkVars, Ended
<1>2. CASE Start \/ PassTime \/ \E q \in ServerAsks : Respond(q)
  BY <1>2, WireQuiet DEF Start, PassTime, Respond, Ended
<1>3. CASE StopRunner
  BY <1>3, WireQuiet DEF StopRunner, ClosingSocket, SocketRows, Ended
<1>4. ASSUME NEW c \in Connections,
             \/ Accept(c) \/ Initialize(c) \/ Attach(c) \/ Call(c)
             \/ \E id \in 1..MaxCalls : CallTimesOut(c, id)
      PROVE  MessagesFit'
  BY <1>4, WireQuiet DEF Accept, Initialize, Attach, Call, CallTimesOut, Ended
<1>5. ASSUME NEW c \in Connections, Connect(c) \/ Upgraded(c) \/ ConnectFails(c)
      PROVE  MessagesFit'
  <2>1. UNCHANGED <<wire, said, heard>>
    BY <1>5, WireKnown DEF Connect, Upgraded, ConnectFails, Remainder
  <2>2. \A d \in Connections : Ended(d)' <=> Ended(d)
    BY <1>5 DEF Connect, Upgraded, ConnectFails, ClosingSocket, SocketRows, Ended
  <2>3. QED
    BY <2>1, <2>2, WireQuiet
<1>6. ASSUME NEW c \in Connections, ReportClose(c) \/ ReadGarbage(c) \/ HandshakeFails(c)
      PROVE  MessagesFit'
  BY <1>6, WireClosed DEF ReportClose, ReadGarbage, HandshakeFails, SocketRows
<1>7. ASSUME NEW c \in Connections, Malformed(c) \/ ServerCloses(c)
      PROVE  MessagesFit'
  <2>1. UNCHANGED <<socket, said, heard>>
    BY <1>7 DEF Malformed, ServerCloses
  <2>2. UNCHANGED wire \/ \E op \in {"close", "garbage"} : wire' = [wire EXCEPT ![c] = Append(@, Control(op))]
    BY <1>7 DEF Malformed, ServerCloses
  <2>3. QED
    BY <2>1, <2>2, WireQuiet, ControlFits DEF Ended
<1>8. ASSUME NEW c \in Connections, ReadControl(c) \/ ReadHead(c)
      PROVE  MessagesFit'
  <2>1. ~Completes(Head(wire[c])) /\ wire[c] # <<>> /\ TakeFrame(c) /\ UNCHANGED <<said, heard>>
        /\ socket[c].state = "open"
    BY <1>8 DEF ReadControl, ReadHead, Completes
  <2>2. socket'[c].state = "open" /\ \A d \in Connections \ {c} : socket'[d].state = socket[d].state
    BY <1>8, <2>1 DEF ReadControl, ReadHead, SocketRows
  <2>3. QED
    BY <2>1, <2>2, ReadLink
<1>9. ASSUME NEW c \in Connections, ReadMessage(c)
      PROVE  MessagesFit'
  <2>1. /\ Completes(Head(wire[c])) /\ wire[c] # <<>> /\ TakeFrame(c) /\ UNCHANGED said
        /\ socket[c].state = "open" /\ heard' = [heard EXCEPT ![c] = Append(@, Head(wire[c]).msg)]
    BY <1>9 DEF ReadMessage, Completes
  <2>2. socket'[c].state = "open" /\ \A d \in Connections \ {c} : socket'[d].state = socket[d].state
    BY <1>9, <2>1 DEF ReadMessage, SocketRows
  <2>3. QED
    BY <2>1, <2>2, ReadLink
<1>10. QED
  BY <1>1, <1>2, <1>3, <1>4, <1>5, <1>6, <1>7, <1>8, <1>9, SendFits, WireCrash DEF LinkNext
-----------------------------------------------------------------------------
(* The link.                                                               *)

Ends == Connections \cup {NoConnection}

ServerRows == [up : BOOLEAN, owes : SUBSET (1..MaxCalls)]

ClientRows == [transport : BOOLEAN, closed : BOOLEAN, pending : SUBSET (1..MaxCalls), next : 1..(MaxCalls + 1)]

RunnerRows == [stopped : BOOLEAN, conn : Ends,
               pc : {"idle", "connecting", "initializing", "initialized", "failed"}]

BackoffRows == [failures : 0..3, waiting : BOOLEAN]

AskedRows == [state : {"none", "open", "lost", "answered"}, conn : Ends]

\* Before its first call a client has made none; what is in use was connected
\* and is not being made; and an ask that is open came on it, or on a socket that
\* ended with its process.
InUseFits ==
    /\ inUse \in Ends /\ attached \in {inUse, NoConnection}
    /\ inUse # NoConnection => runner.pc = "idle" /\ socket[inUse].state \in {"open", "closed"}

NextFits ==
    /\ \A c \in Connections : socket[c].state \in {"unused", "opening"} => client[c].next = 1
    /\ runner.pc = "connecting" => runner.conn \in Connections /\ client[runner.conn].next = 1

AsksFit ==
    \A q \in ServerAsks : asked[q].state = "open" =>
        /\ asked[q].conn \in Connections
        /\ socket[asked[q].conn].state # "dead" => asked[q].conn = inUse /\ attached = inUse

LinkInv ==
    /\ server \in [Connections -> ServerRows]
    /\ socket \in [Connections -> SocketRows]
    /\ client \in [Connections -> ClientRows]
    /\ runner \in RunnerRows /\ backoff \in BackoffRows
    /\ asked \in [ServerAsks -> AskedRows]
    /\ linkFaults \in 0..MaxLinkFaults
    /\ InUseFits /\ NextFits /\ AsksFit
    /\ MessagesFit

LEMMA LinkInvInit == LinkInit => LinkInv
<1> SUFFICES ASSUME LinkInit
             PROVE  LinkInv
  OBVIOUS
<1>1. NoConnection \in Ends
  BY DEF Ends
<1>2. /\ server \in [Connections -> ServerRows] /\ socket \in [Connections -> SocketRows]
      /\ \A c \in Connections : socket[c].state = "unused"
  BY DEF LinkInit, ServerRows, SocketRows
<1>3. client \in [Connections -> ClientRows] /\ \A c \in Connections : client[c].next = 1
  BY LinkAssumption DEF LinkInit, ClientRows
<1>4. runner \in RunnerRows /\ runner.pc = "idle" /\ backoff \in BackoffRows
  BY <1>1 DEF LinkInit, RunnerRows, BackoffRows
<1>5. asked \in [ServerAsks -> AskedRows] /\ \A q \in ServerAsks : asked[q].state = "none"
  BY <1>1 DEF LinkInit, AskedRows
<1>6. linkFaults \in 0..MaxLinkFaults /\ inUse = NoConnection /\ attached = NoConnection
  BY LinkAssumption DEF LinkInit
<1>7. InUseFits /\ NextFits /\ AsksFit
  BY <1>1, <1>3, <1>4, <1>5, <1>6 DEF InUseFits, NextFits, AsksFit
<1>8. QED
  BY <1>2, <1>3, <1>4, <1>5, <1>6, <1>7, WireInit DEF LinkInv

LEMMA LinkKnown ==
    ASSUME LinkInv
    PROVE  /\ server \in [Connections -> ServerRows]
           /\ socket \in [Connections -> SocketRows]
           /\ client \in [Connections -> ClientRows]
           /\ runner \in RunnerRows /\ backoff \in BackoffRows
           /\ asked \in [ServerAsks -> AskedRows]
           /\ linkFaults \in 0..MaxLinkFaults
           /\ inUse \in Ends /\ attached \in {inUse, NoConnection} /\ attached \in Ends
  BY DEF LinkInv, InUseFits, Ends

\* A step whose messages fit: what is left to show.
LEMMA LinkStep ==
    ASSUME LinkInv, LinkNext,
           server' \in [Connections -> ServerRows], socket' \in [Connections -> SocketRows],
           client' \in [Connections -> ClientRows], runner' \in RunnerRows, backoff' \in BackoffRows,
           asked' \in [ServerAsks -> AskedRows], linkFaults' \in 0..MaxLinkFaults,
           InUseFits', NextFits', AsksFit'
    PROVE  LinkInv'
<1>1. MessagesFit'
  BY MessagesStillFit DEF LinkInv
<1>2. QED
  BY <1>1 DEF LinkInv

\* Rows that change in one field or two.
LEMMA ServerRow ==
    ASSUME LinkInv, NEW c \in Connections
    PROVE  /\ [server EXCEPT ![c].up = TRUE] \in [Connections -> ServerRows]
           /\ [server EXCEPT ![c] = [up |-> FALSE, owes |-> {}]] \in [Connections -> ServerRows]
           /\ \A S : [server EXCEPT ![c].owes = @ \ S] \in [Connections -> ServerRows]
  BY LinkKnown DEF ServerRows

LEMMA SocketRow ==
    ASSUME LinkInv, NEW c \in Connections
    PROVE  /\ \A s \in {"opening", "open", "closed"} :
                 LET t == [socket EXCEPT ![c].state = s]
                 IN  /\ t \in [Connections -> SocketRows] /\ t[c].state = s
                     /\ \A d \in Connections \ {c} : t[d] = socket[d]
           /\ \A b \in BOOLEAN : LET t == [socket EXCEPT ![c].half = b]
                                 IN  t \in [Connections -> SocketRows] /\ \A d \in Connections : t[d].state = socket[d].state
           /\ \A b \in BOOLEAN : LET t == [socket EXCEPT ![c].closeSent = b]
                                 IN  t \in [Connections -> SocketRows] /\ \A d \in Connections : t[d].state = socket[d].state
  BY LinkKnown DEF SocketRows

LEMMA SocketMoves ==
    ASSUME LinkInv, NEW c \in Connections,
           \/ socket' = [socket EXCEPT ![c].state = "open"]
           \/ socket' = [socket EXCEPT ![c].state = "closed"]
           \/ socket' = [socket EXCEPT ![c].state = "closed", ![c].closeSent = TRUE]
    PROVE  /\ socket' \in [Connections -> SocketRows] /\ socket'[c].state \in {"open", "closed"}
           /\ \A d \in Connections \ {c} : socket'[d] = socket[d]
  BY LinkKnown DEF SocketRows

LEMMA ClosingKnown ==
    ASSUME LinkInv, NEW c \in Connections
    PROVE  /\ ClosingSocket(c) \in [Connections -> SocketRows]
           /\ \A d \in Connections : ClosingSocket(c)[d].state = socket[d].state
<1>1. (socket[c].closeSent \/ socket[c].state = "open") \in BOOLEAN
  BY Zenon
<1>2. \A b \in BOOLEAN : /\ [socket EXCEPT ![c].closeSent = b] \in [Connections -> SocketRows]
                         /\ \A d \in Connections : [socket EXCEPT ![c].closeSent = b][d].state = socket[d].state
  BY SocketRow
<1>3. QED
  BY <1>1, <1>2, Zenon DEF ClosingSocket

LEMMA LaterKnown ==
    ASSUME LinkInv
    PROVE  Later \in BackoffRows
<1>1. backoff \in BackoffRows
  BY LinkKnown
<1>2. (IF backoff.failures < 3 THEN backoff.failures + 1 ELSE backoff.failures) \in 0..3
  BY <1>1 DEF BackoffRows
<1>3. \A n \in 0..3 : [backoff EXCEPT !.failures = n, !.waiting = TRUE] \in BackoffRows
  BY <1>1 DEF BackoffRows
<1>4. QED
  BY <1>2, <1>3 DEF Later

LEMMA LostKnown ==
    ASSUME LinkInv, NEW c
    PROVE  /\ Lost(c) \in [ServerAsks -> AskedRows]
           /\ \A q \in ServerAsks : Lost(c)[q].state = "open" => Lost(c)[q] = asked[q] /\ asked[q].conn # c
<1>1. \A r \in AskedRows : LET t == [r EXCEPT !.state = "lost"] IN t \in AskedRows /\ t.state = "lost"
  BY DEF AskedRows
<1>2. ASSUME NEW q \in ServerAsks
      PROVE  Lost(c)[q] \in AskedRows /\ (Lost(c)[q].state = "open" => Lost(c)[q] = asked[q] /\ asked[q].conn # c)
  <2>1. asked[q] \in AskedRows
    BY LinkKnown
  <2>2. CASE asked[q].state = "open" /\ asked[q].conn = c
    <3>1. Lost(c)[q] = [asked[q] EXCEPT !.state = "lost"]
      BY <2>2 DEF Lost
    <3>2. QED
      BY <1>1, <2>1, <3>1
  <2>3. CASE ~(asked[q].state = "open" /\ asked[q].conn = c)
    <3>1. Lost(c)[q] = asked[q]
      BY <2>3 DEF Lost
    <3>2. QED
      BY <2>1, <2>3, <3>1
  <2>4. QED
    BY <2>2, <2>3
<1>3. Lost(c) \in [ServerAsks -> AskedRows]
  BY <1>2 DEF Lost
<1>4. QED
  BY <1>2, <1>3

\* The runner goes on, or its initialize fails: while nothing is in use.
RunnerGoesOn ==
    /\ runner' \in RunnerRows
    /\ \/ runner' = runner
       \/ runner.pc \in {"initializing", "initialized"} /\ runner'.pc \in {"initialized", "failed"}

LEMMA RejectedKnown ==
    ASSUME LinkInv, NEW c, runner' = InitRejected(c)
    PROVE  RunnerGoesOn
<1>1. runner \in RunnerRows
  BY LinkKnown
<1>2. [runner EXCEPT !.pc = "failed"] \in RunnerRows /\ [runner EXCEPT !.pc = "failed"].pc = "failed"
  BY <1>1 DEF RunnerRows
<1>3. QED
  BY <1>1, <1>2 DEF InitRejected, RunnerGoesOn

\* A socket that ended with its process is not used again.
LEMMA DeadStays ==
    ASSUME LinkInv, LinkNext
    PROVE  \A d \in Connections : socket[d].state = "dead" => socket'[d].state = "dead"
<1>1. socket \in [Connections -> SocketRows]
  BY LinkKnown
<1>2. CASE UNCHANGED socket
  BY <1>2
<1>3. CASE StopRunner
  BY <1>1, <1>3 DEF StopRunner, ClosingSocket, SocketRows
<1>4. CASE LinkCrash
  BY <1>1, <1>4 DEF LinkCrash, SocketRows
<1>5. ASSUME NEW c \in Connections, ReportClose(c) \/ ReadGarbage(c) \/ HandshakeFails(c) \/ Connect(c) \/ Upgraded(c)
      PROVE  \A d \in Connections : socket[d].state = "dead" => socket'[d].state = "dead"
  BY <1>1, <1>5 DEF ReportClose, ReadGarbage, HandshakeFails, Connect, Upgraded, SocketRows
<1>6. ASSUME NEW c \in Connections, ReadControl(c) \/ ReadHead(c) \/ ReadMessage(c) \/ ConnectFails(c)
      PROVE  \A d \in Connections : socket[d].state = "dead" => socket'[d].state = "dead"
  BY <1>1, <1>6 DEF ReadControl, ReadHead, ReadMessage, ConnectFails, ClosingSocket, SocketRows
<1>7. CASE Start \/ PassTime \/ \E q \in ServerAsks : Respond(q)
  BY <1>2, <1>7 DEF Start, PassTime, Respond
<1>8. ASSUME NEW c \in Connections,
             \/ Accept(c) \/ Malformed(c) \/ ServerCloses(c) \/ Initialize(c) \/ Attach(c) \/ Call(c)
             \/ \E m \in ServerMessages : Send(c, m)
             \/ \E id \in 1..MaxCalls : CallTimesOut(c, id)
      PROVE  UNCHANGED socket
  BY <1>8 DEF Accept, Malformed, ServerCloses, Initialize, Attach, Call, Send, CallTimesOut
<1>9. QED
  BY <1>2, <1>3, <1>4, <1>5, <1>6, <1>7, <1>8 DEF LinkNext

\* The asks stay as they are, and so does what is in use.
LEMMA AsksStand ==
    ASSUME LinkInv, LinkNext, UNCHANGED <<inUse, attached, asked>>
    PROVE  AsksFit'
  BY DeadStays DEF LinkInv, AsksFit

\* Nothing is in use any more: what is open is on sockets that ended with their process.
LEMMA AsksLeft ==
    ASSUME LinkInv, LinkNext,
           \A q \in ServerAsks : asked'[q].state = "open" =>
               asked'[q] = asked[q] /\ (asked[q].conn # inUse \/ attached # inUse)
    PROVE  AsksFit'
<1>1. ASSUME NEW q \in ServerAsks, asked'[q].state = "open"
      PROVE  asked'[q].conn \in Connections /\ socket'[asked'[q].conn].state = "dead"
  <2>1. asked'[q] = asked[q] /\ asked[q].conn \in Connections /\ socket[asked[q].conn].state = "dead"
    BY <1>1 DEF LinkInv, AsksFit
  <2>2. QED
    BY <2>1, DeadStays
<1>2. QED
  BY <1>1 DEF AsksFit

\* What Disconnect leaves: the clients keep count, and the asks go with the link.
LEMMA DisconnectKnown ==
    ASSUME LinkInv, LinkNext, NEW c \in Connections, Disconnect(c)
    PROVE  /\ client' \in [Connections -> ClientRows]
           /\ \A d \in Connections : client'[d].next = client[d].next
           /\ RunnerGoesOn
           /\ backoff' \in BackoffRows
           /\ asked' \in [ServerAsks -> AskedRows]
           /\ inUse' \in {inUse, NoConnection} /\ attached' \in {inUse', NoConnection}
           /\ AsksFit'
<1>1. CASE UNCHANGED <<client, inUse, attached, runner, backoff, asked>>
  BY <1>1, LinkKnown, AsksStand DEF RunnerGoesOn
<1>2. CASE /\ client' = [client EXCEPT ![c].transport = FALSE, ![c].pending = {}]
           /\ runner' = InitRejected(c)
           /\ ~InUse(c)
           /\ UNCHANGED <<inUse, attached, backoff, asked>>
  <2>1. client' \in [Connections -> ClientRows] /\ \A d \in Connections : client'[d].next = client[d].next
    BY <1>2, LinkKnown DEF ClientRows
  <2>2. AsksFit'
    BY <1>2, AsksStand
  <2>3. QED
    BY <1>2, <2>1, <2>2, RejectedKnown, LinkKnown
<1>3. CASE /\ client' = [client EXCEPT ![c].transport = FALSE, ![c].pending = {}]
           /\ runner' = InitRejected(c)
           /\ InUse(c)
           /\ inUse' = NoConnection
           /\ backoff' = Later
           /\ asked' = IF attached = c THEN Lost(c) ELSE asked
           /\ attached' = IF attached = c THEN NoConnection ELSE attached
  <2>1. client' \in [Connections -> ClientRows] /\ \A d \in Connections : client'[d].next = client[d].next
    BY <1>3, LinkKnown DEF ClientRows
  <2>2. inUse = c /\ attached' = NoConnection
    BY <1>3, LinkKnown DEF InUse
  <2>3. asked' \in [ServerAsks -> AskedRows] /\ AsksFit'
    <3>1. CASE attached = c
      BY <1>3, <2>2, <3>1, LostKnown, AsksLeft
    <3>2. CASE attached # c
      BY <1>3, <2>2, <3>2, LinkKnown, AsksLeft
    <3>3. QED
      BY <3>1, <3>2
  <2>4. QED
    BY <1>3, <2>1, <2>2, <2>3, RejectedKnown, LaterKnown
<1>4. QED
  BY <1>1, <1>2, <1>3 DEF Disconnect
\* Nothing is put in use and nothing begins to be made.
LEMMA FitsStand ==
    ASSUME LinkInv, inUse' \in {inUse, NoConnection}, attached' \in {inUse', NoConnection},
           runner'.pc = "connecting" => runner.pc = "connecting" /\ runner'.conn = runner.conn,
           runner.pc = "idle" => runner'.pc = "idle",
           \A d \in Connections : socket'[d].state \in {socket[d].state, "closed"},
           \A d \in Connections : client'[d].next = client[d].next
    PROVE  InUseFits' /\ NextFits'
<1>1. InUseFits'
  <2>1. inUse' \in Ends
    BY LinkKnown DEF Ends
  <2>2. ASSUME inUse' # NoConnection
        PROVE  runner'.pc = "idle" /\ socket'[inUse'].state \in {"open", "closed"}
    <3>1. inUse' = inUse /\ inUse \in Connections
      BY <2>2, LinkKnown DEF Ends
    <3>2. runner.pc = "idle" /\ socket[inUse].state \in {"open", "closed"}
      BY <2>2, <3>1 DEF LinkInv, InUseFits
    <3>3. socket'[inUse].state \in {socket[inUse].state, "closed"}
      BY <3>1
    <3>4. QED
      BY <3>1, <3>2, <3>3
  <2>3. QED
    BY <2>1, <2>2 DEF InUseFits
<1>2. NextFits'
  BY DEF LinkInv, NextFits
<1>3. QED
  BY <1>1, <1>2

LEMMA ServerKeeps ==
    ASSUME LinkInv, LinkNext, NEW c \in Connections,
           Accept(c) \/ Malformed(c) \/ ServerCloses(c) \/ \E m \in ServerMessages : Send(c, m)
    PROVE  LinkInv'
<1>1. UNCHANGED <<socket, client, inUse, attached, runner, backoff, asked>>
  BY DEF Accept, Malformed, ServerCloses, Send
<1>2. server' \in [Connections -> ServerRows]
  <2>1. ASSUME NEW m \in ServerMessages, Send(c, m)
        PROVE  server' \in [Connections -> ServerRows]
    BY <2>1, ServerRow DEF Send
  <2>2. CASE Accept(c)
    BY <2>2, ServerRow DEF Accept
  <2>3. CASE Malformed(c) \/ ServerCloses(c)
    BY <2>3, ServerRow, LinkKnown DEF Malformed, ServerCloses
  <2>4. QED
    BY <2>1, <2>2, <2>3
<1>3. linkFaults' \in 0..MaxLinkFaults
  BY LinkKnown, LinkAssumption DEF Accept, Malformed, ServerCloses, Send
<1>4. InUseFits' /\ NextFits' /\ AsksFit'
  BY <1>1, AsksStand DEF LinkInv, InUseFits, NextFits
<1>5. QED
  BY <1>1, <1>2, <1>3, <1>4, LinkKnown, LinkStep

\* A frame that is no message moves the socket alone.
LEMMA ReadFrameKeeps ==
    ASSUME LinkInv, LinkNext, NEW c \in Connections, ReadControl(c) \/ ReadHead(c)
    PROVE  LinkInv'
<1>1. UNCHANGED <<server, client, inUse, attached, runner, backoff, asked, linkFaults>>
  BY DEF ReadControl, ReadHead
<1>2. socket' \in [Connections -> SocketRows] /\ \A d \in Connections : socket'[d].state = socket[d].state
  <2>1. CASE ReadHead(c)
    BY <2>1, SocketRow DEF ReadHead
  <2>2. CASE ReadControl(c)
    <3>1. (socket[c].closeSent \/ Head(wire[c]).op = "close") \in BOOLEAN
      BY Zenon
    <3>2. \A b \in BOOLEAN : /\ [socket EXCEPT ![c].closeSent = b] \in [Connections -> SocketRows]
                             /\ \A d \in Connections : [socket EXCEPT ![c].closeSent = b][d].state = socket[d].state
      BY SocketRow
    <3>3. socket' = [socket EXCEPT ![c].closeSent = @ \/ Head(wire[c]).op = "close"]
      BY <2>2 DEF ReadControl
    <3>4. QED
      BY <3>1, <3>2, <3>3, Zenon
  <2>3. QED
    BY <2>1, <2>2
<1>3. InUseFits' /\ NextFits'
  BY <1>1, <1>2, LinkKnown, FitsStand
<1>4. AsksFit'
  BY <1>1, AsksStand
<1>5. QED
  BY <1>1, <1>2, <1>3, <1>4, LinkKnown, LinkStep

\* A socket that ends disconnects the client on it.
LEMMA EndKeeps ==
    ASSUME LinkInv, LinkNext, NEW c \in Connections, ReportClose(c) \/ ReadGarbage(c)
    PROVE  LinkInv'
<1>1. server' \in [Connections -> ServerRows]
  BY ServerRow DEF ReportClose, ReadGarbage
<1>2. socket' \in [Connections -> SocketRows] /\ \A d \in Connections : socket'[d].state \in {socket[d].state, "closed"}
  <2>1. \/ socket' = [socket EXCEPT ![c].state = "closed"]
        \/ socket' = [socket EXCEPT ![c].state = "closed", ![c].closeSent = TRUE]
    BY DEF ReportClose, ReadGarbage
  <2>2. /\ socket' \in [Connections -> SocketRows] /\ socket'[c].state = "closed"
        /\ \A d \in Connections \ {c} : socket'[d] = socket[d]
    BY <2>1, LinkKnown DEF SocketRows
  <2>3. QED
    BY <2>2
<1>3. linkFaults' \in 0..MaxLinkFaults
  BY LinkKnown, LinkAssumption DEF ReportClose, ReadGarbage
<1>4. Disconnect(c)
  BY DEF ReportClose, ReadGarbage
<1>5. InUseFits' /\ NextFits'
  BY <1>2, <1>4, DisconnectKnown, FitsStand DEF RunnerGoesOn
<1>6. QED
  BY <1>1, <1>2, <1>3, <1>4, <1>5, DisconnectKnown, LinkStep DEF RunnerGoesOn

LEMMA ReadMessageKeeps ==
    ASSUME LinkInv, LinkNext, NEW c \in Connections, ReadMessage(c)
    PROVE  LinkInv'
<1> DEFINE m == Head(wire[c]).msg
<1>1. server' = server /\ socket' = [socket EXCEPT ![c].half = FALSE]
  BY DEF ReadMessage
<1>2. socket' \in [Connections -> SocketRows] /\ \A d \in Connections : socket'[d].state = socket[d].state
  BY <1>1, SocketRow
<1>3. m \in ServerMessages
  <2>1. Completes(Head(wire[c]))
    BY DEF ReadMessage, Completes
  <2>2. wire[c] \in Seq(Frames) /\ wire[c] # <<>>
    BY DEF LinkInv, MessagesFit, ReadMessage
  <2>3. QED
    BY <2>1, <2>2, WireTail, FramesKnown
<1>4. HandleMessage(c, m)
  BY DEF ReadMessage
<1> HIDE DEF m
<1>5. CASE m.kind = "reply" /\ AnswerPending(c, m.id)
  <2>1. client' \in [Connections -> ClientRows] /\ \A d \in Connections : client'[d].next = client[d].next
    BY <1>5, LinkKnown DEF AnswerPending, ClientRows
  <2>2. RunnerGoesOn
    <3>1. runner \in RunnerRows /\ [runner EXCEPT !.pc = "initialized"] \in RunnerRows
          /\ [runner EXCEPT !.pc = "initialized"].pc = "initialized"
      BY LinkKnown DEF RunnerRows
    <3>2. QED
      BY <1>5, <3>1 DEF AnswerPending, RunnerGoesOn
  <2>3. UNCHANGED <<inUse, attached, backoff, asked, linkFaults>>
    BY <1>5 DEF AnswerPending
  <2>4. InUseFits' /\ NextFits'
    BY <1>2, <2>1, <2>2, <2>3, LinkKnown, FitsStand DEF RunnerGoesOn
  <2>5. AsksFit'
    BY <2>3, AsksStand
  <2>6. QED
    BY <1>1, <1>2, <2>1, <2>2, <2>3, <2>4, <2>5, LinkKnown, LinkStep DEF RunnerGoesOn
<1>6. CASE /\ m.kind = "ask"
           /\ asked' = IF attached = c THEN [asked EXCEPT ![m.id] = [state |-> "open", conn |-> c]] ELSE asked
           /\ UNCHANGED <<client, inUse, attached, runner, backoff, linkFaults>>
  <2>1. m.id \in ServerAsks
    BY <1>3, <1>6 DEF ServerMessages, Reply, Ask
  <2>2. InUseFits' /\ NextFits'
    BY <1>2, <1>6, LinkKnown, FitsStand
  <2>3. asked' \in [ServerAsks -> AskedRows] /\ AsksFit'
    <3>1. CASE attached = c
      <4>1. c = inUse
        BY <3>1, LinkKnown, LinkAssumption
      <4>2. [state |-> "open", conn |-> c] \in AskedRows
        BY DEF AskedRows, Ends
      <4>3. asked' \in [ServerAsks -> AskedRows] /\ asked'[m.id] = [state |-> "open", conn |-> c]
            /\ \A q \in ServerAsks \ {m.id} : asked'[q] = asked[q]
        BY <1>6, <2>1, <3>1, <4>2, LinkKnown
      <4>4. QED
        BY <1>6, <3>1, <4>1, <4>3, DeadStays DEF LinkInv, AsksFit
    <3>2. CASE attached # c
      BY <1>6, <3>2, LinkKnown, AsksStand
    <3>3. QED
      BY <3>1, <3>2
  <2>4. QED
    BY <1>1, <1>2, <1>6, <2>2, <2>3, LinkKnown, LinkStep
<1>7. CASE linkFaults < MaxLinkFaults /\ linkFaults' = linkFaults + 1 /\ Disconnect(c)
  <2>1. linkFaults' \in 0..MaxLinkFaults
    BY <1>7, LinkKnown, LinkAssumption
  <2>2. InUseFits' /\ NextFits'
    BY <1>2, <1>7, DisconnectKnown, FitsStand DEF RunnerGoesOn
  <2>3. QED
    BY <1>1, <1>2, <1>7, <2>1, <2>2, DisconnectKnown, LinkKnown, LinkStep DEF RunnerGoesOn
<1>8. QED
  BY <1>4, <1>5, <1>6, <1>7 DEF HandleMessage

LEMMA TimeKeeps ==
    ASSUME LinkInv, LinkNext, Start \/ PassTime
    PROVE  LinkInv'
<1>1. UNCHANGED <<server, socket, client, inUse, attached, asked, linkFaults>>
  BY DEF Start, PassTime
<1>2. runner' \in RunnerRows /\ runner'.pc = runner.pc /\ runner'.conn = runner.conn
  BY LinkKnown DEF Start, PassTime, RunnerRows
<1>3. backoff' \in BackoffRows
  BY LinkKnown DEF Start, PassTime, BackoffRows
<1>4. InUseFits' /\ NextFits'
  BY <1>1, <1>2, LinkKnown, FitsStand
<1>5. AsksFit'
  BY <1>1, AsksStand
<1>6. QED
  BY <1>1, <1>2, <1>3, <1>4, <1>5, LinkKnown, LinkStep

LEMMA StopKeepsLink ==
    ASSUME LinkInv, LinkNext, StopRunner
    PROVE  LinkInv'
<1>1. /\ UNCHANGED <<server, backoff>> /\ inUse' = NoConnection /\ linkFaults' \in 0..MaxLinkFaults
      /\ runner' = [runner EXCEPT !.stopped = TRUE]
  BY LinkKnown, LinkAssumption DEF StopRunner
<1>2. runner' \in RunnerRows /\ runner'.pc = runner.pc /\ runner'.conn = runner.conn
  BY <1>1, LinkKnown DEF RunnerRows
<1>3. /\ socket' \in [Connections -> SocketRows] /\ client' \in [Connections -> ClientRows]
      /\ asked' \in [ServerAsks -> AskedRows] /\ attached' = NoConnection
      /\ \A d \in Connections : socket'[d].state = socket[d].state /\ client'[d].next = client[d].next
      /\ AsksFit'
  <2>1. CASE inUse = NoConnection /\ UNCHANGED <<socket, client, attached, asked>>
    BY <1>1, <2>1, LinkKnown, AsksStand
  <2>2. CASE /\ inUse # NoConnection
             /\ asked' = IF attached = inUse THEN Lost(inUse) ELSE asked
             /\ attached' = IF attached = inUse THEN NoConnection ELSE attached
             /\ socket' = IF client[inUse].transport THEN ClosingSocket(inUse) ELSE socket
             /\ client' = [client EXCEPT ![inUse].transport = FALSE, ![inUse].closed = TRUE, ![inUse].pending = {}]
    <3>1. inUse \in Connections /\ attached' = NoConnection
      BY <2>2, LinkKnown DEF Ends
    <3>2. socket' \in [Connections -> SocketRows] /\ \A d \in Connections : socket'[d].state = socket[d].state
      BY <2>2, <3>1, ClosingKnown, LinkKnown
    <3>3. client' \in [Connections -> ClientRows] /\ \A d \in Connections : client'[d].next = client[d].next
      BY <2>2, <3>1, LinkKnown DEF ClientRows
    <3>4. asked' \in [ServerAsks -> AskedRows] /\ AsksFit'
      <4>1. CASE attached = inUse
        BY <2>2, <4>1, LostKnown, AsksLeft
      <4>2. CASE attached # inUse
        BY <2>2, <4>2, LinkKnown, AsksLeft
      <4>3. QED
        BY <4>1, <4>2
    <3>5. QED
      BY <3>1, <3>2, <3>3, <3>4
  <2>3. QED
    BY <2>1, <2>2 DEF StopRunner
<1>4. InUseFits' /\ NextFits'
  BY <1>1, <1>2, <1>3, LinkKnown, FitsStand
<1>5. QED
  BY <1>1, <1>2, <1>3, <1>4, LinkKnown, LinkStep

\* With the process goes what was in use; the asks stay on sockets that are dead.
LEMMA CrashKeepsLink ==
    ASSUME LinkInv, LinkNext, LinkCrash
    PROVE  LinkInv'
<1>1. /\ linkFaults' \in 0..MaxLinkFaults /\ inUse' = NoConnection /\ attached' = NoConnection
      /\ runner' \in RunnerRows /\ runner'.pc = "idle" /\ backoff' \in BackoffRows
      /\ server' \in [Connections -> ServerRows] /\ UNCHANGED asked
  <2>1. /\ linkFaults < MaxLinkFaults /\ linkFaults' = linkFaults + 1
        /\ inUse' = NoConnection /\ attached' = NoConnection /\ UNCHANGED asked
        /\ runner' = [stopped |-> TRUE, pc |-> "idle", conn |-> NoConnection]
        /\ backoff' = [failures |-> 0, waiting |-> FALSE]
        /\ server' = [c \in Connections |-> [up |-> FALSE, owes |-> {}]]
    BY Zenon DEF LinkCrash
  <2>2. runner' \in RunnerRows /\ runner'.pc = "idle" /\ backoff' \in BackoffRows
    BY <2>1 DEF RunnerRows, BackoffRows, Ends
  <2>3. server' \in [Connections -> ServerRows]
    BY <2>1 DEF ServerRows
  <2>4. linkFaults' \in 0..MaxLinkFaults
    BY <2>1, LinkKnown, LinkAssumption
  <2>5. QED
    BY <2>1, <2>2, <2>3, <2>4
<1>2. client' \in [Connections -> ClientRows] /\ \A d \in Connections : client'[d].next = client[d].next
  BY LinkKnown DEF LinkCrash, ClientRows
<1>3. /\ socket' \in [Connections -> SocketRows]
      /\ \A d \in Connections : socket'[d].state = IF socket[d].state = "unused" THEN "unused" ELSE "dead"
  BY LinkKnown DEF LinkCrash, SocketRows
<1>4. InUseFits'
  BY <1>1 DEF InUseFits, Ends
<1>5. NextFits'
  BY <1>1, <1>2, <1>3 DEF LinkInv, NextFits
<1>6. ASSUME NEW q \in ServerAsks, asked[q].state = "open"
      PROVE  asked[q].conn \in Connections /\ socket[asked[q].conn].state # "unused"
  <2>1. /\ asked[q].conn \in Connections
        /\ socket[asked[q].conn].state # "dead" => asked[q].conn = inUse
    BY <1>6 DEF LinkInv, AsksFit
  <2>2. inUse \in Connections => socket[inUse].state # "unused"
    BY LinkAssumption DEF LinkInv, InUseFits
  <2>3. QED
    BY <2>1, <2>2
<1>7. AsksFit'
  BY <1>1, <1>3, <1>6 DEF AsksFit
<1>8. QED
  BY <1>1, <1>2, <1>3, <1>4, <1>5, <1>7, LinkKnown, LinkStep

LEMMA ConnectKeeps ==
    ASSUME LinkInv, LinkNext, NEW c \in Connections, Connect(c)
    PROVE  LinkInv'
<1>1. /\ UNCHANGED <<server, client, inUse, attached, backoff, asked, linkFaults>> /\ inUse = NoConnection
      /\ socket[c].state = "unused" /\ socket' = [socket EXCEPT ![c].state = "opening"]
      /\ runner' = [runner EXCEPT !.pc = "connecting", !.conn = c]
  BY DEF Connect
<1>2. /\ socket' \in [Connections -> SocketRows] /\ socket'[c].state = "opening"
      /\ \A d \in Connections \ {c} : socket'[d] = socket[d]
  BY <1>1, SocketRow
<1>3. runner' \in RunnerRows /\ runner'.conn = c
  BY <1>1, LinkKnown DEF RunnerRows, Ends
<1>4. client[c].next = 1
  BY <1>1 DEF LinkInv, NextFits
<1>5. NextFits'
  BY <1>1, <1>2, <1>3, <1>4 DEF LinkInv, NextFits
<1>6. InUseFits' /\ AsksFit'
  BY <1>1, LinkKnown, AsksStand DEF LinkInv, InUseFits
<1>7. QED
  BY <1>1, <1>2, <1>3, <1>5, <1>6, LinkKnown, LinkStep

LEMMA HandshakeKeeps ==
    ASSUME LinkInv, LinkNext, NEW c \in Connections, Upgraded(c) \/ HandshakeFails(c)
    PROVE  LinkInv'
<1>1. UNCHANGED <<client, inUse, attached, asked>> /\ socket[c].state = "opening"
  BY DEF Upgraded, HandshakeFails
<1>2. server' \in [Connections -> ServerRows] /\ linkFaults' \in 0..MaxLinkFaults /\ backoff' \in BackoffRows
  <2>1. CASE Upgraded(c)
    BY <2>1, LinkKnown DEF Upgraded
  <2>2. CASE HandshakeFails(c)
    <3>1. server' \in [Connections -> ServerRows]
      BY <2>2, ServerRow DEF HandshakeFails
    <3>2. linkFaults' \in 0..MaxLinkFaults /\ backoff' \in BackoffRows
      BY <2>2, LaterKnown, LinkKnown, LinkAssumption DEF HandshakeFails
    <3>3. QED
      BY <3>1, <3>2
  <2>3. QED
    BY <2>1, <2>2
<1>3. /\ socket' \in [Connections -> SocketRows] /\ socket'[c].state \in {"open", "closed"}
      /\ \A d \in Connections \ {c} : socket'[d] = socket[d]
  BY SocketMoves DEF Upgraded, HandshakeFails
<1>4. /\ runner' \in RunnerRows
      /\ runner' = runner \/ runner'.pc = "idle"
  <2>1. [runner EXCEPT !.pc = "idle", !.conn = NoConnection] \in RunnerRows
        /\ [runner EXCEPT !.pc = "idle", !.conn = NoConnection].pc = "idle"
    BY LinkKnown DEF RunnerRows, Ends
  <2>2. QED
    BY <2>1, LinkKnown DEF Upgraded, HandshakeFails
<1>5. InUseFits'
  BY <1>1, <1>3, <1>4, LinkKnown DEF LinkInv, InUseFits, Ends
<1>6. NextFits'
  BY <1>1, <1>3, <1>4 DEF LinkInv, NextFits
<1>7. AsksFit'
  BY <1>1, AsksStand
<1>8. QED
  BY <1>1, <1>2, <1>3, <1>4, <1>5, <1>6, <1>7, LinkKnown, LinkStep

\* A call is numbered, and pending on both ends when it could be sent.
LEMMA SendCallKnown ==
    ASSUME LinkInv, NEW c \in Connections, client[c].next <= MaxCalls, SendCall(c)
    PROVE  /\ server' \in [Connections -> ServerRows] /\ client' \in [Connections -> ClientRows]
           /\ \A d \in Connections \ {c} : client'[d] = client[d]
<1> DEFINE i == client[c].next
           P == IF CanSend(c) THEN client[c].pending \cup {i} ELSE client[c].pending
           W == IF CanSend(c) /\ server[c].up THEN server[c].owes \cup {i} ELSE server[c].owes
<1>1. client[c] \in ClientRows /\ server[c] \in ServerRows
  BY LinkKnown
<1>2. i \in 1..MaxCalls /\ i + 1 \in 1..(MaxCalls + 1)
  BY <1>1, LinkAssumption DEF ClientRows
<1>3. P \in SUBSET (1..MaxCalls) /\ W \in SUBSET (1..MaxCalls)
  BY <1>1, <1>2 DEF ClientRows, ServerRows
<1>4. /\ client' = [client EXCEPT ![c].transport = TRUE, ![c].next = i + 1, ![c].pending = P]
      /\ server' = [server EXCEPT ![c].owes = W]
  BY DEF SendCall
<1> HIDE DEF i, P, W
<1>5. QED
  BY <1>2, <1>3, <1>4, LinkKnown DEF ClientRows, ServerRows

LEMMA InitializeKeeps ==
    ASSUME LinkInv, LinkNext, NEW c \in Connections, Initialize(c)
    PROVE  LinkInv'
<1>1. /\ UNCHANGED <<socket, inUse, attached, backoff, asked, linkFaults>>
      /\ runner.pc = "connecting" /\ runner.conn = c /\ socket[c].state \in {"open", "closed"} /\ SendCall(c)
      /\ runner' = [runner EXCEPT !.pc = IF CanSend(c) THEN "initializing" ELSE "failed"]
  BY DEF Initialize
<1>2. client[c].next <= MaxCalls
  BY <1>1, LinkAssumption DEF LinkInv, NextFits
<1>3. runner' \in RunnerRows /\ runner'.pc \in {"initializing", "failed"}
  BY <1>1, LinkKnown DEF RunnerRows
<1>4. NextFits'
  BY <1>1, <1>2, <1>3, SendCallKnown DEF LinkInv, NextFits
<1>5. InUseFits' /\ AsksFit'
  BY <1>1, LinkKnown, AsksStand DEF LinkInv, InUseFits
<1>6. QED
  BY <1>1, <1>2, <1>3, <1>4, <1>5, SendCallKnown, LinkKnown, LinkStep

\* Put in use is what was connected while nothing was.
LEMMA AttachKeeps ==
    ASSUME LinkInv, LinkNext, NEW c \in Connections, Attach(c)
    PROVE  LinkInv'
<1>1. /\ UNCHANGED <<server, socket, client, asked, linkFaults>> /\ runner.pc = "initialized"
  BY DEF Attach
<1>2. inUse = NoConnection /\ attached = NoConnection
  BY <1>1, LinkKnown DEF LinkInv, InUseFits
<1>3. \A q \in ServerAsks : asked[q].state = "open" => asked[q].conn # inUse
  BY <1>2, LinkAssumption DEF LinkInv, AsksFit
<1>4. AsksFit'
  BY <1>1, <1>3, AsksLeft
<1>5. backoff' \in BackoffRows
  BY LinkKnown DEF Attach, BackoffRows
<1>6. runner' \in RunnerRows /\ runner'.pc \in {"idle", "failed"}
  BY LinkKnown DEF Attach, RunnerRows, Ends
<1>7. NextFits'
  BY <1>1, <1>6 DEF LinkInv, NextFits
<1>8. InUseFits'
  <2>1. CASE /\ CanSend(c) /\ inUse' = c /\ attached' = c
             /\ runner' = [runner EXCEPT !.pc = "idle", !.conn = NoConnection]
    <3>1. runner'.pc = "idle" /\ socket'[c].state = "open"
      BY <1>1, <2>1, LinkKnown DEF RunnerRows, CanSend
    <3>2. QED
      BY <2>1, <3>1 DEF InUseFits, Ends
  <2>2. CASE UNCHANGED <<inUse, attached>>
    BY <1>2, <2>2, LinkKnown DEF InUseFits
  <2>3. QED
    BY <2>1, <2>2 DEF Attach
<1>9. QED
  BY <1>1, <1>4, <1>5, <1>6, <1>7, <1>8, LinkKnown, LinkStep

LEMMA ConnectFailsKeeps ==
    ASSUME LinkInv, LinkNext, NEW c \in Connections, ConnectFails(c)
    PROVE  LinkInv'
<1>1. UNCHANGED <<server, inUse, attached, asked, linkFaults>> /\ backoff' \in BackoffRows
  BY LaterKnown DEF ConnectFails
<1>2. socket' \in [Connections -> SocketRows] /\ \A d \in Connections : socket'[d].state = socket[d].state
  BY ClosingKnown, LinkKnown DEF ConnectFails
<1>3. client' \in [Connections -> ClientRows] /\ \A d \in Connections : client'[d].next = client[d].next
  BY LinkKnown DEF ConnectFails, ClientRows
<1>4. runner' \in RunnerRows /\ runner'.pc = "idle"
  BY LinkKnown DEF ConnectFails, RunnerRows, Ends
<1>5. InUseFits' /\ NextFits'
  BY <1>1, <1>2, <1>3, <1>4, LinkKnown, FitsStand
<1>6. AsksFit'
  BY <1>1, AsksStand
<1>7. QED
  BY <1>1, <1>2, <1>3, <1>4, <1>5, <1>6, LinkKnown, LinkStep

LEMMA CallKeeps ==
    ASSUME LinkInv, LinkNext, NEW c \in Connections, Call(c)
    PROVE  LinkInv'
<1>1. /\ UNCHANGED <<socket, inUse, attached, runner, backoff, asked, linkFaults>>
      /\ attached = c /\ client[c].next <= MaxCalls /\ SendCall(c)
  BY DEF Call
<1>2. inUse = c /\ runner.pc = "idle" /\ socket[c].state \in {"open", "closed"}
  BY <1>1, LinkKnown, LinkAssumption DEF LinkInv, InUseFits
<1>3. NextFits'
  BY <1>1, <1>2, SendCallKnown DEF LinkInv, NextFits
<1>4. InUseFits' /\ AsksFit'
  BY <1>1, AsksStand DEF LinkInv, InUseFits
<1>5. QED
  BY <1>1, <1>3, <1>4, SendCallKnown, LinkKnown, LinkStep

LEMMA TimesOutKeeps ==
    ASSUME LinkInv, LinkNext, NEW c \in Connections, NEW id \in 1..MaxCalls, CallTimesOut(c, id)
    PROVE  LinkInv'
<1>1. UNCHANGED <<server, socket, inUse, attached, backoff, asked>> /\ linkFaults' \in 0..MaxLinkFaults
  BY LinkKnown, LinkAssumption DEF CallTimesOut
<1>2. client' \in [Connections -> ClientRows] /\ \A d \in Connections : client'[d].next = client[d].next
  BY LinkKnown DEF CallTimesOut, ClientRows
<1>3. RunnerGoesOn
  BY RejectedKnown, LinkKnown DEF CallTimesOut, RunnerGoesOn
<1>4. InUseFits' /\ NextFits'
  BY <1>1, <1>2, <1>3, LinkKnown, FitsStand DEF RunnerGoesOn
<1>5. AsksFit'
  BY <1>1, AsksStand
<1>6. QED
  BY <1>1, <1>2, <1>3, <1>4, <1>5, LinkKnown, LinkStep DEF RunnerGoesOn

LEMMA RespondKeeps ==
    ASSUME LinkInv, LinkNext, NEW q \in ServerAsks, Respond(q)
    PROVE  LinkInv'
<1>1. UNCHANGED <<server, socket, client, inUse, attached, runner, backoff, linkFaults>>
  BY DEF Respond
<1>2. /\ asked' \in [ServerAsks -> AskedRows] /\ asked'[q].state = "answered"
      /\ \A r \in ServerAsks \ {q} : asked'[r] = asked[r]
  BY LinkKnown DEF Respond, AskedRows
<1>3. InUseFits' /\ NextFits'
  BY <1>1 DEF LinkInv, InUseFits, NextFits
<1>4. AsksFit'
  BY <1>1, <1>2, DeadStays DEF LinkInv, AsksFit
<1>5. QED
  BY <1>1, <1>2, <1>3, <1>4, LinkKnown, LinkStep

LEMMA LinkInvInductive ==
    ASSUME LinkInv, [LinkNext]_linkVars
    PROVE  LinkInv'
<1>1. CASE UNCHANGED linkVars
  <2>1. MessagesFit'
    BY MessagesStillFit DEF LinkInv
  <2>2. UNCHANGED <<server, socket, client, inUse, attached, runner, backoff, asked, linkFaults>>
    BY <1>1 DEF linkVars
  <2>3. QED
    BY <2>1, <2>2 DEF LinkInv, InUseFits, NextFits, AsksFit
<1>2. CASE LinkNext
  BY <1>2, ServerKeeps, ReadFrameKeeps, EndKeeps, ReadMessageKeeps, TimeKeeps, StopKeepsLink, CrashKeepsLink, ConnectKeeps,
     HandshakeKeeps, InitializeKeeps, AttachKeeps, ConnectFailsKeeps, CallKeeps, TimesOutKeeps, RespondKeeps DEF LinkNext
<1>3. QED
  BY <1>1, <1>2

LEMMA LinkInvHolds == LinkSpec => []LinkInv
  BY LinkInvInit, LinkInvInductive, PTL DEF LinkSpec

LEMMA LinkInvEnough == LinkInv => LinkTypeOK /\ HeardInOrder /\ OpenOnTheLink
<1> SUFFICES ASSUME LinkInv
             PROVE  LinkTypeOK /\ HeardInOrder /\ OpenOnTheLink
  OBVIOUS
<1>1. ASSUME NEW c \in Connections
      PROVE  ToSet(said[c]) \subseteq ServerMessages /\ IsPrefix(heard[c], said[c])
  <2>1. heard[c] \in Seq(ServerMessages) /\ said[c] \in Seq(ServerMessages) /\ InOrder(heard[c], said[c])
    BY WireKnown DEF LinkInv
  <2>2. ToSet(said[c]) \subseteq ServerMessages
    BY <2>1 DEF ToSet
  <2>3. SubSeq(heard[c], 1, Len(heard[c])) = SubSeq(said[c], 1, Len(heard[c])) /\ Len(heard[c]) <= Len(said[c])
    BY <2>1 DEF InOrder
  <2>4. QED
    BY <2>2, <2>3 DEF IsPrefix
<1>2. HeardInOrder
  BY <1>1 DEF HeardInOrder
<1>3. OpenOnTheLink
  BY DEF LinkInv, AsksFit, OpenOnTheLink
<1>4. LinkTypeOK
  BY <1>1, LinkKnown DEF LinkTypeOK, ServerRows, SocketRows, ClientRows, RunnerRows, BackoffRows, AskedRows, Ends
<1>5. QED
  BY <1>2, <1>3, <1>4

\* The server, the wire, the socket, the client and the runner keep their types.
THEOREM LinkTypeCorrect == LinkSpec => []LinkTypeOK
<1>1. LinkInv => LinkTypeOK
  BY LinkInvEnough
<1>2. QED
  BY <1>1, LinkInvHolds, PTL

\* What the client heard of a connection is the beginning of what the server said
\* on it, however the frames are cut and whichever end closes first.
THEOREM MessagesHeardInOrder == LinkSpec => []HeardInOrder
<1>1. LinkInv => HeardInOrder
  BY LinkInvEnough
<1>2. QED
  BY <1>1, LinkInvHolds, PTL

\* A question of the server that is open belongs to the connection in use, unless
\* the process stopped dead with it and left its row behind.
THEOREM OpenAsksOnTheLink == LinkSpec => []OpenOnTheLink
<1>1. LinkInv => OpenOnTheLink
  BY LinkInvEnough
<1>2. QED
  BY <1>1, LinkInvHolds, PTL

-----------------------------------------------------------------------------
(****************************************************************************)
(* CUTOVER. Why nothing is shown by both: an import reads the rows as the   *)
(* old worker left them, so what it closes is all that was shown or may     *)
(* have been, and the service starts only behind an import.                 *)
(****************************************************************************)

Stages == {"absent", "pending", "publishing", "sent"}

ImportRows == [pc: {"idle", "read", "refused"}, hash: {<<>>} \cup [Items -> Stages], items: SUBSET Items]

\* What was shown, and by whom: the old project marks an item no later than it
\* shows it, the new service when it does.
ShownFits(i) ==
    /\ shown[i] \in {0, 1}
    /\ shown[i] = 1 => old[i] \in {"publishing", "sent"} \/ newRow[i] = "known"
    /\ newRow[i] = "pending" => shown[i] = 0

CutoverInv ==
    /\ CutoverTypeOK
    /\ old \in [Items -> Stages]
    /\ newRow \in [Items -> {"absent", "pending", "known"}]
    /\ shown \in [Items -> Nat]
    /\ import \in [Importers -> ImportRows]
    /\ backup \subseteq {old} /\ (backup # {} => ~oldUp)
    /\ serviceUp => record # NoRecord
    /\ ~serviceUp => \A i \in Items : newRow[i] = "absent"
    /\ record # NoRecord => ~oldUp
    /\ \A j \in Importers : import[j].pc = "read" => ~oldUp
    /\ kind # "evidence" =>
           /\ \A j \in Importers : import[j].pc = "read" => import[j].items = TakenBy(old)
           /\ record # NoRecord => closed = TakenBy(old)
           /\ \A i \in Items : ShownFits(i)

LEMMA CutoverKnown ==
    ASSUME CutoverInv
    PROVE  /\ kind \in {"memo", "deals", "forwarded", "evidence"}
           /\ old \in [Items -> Stages]
           /\ newRow \in [Items -> {"absent", "pending", "known"}]
           /\ shown \in [Items -> Nat]
           /\ import \in [Importers -> ImportRows]
  BY CutoverAssumption DEF CutoverInv, CutoverTypeOK, Stages, ImportRows

\* An import takes every item that was shown, and of the others none is shown.
LEMMA TakenShown ==
    ASSUME CutoverInv
    PROVE  /\ TakenBy(old) \subseteq Items
           /\ kind # "evidence" => \A i \in Items \ TakenBy(old) : old[i] \notin {"publishing", "sent"}
  BY CutoverKnown DEF TakenBy, Stages

\* Of what is not evidence, the day takes nothing away.
LEMMA TakenStands ==
    ASSUME CutoverInv, kind' = kind, old' = old, kind # "evidence"
    PROVE  TakenBy(old)' = TakenBy(old)
<1>1. CASE kind \in {"deals", "forwarded"}
  BY <1>1 DEF TakenBy
<1>2. CASE kind = "memo"
  BY <1>2 DEF TakenBy
<1>3. QED
  BY <1>1, <1>2, CutoverKnown

LEMMA CutoverInvInit == CutoverInit => CutoverInv
<1> SUFFICES ASSUME CutoverInit
             PROVE  CutoverInv
  OBVIOUS
<1>1. /\ kind \in ImportKinds /\ closed = {} /\ record = NoRecord /\ serviceUp = FALSE /\ backup = {}
      /\ old = [i \in Items |-> "absent"] /\ newRow = [i \in Items |-> "absent"] /\ shown = [i \in Items |-> 0]
      /\ import = [j \in Importers |-> NotImporting]
  BY DEF CutoverInit
<1>2. NotImporting \in ImportRows
      /\ NotImporting.pc = "idle"
  BY DEF NotImporting, ImportRows
<1>3. import \in [Importers -> ImportRows]
      /\ \A j \in Importers : import[j].pc = "idle"
  BY <1>1, <1>2
<1>4. CutoverTypeOK
  BY <1>1, <1>3 DEF CutoverTypeOK, NoRecord, Stages, ImportRows
<1>5. \A i \in Items : ShownFits(i)
  BY <1>1 DEF ShownFits
<1>6. old \in [Items -> Stages] /\ newRow \in [Items -> {"absent", "pending", "known"}] /\ shown \in [Items -> Nat]
  BY <1>1 DEF Stages
<1>7. QED
  BY <1>1, <1>3, <1>4, <1>5, <1>6 DEF CutoverInv

\* The old project works while no import has read its rows.
LEMMA OldStepKeeps ==
    ASSUME CutoverInv, NEW i \in Items,
           NEW from \in Stages,
           NEW to \in Stages, NEW sends \in {0, 1},
           OldStep(i, from, to, sends),
           from \in {"publishing", "sent"} => to \in {"publishing", "sent"},
           sends = 1 => to \in {"publishing", "sent"} /\ (from = "publishing" => shown[i] = 0) /\ from # "sent"
    PROVE  CutoverInv'
<1>1. /\ oldUp /\ old[i] = from
      /\ UNCHANGED <<kind, oldUp, backup, import, record, closed, serviceUp, newRow>>
  BY DEF OldStep
<1>2. /\ old' \in [Items -> Stages]
      /\ old'[i] = to /\ \A x \in Items \ {i} : old'[x] = old[x]
  BY CutoverKnown DEF OldStep
<1>3. /\ shown' \in [Items -> Nat]
      /\ shown'[i] = shown[i] + sends /\ \A x \in Items \ {i} : shown'[x] = shown[x]
  BY CutoverKnown DEF OldStep
<1>4. /\ backup = {} /\ record = NoRecord /\ ~serviceUp
      /\ \A x \in Items : newRow[x] = "absent"
      /\ \A j \in Importers : import[j].pc # "read"
  BY <1>1 DEF CutoverInv
<1>5. CutoverTypeOK'
  BY <1>1, <1>2, CutoverKnown DEF CutoverInv, CutoverTypeOK, Stages, ImportRows
<1>6. import' \in [Importers -> ImportRows]
  BY <1>1, CutoverKnown
<1>7. kind # "evidence" => \A x \in Items : ShownFits(x)'
  <2> SUFFICES ASSUME kind # "evidence", NEW x \in Items
               PROVE  ShownFits(x)'
    OBVIOUS
  <2>1. ShownFits(x)
    BY DEF CutoverInv
  <2>2. CASE x # i
    BY <1>1, <1>2, <1>3, <2>1, <2>2 DEF ShownFits
  <2>3. CASE x = i
    <3>1. shown[i] = 1 => from \in {"publishing", "sent"}
      BY <1>1, <1>4, <2>1, <2>3 DEF ShownFits
    <3>2. shown[i] \in {0, 1} /\ (sends = 1 => shown[i] = 0)
      BY <2>1, <2>3, <3>1 DEF ShownFits
    <3>3. shown'[i] \in {0, 1} /\ (shown'[i] = 1 => to \in {"publishing", "sent"})
      BY <1>3, <3>1, <3>2
    <3>4. QED
      BY <1>1, <1>2, <1>4, <2>3, <3>3 DEF ShownFits
  <2>4. QED
    BY <2>2, <2>3
<1>8. QED
  BY <1>1, <1>2, <1>3, <1>4, <1>5, <1>6, <1>7 DEF CutoverInv

LEMMA OldWorkKeeps ==
    ASSUME CutoverInv, NEW i \in Items, OldWork(i)
    PROVE  CutoverInv'
<1>1. CASE OldStep(i, "absent", "pending", 0) \/ OldStep(i, "pending", "publishing", 0)
  BY <1>1, OldStepKeeps DEF Stages
<1>2. CASE shown[i] = 0 /\ OldStep(i, "publishing", "publishing", 1)
  BY <1>2, OldStepKeeps DEF Stages
<1>3. CASE OldStep(i, "publishing", "sent", 0)
  BY <1>3, OldStepKeeps DEF Stages
<1>4. CASE OldStep(i, "pending", "sent", 1)
  BY <1>4, OldStepKeeps DEF Stages
<1>5. QED
  BY <1>1, <1>2, <1>3, <1>4 DEF OldWork

LEMMA StopKeeps ==
    ASSUME CutoverInv, (\E killed \in BOOLEAN : OldStops(killed)) \/ Backup \/ NextDay
    PROVE  CutoverInv'
<1>1. UNCHANGED <<kind, old, import, record, closed, serviceUp, newRow, shown>>
  BY DEF OldStops, Backup, NextDay
<1>2. /\ backup' \subseteq {old} /\ (backup' # {} => ~oldUp')
      /\ ~oldUp => ~oldUp'
  BY DEF OldStops, Backup, NextDay, CutoverInv
<1>3. kind # "evidence" => TakenBy(old)' = TakenBy(old)
  BY <1>1, TakenStands
<1>4. QED
  BY <1>1, <1>2, <1>3 DEF CutoverInv, CutoverTypeOK, ShownFits, Stages, ImportRows

LEMMA ReadSnapshotKeeps ==
    ASSUME CutoverInv, NEW j \in Importers, NEW rows \in backup \cup {main}, ReadSnapshot(j, rows)
    PROVE  CutoverInv'
<1>1. /\ ~oldUp /\ UNCHANGED <<kind, old, oldUp, backup, record, closed, serviceUp, newRow, shown, cutoverDay>>
  BY DEF ReadSnapshot
<1>2. rows = old
  BY DEF ReadSnapshot, Frozen, CutoverInv
<1>3. [pc |-> "read", hash |-> rows, items |-> TakenBy(rows)]
         \in ImportRows
  BY <1>2, TakenShown, CutoverKnown DEF ImportRows
<1>4. /\ import' \in [Importers -> ImportRows]
      /\ import'[j].items = TakenBy(old)
      /\ \A k \in Importers \ {j} : import'[k] = import[k]
  BY <1>2, <1>3, CutoverKnown DEF ReadSnapshot
<1>5. kind # "evidence" => TakenBy(old)' = TakenBy(old)
  BY <1>1, TakenStands
<1>6. CutoverTypeOK'
  BY <1>1, <1>4 DEF CutoverInv, CutoverTypeOK, Stages, ImportRows
<1>7. \A i \in Items : ShownFits(i) => ShownFits(i)'
  BY <1>1 DEF ShownFits
<1>8. QED
  BY <1>1, <1>4, <1>5, <1>6, <1>7 DEF CutoverInv

LEMMA ApplyKeeps ==
    ASSUME CutoverInv, NEW j \in Importers, Apply(j)
    PROVE  CutoverInv'
<1>1. import[j].pc = "read" /\ UNCHANGED <<kind, old, oldUp, backup, serviceUp, newRow, shown, cutoverDay>>
  BY DEF Apply
<1>2. ~oldUp /\ import[j].items \subseteq Items /\ (kind # "evidence" => import[j].items = TakenBy(old))
  BY <1>1, CutoverKnown DEF CutoverInv, ImportRows
<1>3. /\ import' \in [Importers -> ImportRows]
      /\ import'[j].pc # "read"
      /\ \A k \in Importers \ {j} : import'[k] = import[k]
  <2>1. /\ NotImporting \in ImportRows
        /\ NotImporting.pc # "read"
    BY DEF NotImporting, ImportRows
  <2>2. CASE import' = [import EXCEPT ![j] = NotImporting]
    BY <2>1, <2>2, CutoverKnown
  <2>3. CASE import' = [import EXCEPT ![j] = [@ EXCEPT !.pc = "refused"]]
    BY <2>3, CutoverKnown DEF ImportRows
  <2>4. QED
    BY <2>2, <2>3 DEF Apply
<1>4. \/ record = NoRecord /\ record'.items = import[j].items /\ closed' = import[j].items
      \/ record # NoRecord /\ UNCHANGED <<record, closed>>
  BY DEF Apply
<1>5. kind # "evidence" => TakenBy(old)' = TakenBy(old)
  BY <1>1, TakenStands
<1>6. CutoverTypeOK'
  BY <1>1, <1>2, <1>3, <1>4 DEF CutoverInv, CutoverTypeOK, Stages, ImportRows
<1>7. \A i \in Items : ShownFits(i) => ShownFits(i)'
  BY <1>1 DEF ShownFits
<1>8. serviceUp => record' # NoRecord
  BY <1>4 DEF CutoverInv
<1>9. kind # "evidence" /\ record' # NoRecord => closed' = TakenBy(old)
  BY <1>2, <1>4 DEF CutoverInv
<1>10. QED
  BY <1>1, <1>2, <1>3, <1>5, <1>6, <1>7, <1>8, <1>9 DEF CutoverInv

LEMMA LeaveKeeps ==
    ASSUME CutoverInv, NEW j \in Importers, Leave(j)
    PROVE  CutoverInv'
<1>1. UNCHANGED <<kind, old, oldUp, backup, record, closed, serviceUp, newRow, shown, cutoverDay>>
  BY DEF Leave
<1>2. /\ NotImporting \in ImportRows
      /\ NotImporting.pc # "read"
  BY DEF NotImporting, ImportRows
<1>3. /\ import' \in [Importers -> ImportRows]
      /\ import'[j].pc # "read"
      /\ \A k \in Importers \ {j} : import'[k] = import[k]
  BY <1>2, CutoverKnown DEF Leave
<1>4. kind # "evidence" => TakenBy(old)' = TakenBy(old)
  BY <1>1, TakenStands
<1>5. CutoverTypeOK'
  BY <1>1, <1>3 DEF CutoverInv, CutoverTypeOK, Stages, ImportRows
<1>6. \A i \in Items : ShownFits(i) => ShownFits(i)'
  BY <1>1 DEF ShownFits
<1>7. QED
  BY <1>1, <1>3, <1>4, <1>5, <1>6 DEF CutoverInv

LEMMA StartServiceKeeps ==
    ASSUME CutoverInv, StartService
    PROVE  CutoverInv'
<1>1. /\ UNCHANGED <<kind, old, oldUp, backup, import, record, closed, newRow, shown, cutoverDay>>
      /\ record # NoRecord /\ serviceUp' = TRUE
  BY DEF StartService
<1>2. kind # "evidence" => TakenBy(old)' = TakenBy(old)
  BY <1>1, TakenStands
<1>3. CutoverTypeOK' /\ \A i \in Items : ShownFits(i) => ShownFits(i)'
  BY <1>1 DEF CutoverInv, CutoverTypeOK, ShownFits, Stages, ImportRows
<1>4. QED
  BY <1>1, <1>2, <1>3 DEF CutoverInv

LEMMA ServiceKeeps ==
    ASSUME CutoverInv, NEW i \in Items, CollectItem(i) \/ Show(i)
    PROVE  CutoverInv'
<1>1. serviceUp /\ UNCHANGED <<kind, old, oldUp, backup, import, record, closed, serviceUp, cutoverDay>>
  BY DEF CollectItem, Show
<1>2. /\ newRow' \in [Items -> {"absent", "pending", "known"}]
      /\ \A x \in Items \ {i} : newRow'[x] = newRow[x]
  BY CutoverKnown DEF CollectItem, Show
<1>3. /\ shown' \in [Items -> Nat]
      /\ \A x \in Items \ {i} : shown'[x] = shown[x]
  BY CutoverKnown DEF CollectItem, Show
<1>4. kind # "evidence" => TakenBy(old)' = TakenBy(old)
  BY <1>1, TakenStands
<1>5. CutoverTypeOK'
  BY <1>1, <1>2 DEF CutoverInv, CutoverTypeOK, Stages, ImportRows
<1>6. ASSUME kind # "evidence"
      PROVE  ShownFits(i)'
  <2>1. ShownFits(i) /\ closed = TakenBy(old)
    BY <1>1, <1>6 DEF CutoverInv
  <2>2. CASE CollectItem(i)
    <3>1. /\ newRow[i] = "absent" /\ shown'[i] = shown[i] /\ old'[i] = old[i]
          /\ newRow'[i] = (IF i \in closed THEN "known" ELSE "pending")
      BY <2>2, CutoverKnown DEF CollectItem
    <3>2. i \notin closed => shown[i] = 0
      BY <1>6, <2>1, <3>1, TakenShown DEF ShownFits
    <3>3. QED
      BY <2>1, <3>1, <3>2 DEF ShownFits
  <2>3. CASE Show(i)
    <3>1. newRow'[i] = "known" /\ shown'[i] = shown[i] + 1 /\ newRow[i] = "pending"
      BY <2>3, CutoverKnown DEF Show
    <3>2. QED
      BY <2>1, <3>1 DEF ShownFits
  <2>4. QED
    BY <2>2, <2>3
<1>7. \A x \in Items \ {i} : ShownFits(x) => ShownFits(x)'
  BY <1>1, <1>2, <1>3 DEF ShownFits
<1>8. QED
  BY <1>1, <1>2, <1>3, <1>4, <1>5, <1>6, <1>7 DEF CutoverInv

LEMMA CutoverInvInductive ==
    ASSUME CutoverInv, [CutoverNext]_cutoverVars
    PROVE  CutoverInv'
<1>1. CASE UNCHANGED cutoverVars
  <2>1. UNCHANGED <<kind, old, oldUp, backup, import, record, closed, serviceUp, newRow, shown>>
    BY <1>1 DEF cutoverVars
  <2>2. kind # "evidence" => TakenBy(old)' = TakenBy(old)
    BY <2>1, TakenStands
  <2>3. QED
    BY <2>1, <2>2 DEF CutoverInv, CutoverTypeOK, ShownFits
<1>2. QED
  BY <1>1, OldWorkKeeps, StopKeeps, ReadSnapshotKeeps, ApplyKeeps, LeaveKeeps, StartServiceKeeps, ServiceKeeps
  DEF CutoverNext

LEMMA CutoverInvHolds == CutoverSpec => []CutoverInv
  BY CutoverInvInit, CutoverInvInductive, PTL DEF CutoverSpec

LEMMA CutoverInvEnough == CutoverInv => CutoverTypeOK /\ ShownOnceAcross
  BY DEF CutoverInv, ShownOnceAcross, ShownFits

\* The old project, the backup, the import and the new rows keep their types.
THEOREM CutoverTypeCorrect == CutoverSpec => []CutoverTypeOK
<1>1. CutoverInv => CutoverTypeOK
  BY CutoverInvEnough
<1>2. QED
  BY <1>1, CutoverInvHolds, PTL

\* An item that the old project showed is not shown again after the move.
THEOREM MovedItemsShownOnce == CutoverSpec => []ShownOnceAcross
<1>1. CutoverInv => ShownOnceAcross
  BY CutoverInvEnough
<1>2. QED
  BY <1>1, CutoverInvHolds, PTL

-----------------------------------------------------------------------------
(****************************************************************************)
(* MARKET. Why a briefing reports what has closed, and the last close when  *)
(* it says last night: the bar of a session that goes on is left out, the   *)
(* session of a snapshot is one that enough instruments had a bar of, and   *)
(* the next session, unless it is a shortened one, ends more than thirty    *)
(* hours after the opening of this one.                                     *)
(****************************************************************************)

\* What a snapshot claims, whenever it is looked at.
SnapshotFits(s) ==
    s = NoSnapshot \/
        /\ s.session \in TradingDays /\ s.moves \subseteq Instruments
        /\ s.captured \in Nat /\ s.checked \in Nat
        /\ Closing(s.session) <= s.captured
        /\ Cardinality(s.moves \cap Benchmarks) >= MinBenchmarks

MarketInv ==
    /\ now \in Nat /\ now \in Moments \cup {0}
    /\ SnapshotFits(quotes) /\ SnapshotFits(briefed)
    /\ marketHealth \in [status: {"unknown", "ready", "degraded"}, success: -1..now]

LEMMA MarketInvInit == MarketInit => MarketInv
  BY DEF MarketInit, MarketInv, SnapshotFits

\* A set of numbers below a bound has a greatest one: the numbers that the
\* bound exceeds it by have a least one.
LEMMA GreatestExists ==
    ASSUME NEW S \in SUBSET Nat, S # {}, NEW b \in Nat, \A x \in S : x <= b
    PROVE  \E s \in S : \A x \in S : x <= s
<1> DEFINE T == {b - x : x \in S}
<1>1. T \subseteq Nat /\ T # {}
  <2>1. \A x \in S : x \in Nat /\ x <= b
    OBVIOUS
  <2>2. \A x \in S : b - x \in Nat
    BY <2>1
  <2>3. T # {}
    OBVIOUS
  <2>4. QED
    BY <2>2, <2>3
<1>2. PICK t \in T : \A u \in T : ~(<<u, t>> \in OpToRel(<, Nat))
  <2> HIDE DEF T
  <2>1. QED
    BY <1>1, WFMin, NatLessThanWellFounded, Zenon
<1>3. \A u \in T : ~(u < t)
  <2> HIDE DEF T
  <2>1. QED
    BY <1>1, <1>2 DEF OpToRel
<1>4. PICK s \in S : t = b - s
  OBVIOUS
<1>5. \A x \in S : ~(b - x < b - s)
  BY <1>3, <1>4
<1> HIDE DEF T
<1>6. \A x \in S : x <= s
  <2>1. TAKE x \in S
  <2>2. x \in Nat /\ s \in Nat /\ ~(b - x < b - s)
    BY <1>5
  <2>3. QED
    BY <2>2
<1>7. QED
  BY <1>6

LEMMA LeastMoment ==
    ASSUME NEW S \in SUBSET Nat, S # {}
    PROVE  Min(S) \in S
<1>1. PICK s \in S : \A x \in S : ~(<<x, s>> \in OpToRel(<, Nat))
  BY WFMin, NatLessThanWellFounded, Zenon
<1>2. \A x \in S : ~(x < s)
  BY <1>1 DEF OpToRel
<1>3. \A x \in S : s <= x
  BY <1>2
<1>4. QED
  BY <1>3 DEF Min

LEMMA GreatestDay ==
    ASSUME NEW S \in SUBSET Nat, S # {}, NEW b \in Nat, \A x \in S : x <= b
    PROVE  Max(S) \in S /\ \A x \in S : x <= Max(S)
<1>1. PICK s \in S : \A x \in S : x <= s
  BY GreatestExists
<1>2. \A x \in S : s >= x
  BY <1>1
<1>3. QED
  BY <1>2 DEF Max

LEMMA MomentsAreNumbers == Moments \subseteq Nat
<1>1. \A d \in 0..LastDay, i \in Instants : Opening(d) + i \in Nat
  BY MarketAssumption DEF Opening, Day
<1>2. QED
  BY <1>1 DEF Moments

LEMMA WaitKeeps ==
    ASSUME MarketInv, Wait
    PROVE  MarketInv'
<1> DEFINE later == {t \in Moments : t > now}
<1>1. later \in SUBSET Nat /\ later # {} /\ now' = Min(later) /\ UNCHANGED <<quotes, briefed, marketHealth>>
  BY MomentsAreNumbers DEF Wait
<1> HIDE DEF later
<1>2. now' \in later
  BY <1>1, LeastMoment
<1>3. now \in Nat /\ now' \in Moments /\ now' \in Nat /\ now < now'
  BY <1>2, MomentsAreNumbers DEF later, MarketInv
<1>4. -1..now \subseteq -1..now'
  BY <1>3
<1>5. QED
  BY <1>1, <1>3, <1>4 DEF MarketInv, SnapshotFits

\* A session closes on its own day.
LEMMA ClosesOnItsDay ==
    ASSUME NEW d \in Nat
    PROVE  /\ Opening(d) = 48 * d /\ FullClose(d) = 48 * d + 13
           /\ Closing(d) = 48 * d + 7 \/ Closing(d) = 48 * d + 13
           /\ (d \notin ShortDays => Closing(d) = FullClose(d))
  BY DEF Closing, FullClose, Opening, Day

LEMMA EarlierDay == \A d, t \in Nat : (Opening(d) <= t \/ Closing(d) <= t) => d <= t
<1>1. TAKE d \in Nat, t \in Nat
<1>2. Opening(d) = 48 * d /\ (Closing(d) = 48 * d + 7 \/ Closing(d) = 48 * d + 13)
  BY ClosesOnItsDay
<1>3. QED
  BY <1>2

\* The last bar an instrument shows is that of a session that has ended.
LEMMA BarHasClosed ==
    ASSUME now \in Nat, NEW answer, LastBar(answer) # -1
    PROVE  LastBar(answer) \in TradingDays /\ Closing(LastBar(answer)) <= now
<1> DEFINE bars == Observed(answer)
<1>1. Bars(answer) \subseteq TradingDays /\ \A d \in Bars(answer) : Opening(d) <= now
  BY DEF Bars
<1>2. Bars(answer) \in SUBSET Nat /\ \A d \in Bars(answer) : d <= now
  BY <1>1, MarketAssumption, EarlierDay
<1>3. bars \subseteq Bars(answer) /\ bars # {} /\ LastBar(answer) = Max(bars)
  <2>1. LastBar(answer) = Max(bars) /\ ~(Cardinality(bars) < 2)
    BY DEF LastBar
  <2>2. bars # {}
    BY <2>1, FS_EmptySet
  <2>3. QED
    BY <2>1, <2>2 DEF Observed
<1>4. LastBar(answer) \in bars
  BY <1>2, <1>3, GreatestDay
<1> DEFINE d == LastBar(answer)
           m == Max(Bars(answer))
<1>5. d \in Bars(answer) /\ ~(d = m /\ Opening(d) <= now /\ now < Closing(d))
  BY <1>4 DEF Observed
<1>6. m \in Bars(answer) /\ d <= m
  BY <1>2, <1>5, GreatestDay
<1> HIDE DEF d, m
<1>7. d \in Nat /\ m \in Nat /\ Opening(d) <= now /\ Opening(m) <= now
  BY <1>1, <1>2, <1>5, <1>6
<1>8. Closing(d) <= now
  <2>1. CASE d = m
    <3>1. Closing(d) = 48 * d + 7 \/ Closing(d) = 48 * d + 13
      BY <1>7, ClosesOnItsDay
    <3>2. QED
      BY <1>5, <1>7, <2>1, <3>1
  <2>2. CASE d # m
    <3>1. d + 1 <= m
      BY <1>6, <1>7, <2>2
    <3>2. Opening(m) = 48 * m /\ (Closing(d) = 48 * d + 7 \/ Closing(d) = 48 * d + 13)
      BY <1>7, ClosesOnItsDay
    <3>3. QED
      BY <1>7, <3>1, <3>2
  <2>3. QED
    BY <2>1, <2>2
<1>9. QED
  BY <1>1, <1>5, <1>8 DEF d

LEMMA CaptureKeeps ==
    ASSUME MarketInv, NEW shows \in [Instruments -> LastBars], Capture(shows)
    PROVE  MarketInv'
<1> DEFINE aligned == AlignedSessions(shows)
           d == Max(aligned)
<1>1. now \in Nat /\ aligned # {} /\ now' = now
  BY DEF Capture, MarketInv
<1>2. \A x \in aligned : x \in TradingDays /\ Closing(x) <= now
  <2>1. SUFFICES ASSUME NEW x \in aligned
                 PROVE  x \in TradingDays /\ Closing(x) <= now
    OBVIOUS
  <2>2. PICK i \in Instruments : x = shows[i] /\ x # -1
    BY DEF AlignedSessions
  <2>3. PICK answer \in {"late", "now"} : x = LastBar(answer)
    BY <2>2 DEF LastBars
  <2>4. QED
    BY <1>1, <2>2, <2>3, BarHasClosed
<1>3. aligned \in SUBSET Nat /\ \A x \in aligned : x <= now
  BY <1>1, <1>2, MarketAssumption, EarlierDay
<1>4. d \in aligned
  BY <1>1, <1>3, GreatestDay
<1>5. Cardinality(Moved(shows, d) \cap Benchmarks) >= MinBenchmarks
  BY <1>4 DEF AlignedSessions
<1> HIDE DEF aligned, d
<1>6. /\ quotes' = [session |-> d, moves |-> Moved(shows, d), captured |-> now, checked |-> now]
      /\ briefed' = quotes'
      /\ marketHealth' = [status |-> "ready", success |-> now]
  BY DEF Capture, aligned, d
<1>7. d \in TradingDays /\ Closing(d) <= now /\ Moved(shows, d) \subseteq Instruments
  BY <1>2, <1>4 DEF Moved
<1>8. SnapshotFits(quotes') /\ SnapshotFits(briefed')
  BY <1>1, <1>5, <1>6, <1>7 DEF SnapshotFits
<1>9. QED
  BY <1>1, <1>6, <1>8 DEF MarketInv, SnapshotFits

LEMMA CaptureFailsKeeps ==
    ASSUME MarketInv, CaptureFails
    PROVE  MarketInv'
<1>1. UNCHANGED <<now, quotes>> /\ now \in Nat
  BY DEF CaptureFails, MarketInv
<1>2. marketHealth' \in [status: {"unknown", "ready", "degraded"}, success: -1..now]
  BY DEF CaptureFails, MarketInv
<1>3. SnapshotFits(briefed')
  <2>1. CASE briefed' = NoSnapshot
    BY <2>1 DEF SnapshotFits
  <2>2. CASE quotes # NoSnapshot /\ briefed' = [quotes EXCEPT !.checked = now]
    BY <1>1, <2>2 DEF MarketInv, SnapshotFits
  <2>3. QED
    BY <2>1, <2>2 DEF CaptureFails
<1>4. QED
  BY <1>1, <1>2, <1>3 DEF MarketInv, SnapshotFits

LEMMA MarketInvInductive ==
    ASSUME MarketInv, [MarketNext]_marketVars
    PROVE  MarketInv'
<1>1. CASE UNCHANGED marketVars
  BY <1>1 DEF marketVars, MarketInv, SnapshotFits
<1>2. QED
  BY <1>1, WaitKeeps, CaptureKeeps, CaptureFailsKeeps DEF MarketNext

LEMMA MarketInvHolds == MarketSpec => []MarketInv
  BY MarketInvInit, MarketInvInductive, PTL DEF MarketSpec

LEMMA MarketInvEnough == MarketInv => MarketTypeOK /\ LastNightIsLast
<1> SUFFICES ASSUME MarketInv
             PROVE  MarketTypeOK /\ LastNightIsLast
  OBVIOUS
<1>1. MarketTypeOK
  BY DEF MarketInv, MarketTypeOK, SnapshotFits
<1>2. ASSUME briefed # NoSnapshot, Fresh(briefed), NEW d \in TradingDays, d > briefed.session,
             Closing(d) <= briefed.checked
      PROVE  d \in ShortDays /\ d = briefed.session + 1 /\ briefed.checked < FullClose(d)
  <2>1. /\ briefed.session \in Nat /\ briefed.checked \in Nat /\ d \in Nat
        /\ briefed.checked - Opening(briefed.session) <= FreshAge
    BY <1>2, MarketAssumption DEF MarketInv, SnapshotFits, Fresh
  <2>2. briefed.checked <= 48 * briefed.session + 60
    BY <2>1 DEF FreshAge, Hours, Opening, Day
  <2>3. d = briefed.session + 1
    <3>1. Closing(d) = 48 * d + 7 \/ Closing(d) = 48 * d + 13
      BY <2>1, ClosesOnItsDay
    <3>2. QED
      BY <1>2, <2>1, <2>2, <3>1
  <2>4. briefed.checked < FullClose(d)
    BY <2>1, <2>2, <2>3, ClosesOnItsDay
  <2>5. QED
    BY <1>2, <2>1, <2>3, <2>4, ClosesOnItsDay
<1>3. LastNightIsLast
  BY <1>2 DEF MarketInv, SnapshotFits, LastNightIsLast
<1>4. QED
  BY <1>1, <1>3

\* The quotes, the briefings and the clock keep their types.
THEOREM MarketTypeCorrect == MarketSpec => []MarketTypeOK
<1>1. MarketInv => MarketTypeOK
  BY MarketInvEnough
<1>2. QED
  BY <1>1, MarketInvHolds, PTL

\* What a briefing calls last night is the last session there was; a shortened
\* session of the next day alone can have closed since.
THEOREM LastNightIsTheLastSession == MarketSpec => []LastNightIsLast
<1>1. MarketInv => LastNightIsLast
  BY MarketInvEnough
<1>2. QED
  BY <1>1, MarketInvHolds, PTL

-----------------------------------------------------------------------------
(****************************************************************************)
(* BARK TARGETS. Why a change that was acknowledged stands: only the first  *)
(* of the line has read the file, so what it writes is the file of then     *)
(* with one target changed; until it answers, its own target is excused.    *)
(****************************************************************************)

EditTypes == [pc: {"idle", "waits", "read", "written"}, mode: {"create", "update"},
              asks: SUBSET Target, read: Seq(Target)]

\* No id is twice among the targets.
Distinct(targets) == \A m, n \in DOMAIN targets : targets[m].id = targets[n].id => m = n

EditFits(e) ==
    /\ edit[e].pc # "idle" => \E t \in Target : edit[e].asks = {t}
    /\ edit[e].pc \in {"read", "written"} => Turn(e)
    /\ edit[e].pc = "read" => edit[e].read = file
    /\ edit[e].pc = "written" => edit[e].asks \subseteq ToSet(file)

TargetsInv ==
    /\ TargetsTypeOK
    /\ line \in Seq(Editors)
    /\ edit \in [Editors -> EditTypes]
    /\ managerStops \in Nat
    /\ \A e \in Editors : EditFits(e)
    /\ ToldStands

LEMMA TargetsKnown ==
    ASSUME TargetsInv
    PROVE  /\ file \in Seq(Target) /\ Distinct(file)
           /\ line \in Seq(Editors)
           /\ edit \in [Editors -> EditTypes]
           /\ managerStops \in Nat
           /\ audit \subseteq Target /\ told \subseteq Target
  BY DEF TargetsInv, TargetsTypeOK, Distinct

LEMMA NotEditingTyped == NotEditing \in EditTypes /\ NotEditing.pc = "idle"
  BY DEF NotEditing, EditTypes

\* Who stands in the line is an editor.
LEMMA InLine == \A q \in Seq(Editors) : ToSet(q) \subseteq Editors
  BY DEF ToSet

LEMMA TargetsTyped ==
    /\ file' \in Seq(Target) /\ Distinct(file')
    /\ line' \in Seq(Editors) /\ edit' \in [Editors -> EditTypes]
    /\ audit' \subseteq Target /\ told' \subseteq Target
    => TargetsTypeOK'
<1>1. edit' \in [Editors -> EditTypes] => \A e \in Editors : edit'[e].pc \in {"idle", "waits", "read", "written"}
  BY DEF EditTypes
<1>2. QED
  BY <1>1, InLine DEF TargetsTypeOK, Distinct

LEMMA TargetsInvInit == TargetsInit => TargetsInv
<1> SUFFICES ASSUME TargetsInit
             PROVE  TargetsInv
  OBVIOUS
<1>1. /\ file = <<>> /\ line = <<>> /\ told = {} /\ audit = {} /\ managerStops = 0
      /\ edit \in [Editors -> EditTypes] /\ \A e \in Editors : edit[e].pc = "idle"
  BY NotEditingTyped DEF TargetsInit
<1>2. file \in Seq(Target) /\ Distinct(file) /\ line \in Seq(Editors)
  BY <1>1 DEF Distinct
<1>3. TargetsTypeOK
  BY <1>1, <1>2, InLine DEF TargetsTypeOK, Distinct
<1>4. QED
  BY <1>1, <1>2, <1>3 DEF TargetsInv, EditFits, ToldStands

\* What With does: one target is as asked for, and the others stay.
LEMMA WithFits ==
    ASSUME NEW targets \in Seq(Target), Distinct(targets), NEW t \in Target
    PROVE  LET new == With(targets, t)
           IN  /\ new \in Seq(Target) /\ Distinct(new) /\ t \in ToSet(new)
               /\ \A u \in ToSet(targets) : u.id # t.id => u \in ToSet(new)
               /\ \A i \in TargetIds : HasId(targets, i) => HasId(new, i)
<1> DEFINE n == Place(targets, t.id)
           new == With(targets, t)
<1>1. DOMAIN targets = 1..Len(targets) /\ Len(targets) \in Nat
  OBVIOUS
<1>2. /\ n \in 1..Len(targets) + 1
      /\ \A m \in DOMAIN targets : m # n => targets[m].id # t.id
      /\ n \in DOMAIN targets => targets[n].id = t.id
  <2>1. CASE HasId(targets, t.id)
    <3>1. n \in DOMAIN targets /\ targets[n].id = t.id
      BY <2>1 DEF Place, HasId
    <3>2. QED
      BY <1>1, <3>1 DEF Distinct
  <2>2. CASE ~HasId(targets, t.id)
    BY <1>1, <2>2 DEF Place, HasId
  <2>3. QED
    BY <2>1, <2>2
<1>3. PICK k \in Nat : DOMAIN targets \cup {n} = 1..k
  <2>1. CASE n \in DOMAIN targets
    BY <1>1, <2>1
  <2>2. CASE n = Len(targets) + 1
    BY <1>1, <2>2
  <2>3. QED
    BY <1>1, <1>2, <2>1, <2>2
<1>4. /\ new = [m \in DOMAIN targets \cup {n} |-> IF m = n THEN t ELSE targets[m]]
      /\ DOMAIN new = 1..k
  BY <1>3 DEF With
<1>5. \A m \in 1..k : new[m] = IF m = n THEN t ELSE targets[m]
  BY <1>3, <1>4
<1>6. \A m \in 1..k : m # n => m \in DOMAIN targets
  BY <1>3
<1> HIDE DEF n, new
<1>7. new \in Seq(Target)
  <2>1. new \in [1..k -> Target]
    BY <1>1, <1>4, <1>5, <1>6
  <2>2. QED
    BY <2>1, SeqDef
<1>8. Distinct(new)
  BY <1>2, <1>4, <1>5, <1>6 DEF Distinct
<1>9. t \in ToSet(new)
  BY <1>3, <1>4, <1>5 DEF ToSet
<1>10. ASSUME NEW u \in ToSet(targets), u.id # t.id
       PROVE  u \in ToSet(new)
  <2>1. PICK m \in DOMAIN targets : targets[m] = u
    BY <1>10 DEF ToSet
  <2>2. m # n /\ m \in 1..k
    BY <1>2, <1>3, <1>10, <2>1
  <2>3. QED
    BY <1>4, <1>5, <2>1, <2>2 DEF ToSet
<1>11. ASSUME NEW i \in TargetIds, HasId(targets, i)
       PROVE  HasId(new, i)
  <2>1. PICK m \in DOMAIN targets : targets[m].id = i
    BY <1>11 DEF HasId
  <2>2. m \in 1..k /\ new[m].id = i
    BY <1>2, <1>3, <1>5, <2>1
  <2>3. QED
    BY <1>4, <2>2 DEF HasId
<1>12. QED
  BY <1>7, <1>8, <1>9, <1>10, <1>11 DEF new

LEMMA SubmitEditKeeps ==
    ASSUME TargetsInv, NEW e \in Editors, NEW mode \in {"create", "update"}, NEW t \in Target, Submit(e, mode, t)
    PROVE  TargetsInv'
<1>1. /\ edit[e].pc = "idle" /\ line' = Append(line, e)
      /\ UNCHANGED <<file, audit, told, managerStops>>
  BY DEF Submit
<1>2. PICK asking \in EditTypes : /\ asking = [NotEditing EXCEPT !.pc = "waits", !.mode = mode, !.asks = {t}]
                                  /\ asking.pc = "waits" /\ asking.asks = {t}
  <2>1. \A p \in EditTypes :
           LET q == [p EXCEPT !.pc = "waits", !.mode = mode, !.asks = {t}]
           IN  q \in EditTypes /\ q.pc = "waits" /\ q.asks = {t}
    BY DEF EditTypes
  <2>2. QED
    BY <2>1, NotEditingTyped
<1>3. /\ edit' \in [Editors -> EditTypes] /\ edit'[e] = asking
      /\ \A d \in Editors \ {e} : edit'[d] = edit[d]
  BY <1>2, TargetsKnown DEF Submit
<1>4. /\ line' \in Seq(Editors) /\ line' # <<>>
      /\ line # <<>> => Head(line') = Head(line)
  BY <1>1, TargetsKnown, AppendProperties, HeadTailAppend
<1>5. TargetsTypeOK'
  BY <1>1, <1>3, <1>4, TargetsKnown, TargetsTyped
<1>6. ASSUME NEW d \in Editors
      PROVE  EditFits(d)'
  <2>1. CASE d = e
    BY <1>2, <1>3, <2>1 DEF EditFits
  <2>2. CASE d # e
    <3>1. edit'[d] = edit[d] /\ (Turn(d) => Turn(d)')
      BY <1>3, <1>4, <2>2 DEF Turn
    <3>2. QED
      BY <1>1, <3>1 DEF TargetsInv, EditFits
  <2>3. QED
    BY <2>1, <2>2
<1>7. ToldStands'
  BY <1>1, <1>3 DEF TargetsInv, ToldStands
<1>8. QED
  BY <1>1, <1>3, <1>4, <1>5, <1>6, <1>7 DEF TargetsInv

LEMMA ReadFileKeeps ==
    ASSUME TargetsInv, NEW e \in Editors, ReadFile(e)
    PROVE  TargetsInv'
<1>1. /\ edit[e].pc = "waits" /\ Turn(e) /\ UNCHANGED <<file, line, audit, told, managerStops>>
  BY DEF ReadFile
<1>2. edit[e] \in EditTypes /\ file \in Seq(Target)
  BY TargetsKnown
<1>3. PICK reading \in EditTypes : /\ reading = [edit[e] EXCEPT !.pc = "read", !.read = file]
                                   /\ reading.pc = "read" /\ reading.read = file /\ reading.asks = edit[e].asks
  <2>1. \A p \in EditTypes :
           LET q == [p EXCEPT !.pc = "read", !.read = file]
           IN  q \in EditTypes /\ q.pc = "read" /\ q.read = file /\ q.asks = p.asks
    BY <1>2 DEF EditTypes
  <2>2. QED
    BY <1>2, <2>1
<1>4. /\ edit' \in [Editors -> EditTypes] /\ edit'[e] = reading
      /\ \A d \in Editors \ {e} : edit'[d] = edit[d]
  BY <1>3, TargetsKnown DEF ReadFile
<1>5. TargetsTypeOK'
  BY <1>1, <1>4, TargetsKnown, TargetsTyped
<1>6. ASSUME NEW d \in Editors
      PROVE  EditFits(d)'
  <2>1. Turn(d)' <=> Turn(d)
    BY <1>1 DEF Turn
  <2>2. CASE d = e
    BY <1>1, <1>3, <1>4, <2>1, <2>2 DEF TargetsInv, EditFits
  <2>3. CASE d # e
    BY <1>1, <1>4, <2>1, <2>3 DEF TargetsInv, EditFits
  <2>4. QED
    BY <2>2, <2>3
<1>7. ToldStands'
  BY <1>1, <1>4 DEF TargetsInv, ToldStands
<1>8. QED
  BY <1>1, <1>4, <1>5, <1>6, <1>7 DEF TargetsInv

\* When the first of the line goes, nobody has read.
LEMMA GoesLeaves ==
    ASSUME TargetsInv, NEW e \in Editors, Turn(e), Goes(e)
    PROVE  /\ edit' \in [Editors -> EditTypes] /\ line' \in Seq(Editors)
           /\ \A d \in Editors : edit'[d].pc \in {"idle", "waits"}
           /\ \A d \in Editors : edit'[d].pc # "idle" => edit'[d] = edit[d]
           /\ \A d \in Editors \ {e} : edit[d].pc # "written"
<1>1. /\ edit' \in [Editors -> EditTypes] /\ edit'[e].pc = "idle"
      /\ \A d \in Editors \ {e} : edit'[d] = edit[d]
  BY NotEditingTyped, TargetsKnown DEF Goes
<1>2. \A d \in Editors \ {e} : edit[d].pc \in {"idle", "waits"}
  BY TargetsKnown DEF TargetsInv, EditFits, Turn, EditTypes
<1>3. line' \in Seq(Editors)
  BY TargetsKnown, HeadTailProperties DEF Goes, Turn
<1>4. QED
  BY <1>1, <1>2, <1>3

LEMMA RefuseKeeps ==
    ASSUME TargetsInv, NEW e \in Editors, Refuse(e)
    PROVE  TargetsInv'
<1>1. /\ edit[e].pc = "read" /\ Goes(e) /\ UNCHANGED <<file, audit, told, managerStops>>
  BY DEF Refuse
<1>2. Turn(e)
  BY <1>1 DEF TargetsInv, EditFits
<1>3. /\ edit' \in [Editors -> EditTypes] /\ line' \in Seq(Editors)
      /\ \A d \in Editors : edit'[d].pc \in {"idle", "waits"}
      /\ \A d \in Editors : edit'[d].pc # "idle" => edit'[d] = edit[d]
      /\ \A d \in Editors : edit[d].pc # "written"
  BY <1>1, <1>2, GoesLeaves
<1>4. TargetsTypeOK'
  BY <1>1, <1>3, TargetsKnown, TargetsTyped
<1>5. \A d \in Editors : EditFits(d)'
  BY <1>3 DEF TargetsInv, EditFits
<1>6. ToldStands'
  BY <1>1, <1>3 DEF TargetsInv, ToldStands
<1>7. QED
  BY <1>1, <1>3, <1>4, <1>5, <1>6, TargetsKnown DEF TargetsInv

LEMMA WriteFileKeeps ==
    ASSUME TargetsInv, NEW e \in Editors, WriteFile(e)
    PROVE  TargetsInv'
<1>1. edit[e].pc = "read" /\ Turn(e) /\ edit[e].read = file /\ UNCHANGED <<line, audit, told, managerStops>>
  BY DEF WriteFile, TargetsInv, EditFits
<1>2. PICK t \in Target : edit[e].asks = {t}
  BY <1>1 DEF TargetsInv, EditFits
<1>3. file' = With(file, t)
  BY <1>1, <1>2 DEF WriteFile
<1>4. /\ file' \in Seq(Target) /\ Distinct(file') /\ t \in ToSet(file')
      /\ \A u \in ToSet(file) : u.id # t.id => u \in ToSet(file')
      /\ \A i \in TargetIds : HasId(file, i) => HasId(file', i)
  BY <1>3, WithFits, TargetsKnown
<1>5. edit[e] \in EditTypes /\ <<>> \in Seq(Target)
  BY TargetsKnown
<1>6. PICK done \in EditTypes : /\ done = [edit[e] EXCEPT !.pc = "written", !.read = <<>>]
                                /\ done.pc = "written" /\ done.asks = edit[e].asks
  <2>1. \A p \in EditTypes :
           LET q == [p EXCEPT !.pc = "written", !.read = <<>>]
           IN  q \in EditTypes /\ q.pc = "written" /\ q.asks = p.asks
    BY <1>5 DEF EditTypes
  <2>2. QED
    BY <1>5, <2>1
<1>7. /\ edit' \in [Editors -> EditTypes] /\ edit'[e] = done
      /\ \A d \in Editors \ {e} : edit'[d] = edit[d]
  BY <1>6, TargetsKnown DEF WriteFile
<1>8. \A d \in Editors \ {e} : edit[d].pc \in {"idle", "waits"}
  BY <1>1, TargetsKnown DEF TargetsInv, EditFits, Turn, EditTypes
<1>9. TargetsTypeOK'
  BY <1>1, <1>4, <1>7, TargetsKnown, TargetsTyped
<1>10. ASSUME NEW d \in Editors
       PROVE  EditFits(d)'
  <2>1. Turn(d)' <=> Turn(d)
    BY <1>1 DEF Turn
  <2>2. CASE d = e
    <3>1. edit'[d].pc = "written" /\ edit'[d].asks = {t} /\ {t} \subseteq ToSet(file')
      BY <1>2, <1>4, <1>6, <1>7, <2>2
    <3>2. Turn(d)'
      BY <1>1, <2>1, <2>2
    <3>3. QED
      BY <3>1, <3>2 DEF EditFits
  <2>3. CASE d # e
    BY <1>7, <1>8, <2>3 DEF TargetsInv, EditFits
  <2>4. QED
    BY <2>2, <2>3
<1>11. ToldStands'
  <2>1. ASSUME NEW u \in told, u.id # t.id
        PROVE  u \in ToSet(file') \/ (managerStops' > 0 /\ HasId(file', u.id))
    <3>1. u.id \in TargetIds
      BY TargetsKnown DEF Target
    <3>2. u \in ToSet(file) \/ (managerStops > 0 /\ HasId(file, u.id))
      BY <1>1, <1>8 DEF TargetsInv, ToldStands
    <3>3. QED
      BY <1>1, <1>4, <2>1, <3>1, <3>2
  <2>2. edit'[e].pc = "written" /\ edit'[e].asks = {t}
    BY <1>2, <1>6, <1>7
  <2>3. QED
    BY <1>1, <2>1, <2>2 DEF ToldStands
<1>12. QED
  BY <1>1, <1>7, <1>9, <1>10, <1>11, TargetsKnown DEF TargetsInv

LEMMA AcknowledgeKeeps ==
    ASSUME TargetsInv, NEW e \in Editors, Acknowledge(e)
    PROVE  TargetsInv'
<1>1. /\ edit[e].pc = "written" /\ Goes(e) /\ UNCHANGED <<file, managerStops>>
  BY DEF Acknowledge
<1>2. Turn(e) /\ edit[e].asks \subseteq ToSet(file)
  BY <1>1 DEF TargetsInv, EditFits
<1>3. PICK t \in Target : edit[e].asks = {t}
  BY <1>1 DEF TargetsInv, EditFits
<1>4. t \in ToSet(file) /\ audit' = Record(audit, t) /\ told' = Record(told, t)
  BY <1>2, <1>3 DEF Acknowledge
<1>5. /\ audit' \subseteq Target /\ told' \subseteq Target
      /\ \A u \in told' : u = t \/ (u \in told /\ u.id # t.id)
  BY <1>4, TargetsKnown DEF Record
<1>6. /\ edit' \in [Editors -> EditTypes] /\ line' \in Seq(Editors)
      /\ \A d \in Editors : edit'[d].pc \in {"idle", "waits"}
      /\ \A d \in Editors : edit'[d].pc # "idle" => edit'[d] = edit[d]
      /\ \A d \in Editors \ {e} : edit[d].pc # "written"
  BY <1>1, <1>2, GoesLeaves
<1>7. TargetsTypeOK'
  BY <1>1, <1>5, <1>6, TargetsKnown, TargetsTyped
<1>8. \A d \in Editors : EditFits(d)'
  BY <1>6 DEF TargetsInv, EditFits
<1>9. ASSUME NEW u \in told, u.id # t.id
      PROVE  u \in ToSet(file) \/ (managerStops > 0 /\ HasId(file, u.id))
  BY <1>3, <1>6, <1>9 DEF TargetsInv, ToldStands
<1>10. ToldStands'
  BY <1>1, <1>4, <1>5, <1>9 DEF ToldStands
<1>11. QED
  BY <1>1, <1>6, <1>7, <1>8, <1>10, TargetsKnown DEF TargetsInv

LEMMA ManagerStopKeeps ==
    ASSUME TargetsInv, ManagerStop
    PROVE  TargetsInv'
<1>1. /\ managerStops' = managerStops + 1 /\ line' = <<>> /\ UNCHANGED <<file, audit, told>>
      /\ edit' = [e \in Editors |-> NotEditing]
  BY DEF ManagerStop
<1>2. /\ edit' \in [Editors -> EditTypes] /\ \A e \in Editors : edit'[e].pc = "idle"
      /\ line' \in Seq(Editors) /\ managerStops' \in Nat /\ managerStops' > 0
  BY <1>1, NotEditingTyped, TargetsKnown
<1>3. TargetsTypeOK'
  BY <1>1, <1>2, TargetsKnown, TargetsTyped
<1>4. ASSUME NEW t \in told
      PROVE  HasId(file, t.id)
  <2>1. CASE t \in ToSet(file)
    BY <2>1 DEF ToSet, HasId
  <2>2. ASSUME NEW e \in Editors, edit[e].pc = "written", NEW u \in edit[e].asks, u.id = t.id
        PROVE  HasId(file, t.id)
    <3>1. u \in ToSet(file)
      BY <2>2 DEF TargetsInv, EditFits
    <3>2. QED
      BY <2>2, <3>1 DEF ToSet, HasId
  <2>3. QED
    BY <2>1, <2>2 DEF TargetsInv, ToldStands
<1>5. ToldStands'
  BY <1>1, <1>2, <1>4 DEF ToldStands, HasId
<1>6. QED
  BY <1>1, <1>2, <1>3, <1>5 DEF TargetsInv, EditFits

LEMMA TargetsInvInductive ==
    ASSUME TargetsInv, [TargetsNext]_targetVars
    PROVE  TargetsInv'
<1>1. CASE UNCHANGED targetVars
  BY <1>1 DEF targetVars, TargetsInv, TargetsTypeOK, EditFits, Turn, ToldStands
<1>2. QED
  BY <1>1, SubmitEditKeeps, ReadFileKeeps, RefuseKeeps, WriteFileKeeps, AcknowledgeKeeps, ManagerStopKeeps
  DEF TargetsNext

LEMMA TargetsInvHolds == TargetsSpec => []TargetsInv
  BY TargetsInvInit, TargetsInvInductive, PTL DEF TargetsSpec

LEMMA TargetsInvEnough == TargetsInv => TargetsTypeOK /\ ToldStands
  BY DEF TargetsInv

\* The file of targets, the line of changes and the audit keep their types.
THEOREM TargetsTypeCorrect == TargetsSpec => []TargetsTypeOK
<1>1. TargetsInv => TargetsTypeOK
  BY TargetsInvEnough
<1>2. QED
  BY <1>1, TargetsInvHolds, PTL

\* A change of a target that was acknowledged stands in the file, whichever
\* changes wait with it and wherever the manager stops.
THEOREM ChangesStand == TargetsSpec => []ToldStands
<1>1. TargetsInv => ToldStands
  BY TargetsInvEnough
<1>2. QED
  BY <1>1, TargetsInvHolds, PTL

-----------------------------------------------------------------------------
(****************************************************************************)
(* OPERATOR PAGE. Why what is shown belongs to who is logged in: a login    *)
(* that begins or ends makes the requests under way a former login's, and   *)
(* the input of a page that is logged in cannot change without ending it.   *)
(****************************************************************************)

Input == Tokens \cup {NoToken}

PageRows == [view : Views, input : Input, session : Input, remember : BOOLEAN, authenticated : BOOLEAN,
             check : Requests, read : Requests, shown : Input, poll : BOOLEAN]

\* What is known of a page when the tokens S were accepted.
PageFits(p, S) ==
    /\ p \in PageRows
    /\ p.session \in S \cup {NoToken}
    /\ p.authenticated => p.input \in S
    /\ p.shown # NoToken => p.authenticated /\ p.shown = p.input
    /\ p.authenticated /\ p.read.current => p.read.token = p.input
    /\ p.check.step = "accepted" => p.check.token \in S
    /\ p.check.part = 1

PageInv ==
    /\ PageTypeOK
    /\ storageEvents \in [Tabs -> Seq(Input)]
    /\ local \in accepted \cup {NoToken}
    /\ page \in [Tabs -> PageRows]
    /\ \A t \in Tabs : PageFits(page[t], accepted)

LEMMA PageKnown ==
    ASSUME PageInv
    PROVE  /\ secret \in Tokens /\ accepted \subseteq Tokens /\ local \in accepted \cup {NoToken}
           /\ storageEvents \in [Tabs -> Seq(Input)]
           /\ page \in [Tabs -> PageRows]
           /\ \A t \in Tabs : PageFits(page[t], accepted)
  BY DEF PageInv, PageTypeOK

LEMMA RowsKnown ==
    \A p \in PageRows : p.input \in Tokens \cup {NoToken} /\ {p.check, p.read} \subseteq Requests
  BY DEF PageRows, Input

LEMMA PageInvFrom ==
    ASSUME secret \in Tokens, accepted \subseteq Tokens, local \in accepted \cup {NoToken},
           storageEvents \in [Tabs -> Seq(Input)], page \in [Tabs -> PageRows],
           \A t \in Tabs : PageFits(page[t], accepted)
    PROVE  PageInv
<1>1. \A t \in Tabs : page[t].input \in Tokens \cup {NoToken} /\ {page[t].check, page[t].read} \subseteq Requests
  BY DEF PageRows, Input
<1>2. PageTypeOK
  BY <1>1 DEF PageTypeOK, Input
<1>3. QED
  BY <1>2 DEF PageInv

-----------------------------------------------------------------------------
(* What the helpers of the handlers make of a page.                        *)

LEMMA RequestsKnown ==
    /\ NoRequest \in Requests /\ NoRequest.step = "idle" /\ NoRequest.part = 1 /\ NoRequest.current = FALSE
    /\ \A p \in PageRows, part \in {1, 2} :
          /\ Asked(p, part) \in Requests /\ Asked(p, part).step = "asked"
          /\ Asked(p, part).part = part /\ Asked(p, part).token = p.input
    /\ \A r \in Requests : [r EXCEPT !.current = FALSE] \in Requests /\ [r EXCEPT !.current = FALSE].current = FALSE
    /\ \A r \in Requests :
          LET q == [r EXCEPT !.step = "asked", !.part = 2]
          IN  q \in Requests /\ q.token = r.token /\ q.current = r.current
  BY DEF NoRequest, Asked, Requests, PageRows, Input

LEMMA MoreAccepted ==
    ASSUME NEW p, NEW S, NEW T, PageFits(p, S), S \subseteq T
    PROVE  PageFits(p, T)
  BY DEF PageFits

\* Of another request for the token the page still has its state.
LEMMA CheckFits ==
    ASSUME NEW S, NEW p, PageFits(p, S), NEW r \in Requests, r.part = 1, r.step = "accepted" => r.token \in S
    PROVE  LET q == [p EXCEPT !.check = r]
           IN  PageFits(q, S) /\ q.check = r /\ q.input = p.input /\ q.authenticated = p.authenticated
                /\ q.remember = p.remember
  BY DEF PageFits, PageRows

LEMMA ReadFits ==
    ASSUME NEW S, NEW p, PageFits(p, S), NEW r \in Requests, NEW b \in BOOLEAN,
           p.authenticated /\ r.current => r.token = p.input
    PROVE  /\ PageFits([p EXCEPT !.read = r], S)
           /\ PageFits([p EXCEPT !.read = r, !.poll = b], S)
  BY DEF PageFits, PageRows

LEMMA InvalidatedFits ==
    ASSUME NEW S, NEW p, PageFits(p, S)
    PROVE  LET q == Invalidated(p)
           IN  PageFits(q, S) /\ q.authenticated = FALSE /\ q.shown = NoToken /\ q.session = NoToken
<1> DEFINE r == [p.read EXCEPT !.current = FALSE]
           q == Invalidated(p)
<1>1. p \in PageRows /\ r \in Requests /\ r.current = FALSE
  BY RequestsKnown DEF PageFits, PageRows
<1>2. q = [p EXCEPT !.read = r, !.authenticated = FALSE, !.input = NoToken, !.session = NoToken,
                    !.shown = NoToken, !.poll = FALSE]
  BY <1>1 DEF Invalidated, NewRevision, PageRows
<1>3. QED
  BY <1>1, <1>2 DEF PageFits, PageRows, Input

LEMMA RefreshedFits ==
    ASSUME NEW S, NEW p, PageFits(p, S)
    PROVE  PageFits(Refreshed(p), S) /\ PageFits(ViewsRefreshed(p), S)
<1>1. ASSUME NEW q, PageFits(q, S)
      PROVE  PageFits(Refreshed(q), S)
  <2>1. Asked(q, 1) \in Requests /\ Asked(q, 1).token = q.input
    BY <1>1, RequestsKnown DEF PageFits
  <2>2. q.read \in Requests /\ (q.authenticated /\ q.read.current => q.read.token = q.input)
    BY <1>1 DEF PageFits, PageRows
  <2>3. PageFits([q EXCEPT !.read = Asked(q, 1), !.poll = FALSE], S)
    BY <1>1, <2>1, ReadFits
  <2>4. PageFits([q EXCEPT !.poll = FALSE], S)
    BY <1>1 DEF PageFits, PageRows
  <2>5. QED
    BY <2>3, <2>4 DEF Refreshed
<1>2. PageFits([p EXCEPT !.shown = NoToken], S) /\ p \in PageRows
  BY DEF PageFits, PageRows, Input
<1>3. [p EXCEPT !.shown = IF p.view = "home" THEN NoToken ELSE @] \in {p, [p EXCEPT !.shown = NoToken]}
  BY <1>2 DEF PageRows
<1>4. QED
  BY <1>1, <1>2, <1>3 DEF ViewsRefreshed

LEMMA LoadedFits ==
    ASSUME NEW S \in SUBSET Tokens, NEW view \in Views,
           NEW kept \in S \cup {NoToken}, NEW stored \in S \cup {NoToken}
    PROVE  PageFits(Loaded(view, kept, stored), S)
<1> DEFINE found == IF kept # NoToken THEN kept ELSE stored
           blank == [view |-> view, input |-> found, session |-> kept,
                     remember |-> stored # NoToken, authenticated |-> FALSE, check |-> NoRequest,
                     read |-> NoRequest, shown |-> NoToken, poll |-> FALSE]
<1>1. (stored # NoToken) \in BOOLEAN /\ found \in Input /\ kept \in Input
  BY DEF Input
<1>2. blank \in PageRows
  BY <1>1, RequestsKnown DEF PageRows, Input
<1>3. PageFits(blank, S)
  BY <1>2, RequestsKnown DEF PageFits
<1>4. Asked(blank, 1) \in Requests /\ Asked(blank, 1).part = 1 /\ Asked(blank, 1).step = "asked"
  BY <1>2, RequestsKnown
<1>5. PageFits([blank EXCEPT !.check = NoRequest], S) /\ PageFits([blank EXCEPT !.check = Asked(blank, 1)], S)
  BY <1>3, <1>4, CheckFits, RequestsKnown
<1>6. QED
  BY <1>5 DEF Loaded

\* A page that keeps its token, in a login or about to be.
LEMMA KeptFits ==
    ASSUME NEW S, NEW p, PageFits(p, S), p.authenticated
    PROVE  PageFits(Kept(p), S)
  BY DEF PageFits, PageRows, Kept, Input

LEMMA LoggedInFits ==
    ASSUME NEW S, NEW p, PageFits(p, S), p.input \in S
    PROVE  LET q == [NewRevision(p) EXCEPT !.authenticated = TRUE]
           IN  PageFits(q, S) /\ q.authenticated /\ q.input = p.input
<1> DEFINE r == [p.read EXCEPT !.current = FALSE]
           q == [NewRevision(p) EXCEPT !.authenticated = TRUE]
<1>1. p \in PageRows /\ r \in Requests /\ r.current = FALSE
  BY RequestsKnown DEF PageFits, PageRows
<1>2. q = [p EXCEPT !.read = r, !.authenticated = TRUE]
  BY <1>1 DEF NewRevision, PageRows
<1>3. QED
  BY <1>1, <1>2 DEF PageFits, PageRows

-----------------------------------------------------------------------------
(* The steps.                                                              *)

LEMMA PageInvInit == PageInit => PageInv
<1> SUFFICES ASSUME PageInit
             PROVE  PageInv
  OBVIOUS
<1>1. /\ secret \in Tokens /\ accepted = {secret} /\ local \in {NoToken, secret}
      /\ storageEvents = [t \in Tabs |-> <<>>]
  BY DEF PageInit
<1>2. PICK open \in [Tabs -> Views] : page = [t \in Tabs |-> Loaded(open[t], NoToken, local)]
  BY DEF PageInit
<1>3. \A t \in Tabs : page[t] = Loaded(open[t], NoToken, local) /\ open[t] \in Views
  BY <1>2
<1>4. \A t \in Tabs : PageFits(page[t], accepted)
  <2>1. accepted \in SUBSET Tokens /\ NoToken \in accepted \cup {NoToken} /\ local \in accepted \cup {NoToken}
    BY <1>1
  <2>2. ASSUME NEW view \in Views
        PROVE  PageFits(Loaded(view, NoToken, local), accepted)
    BY <2>1, LoadedFits
  <2>3. QED
    BY <2>2, <1>3
<1>5. page \in [Tabs -> PageRows]
  BY <1>2, <1>3, <1>4 DEF PageFits
<1>6. storageEvents \in [Tabs -> Seq(Input)]
  BY <1>1
<1>7. QED
  BY <1>1, <1>4, <1>5, <1>6, PageInvFrom

\* A page becomes another.
LEMMA BecomeKeeps ==
    ASSUME PageInv, NEW t \in Tabs, NEW q, page' = [page EXCEPT ![t] = q], PageFits(q, accepted),
           UNCHANGED <<secret, accepted>>, local' \in accepted \cup {NoToken},
           storageEvents' \in [Tabs -> Seq(Input)]
    PROVE  PageInv'
<1>1. page \in [Tabs -> PageRows] /\ q \in PageRows
  BY PageKnown DEF PageFits
<1>2. page' \in [Tabs -> PageRows] /\ page'[t] = q /\ \A u \in Tabs \ {t} : page'[u] = page[u]
  BY <1>1
<1>3. \A u \in Tabs : PageFits(page'[u], accepted')
  BY <1>2, PageKnown
<1>4. secret' \in Tokens /\ accepted' \subseteq Tokens /\ local' \in accepted' \cup {NoToken}
  BY PageKnown
<1>5. QED
  BY <1>2, <1>3, <1>4, RowsKnown DEF PageInv, PageTypeOK, Input

\* An entry is written that was accepted, or none.
LEMMA SetLocalKeeps ==
    ASSUME PageInv, NEW t \in Tabs, NEW token \in accepted \cup {NoToken}, SetLocal(t, token)
    PROVE  local' \in accepted \cup {NoToken} /\ storageEvents' \in [Tabs -> Seq(Input)]
<1>1. token \in Input /\ storageEvents \in [Tabs -> Seq(Input)]
  BY PageKnown DEF Input
<1>2. \A u \in Tabs : Append(storageEvents[u], token) \in Seq(Input)
  BY <1>1
<1>3. [u \in Tabs |-> IF u = t THEN storageEvents[u] ELSE Append(storageEvents[u], token)] \in [Tabs -> Seq(Input)]
  BY <1>1, <1>2
<1>4. QED
  BY <1>1, <1>3 DEF SetLocal

LEMMA TypeKeeps ==
    ASSUME PageInv, NEW t \in Tabs, NEW token \in Tokens \cup {NoToken}, Type(t, token)
    PROVE  PageInv'
<1>1. SetLocal(t, NoToken) /\ UNCHANGED <<secret, accepted>>
  BY DEF Type
<1>2. PageFits(page[t], accepted) /\ token \in Input
  BY PageKnown DEF Input
<1>3. CASE page[t].authenticated
  <2>1. PageFits(Invalidated(page[t]), accepted) /\ Invalidated(page[t]).authenticated = FALSE
        /\ Invalidated(page[t]).shown = NoToken
    BY <1>2, InvalidatedFits
  <2>2. \A p : PageFits(p, accepted) /\ p.authenticated = FALSE /\ p.shown = NoToken
                  => PageFits([p EXCEPT !.input = token], accepted)
    BY <1>2 DEF PageFits, PageRows
  <2>3. page' = [page EXCEPT ![t] = [Invalidated(page[t]) EXCEPT !.input = token]]
    BY <1>3 DEF Type, Become
  <2>4. QED
    BY <1>1, <2>1, <2>2, <2>3, SetLocalKeeps, BecomeKeeps
<1>4. CASE ~page[t].authenticated
  <2>1. \A p : PageFits(p, accepted) /\ ~p.authenticated
                  => PageFits([p EXCEPT !.input = token, !.session = NoToken], accepted)
    BY <1>2 DEF PageFits, PageRows, Input
  <2>2. page' = [page EXCEPT ![t] = [page[t] EXCEPT !.input = token, !.session = NoToken]]
    BY <1>4 DEF Type, Become
  <2>3. QED
    BY <1>1, <1>2, <1>4, <2>1, <2>2, SetLocalKeeps, BecomeKeeps
<1>5. QED
  BY <1>3, <1>4

LEMMA ToggleKeeps ==
    ASSUME PageInv, NEW t \in Tabs, ToggleRemember(t)
    PROVE  PageInv'
<1> DEFINE p == [page[t] EXCEPT !.remember = ~@]
<1>1. UNCHANGED <<secret, accepted>> /\ PageFits(page[t], accepted)
  BY PageKnown DEF ToggleRemember
<1>2. \A q : PageFits(q, accepted) =>
          LET r == [q EXCEPT !.remember = ~@]
          IN  PageFits(r, accepted) /\ r.authenticated = q.authenticated /\ r.input = q.input
  BY DEF PageFits, PageRows
<1>3. PageFits(p, accepted)
  BY <1>1, <1>2
<1> HIDE DEF p
<1>4. CASE p.authenticated
  <2>1. p.input \in accepted
    BY <1>3, <1>4 DEF PageFits
  <2>2. PageFits(Kept(p), accepted)
    BY <1>3, <1>4, KeptFits
  <2>3. page' = [page EXCEPT ![t] = Kept(p)] /\ StoreToken(t, p.remember, p.input)
    BY <1>4 DEF ToggleRemember, Become, p
  <2>4. PICK token \in accepted \cup {NoToken} : SetLocal(t, token)
    BY <2>1, <2>3 DEF StoreToken
  <2>5. QED
    BY <1>1, <2>2, <2>3, <2>4, SetLocalKeeps, BecomeKeeps
<1>5. CASE ~p.authenticated
  <2>1. page' = [page EXCEPT ![t] = p] /\ UNCHANGED <<local, storageEvents>>
    BY <1>5 DEF ToggleRemember, Become, p
  <2>2. QED
    BY <1>1, <1>3, <2>1, PageKnown, BecomeKeeps
<1>6. QED
  BY <1>4, <1>5

LEMMA SubmitKeeps ==
    ASSUME PageInv, NEW t \in Tabs, SubmitToken(t)
    PROVE  PageInv'
<1>1. UNCHANGED <<secret, accepted>> /\ PageFits(page[t], accepted) /\ page[t] \in PageRows
  BY PageKnown DEF SubmitToken, PageFits
<1>2. CASE page' = [page EXCEPT ![t] = Invalidated(page[t])] /\ SetLocal(t, NoToken)
  BY <1>1, <1>2, InvalidatedFits, SetLocalKeeps, BecomeKeeps
<1>3. CASE /\ page' = [page EXCEPT ![t] = [page[t] EXCEPT !.check = Asked(page[t], 1)]]
           /\ UNCHANGED <<local, storageEvents>>
  <2>1. Asked(page[t], 1) \in Requests /\ Asked(page[t], 1).part = 1 /\ Asked(page[t], 1).step = "asked"
    BY <1>1, RequestsKnown
  <2>2. PageFits([page[t] EXCEPT !.check = Asked(page[t], 1)], accepted)
    BY <1>1, <2>1, CheckFits
  <2>3. QED
    BY <1>1, <1>3, <2>2, PageKnown, BecomeKeeps
<1>4. QED
  BY <1>2, <1>3 DEF SubmitToken, Become

LEMMA LogoutKeeps ==
    ASSUME PageInv, NEW t \in Tabs, Logout(t)
    PROVE  PageInv'
<1>1. PageFits(ViewsRefreshed(Invalidated(page[t])), accepted)
  BY PageKnown, InvalidatedFits, RefreshedFits
<1>2. QED
  BY <1>1, SetLocalKeeps, BecomeKeeps DEF Logout, Become

LEMMA ReloadKeeps ==
    ASSUME PageInv, NEW t \in Tabs, Reload(t)
    PROVE  PageInv'
<1>1. page[t].view \in Views /\ page[t].session \in accepted \cup {NoToken}
  BY PageKnown DEF PageFits, PageRows
<1>2. PageFits(Loaded(page[t].view, page[t].session, local), accepted)
  BY <1>1, PageKnown, LoadedFits
<1>3. storageEvents' \in [Tabs -> Seq(Input)]
  <2>1. <<>> \in Seq(Input)
    OBVIOUS
  <2>2. QED
    BY <2>1, PageKnown DEF Reload
<1>4. QED
  BY <1>2, <1>3, PageKnown, BecomeKeeps DEF Reload, Become

LEMMA RotateKeeps ==
    ASSUME PageInv, Rotate
    PROVE  PageInv'
<1>1. secret' \in Tokens /\ UNCHANGED <<accepted, local, storageEvents, page>>
  BY DEF Rotate
<1>2. QED
  BY <1>1 DEF PageInv, PageTypeOK

LEMMA ServeKeeps ==
    ASSUME PageInv, NEW t \in Tabs, NEW req \in {"check", "read"}, ServeRequest(t, req) \/ Lose(t, req)
    PROVE  PageInv'
<1>1. UNCHANGED <<secret, local, storageEvents>> /\ page \in [Tabs -> PageRows]
      /\ PageFits(page[t], accepted) /\ page[t] \in PageRows
  BY PageKnown DEF ServeRequest, Lose, PageFits
<1>2. CASE req = "read"
  <2>1. accepted' = accepted
    BY <1>2 DEF ServeRequest, Lose
  <2>2. PICK s \in {"accepted", "denied", "lost"} : page' = [page EXCEPT ![t][req].step = s]
    BY DEF ServeRequest, Lose, Verdict
  <2>3. PICK r \in Requests : r = [page[t].read EXCEPT !.step = s]
                              /\ r.token = page[t].read.token /\ r.current = page[t].read.current
    <3>1. page[t].read \in Requests
      BY <1>1 DEF PageRows
    <3>2. \A r \in Requests : LET q == [r EXCEPT !.step = s]
                              IN  q \in Requests /\ q.token = r.token /\ q.current = r.current
      BY DEF Requests
    <3>3. QED
      BY <3>1, <3>2
  <2>4. page' = [page EXCEPT ![t] = [page[t] EXCEPT !.read = r]]
    BY <1>1, <1>2, <2>2, <2>3 DEF PageRows
  <2>5. PageFits([page[t] EXCEPT !.read = r], accepted)
    <3>1. page[t].authenticated /\ r.current => r.token = page[t].input
      BY <1>1, <2>3 DEF PageFits
    <3>2. QED
      BY <1>1, <3>1, ReadFits
  <2>6. QED
    BY <1>1, <2>1, <2>4, <2>5, PageKnown, BecomeKeeps
<1>3. CASE req = "check"
  <2>1. PICK s \in {"accepted", "denied", "lost"} :
            /\ page' = [page EXCEPT ![t][req].step = s]
            /\ accepted' = accepted \cup IF s = "accepted" THEN {page[t].check.token} ELSE {}
            /\ s = "accepted" => page[t].check.token \in Tokens
    <3>1. CASE ServeRequest(t, req)
      <4>1. Verdict(t, req) = "accepted" => page[t].check.token = secret
        BY <1>1, <1>3 DEF Verdict, PageFits
      <4>2. Verdict(t, req) \in {"accepted", "denied"}
        BY DEF Verdict
      <4>3. QED
        BY <1>3, <3>1, <4>1, <4>2, PageKnown DEF ServeRequest
    <3>2. CASE Lose(t, req)
      BY <3>2 DEF Lose
    <3>3. QED
      BY <3>1, <3>2
  <2>2. PICK r \in Requests : /\ r = [page[t].check EXCEPT !.step = s] /\ r.step = s
                              /\ r.part = page[t].check.part /\ r.token = page[t].check.token
    <3>1. page[t].check \in Requests
      BY <1>1 DEF PageRows
    <3>2. \A r \in Requests : LET q == [r EXCEPT !.step = s]
                              IN  q \in Requests /\ q.step = s /\ q.part = r.part /\ q.token = r.token
      BY DEF Requests
    <3>3. QED
      BY <3>1, <3>2
  <2>3. page' = [page EXCEPT ![t] = [page[t] EXCEPT !.check = r]]
    BY <1>1, <1>3, <2>1, <2>2 DEF PageRows
  <2>4. accepted \subseteq accepted' /\ accepted' \subseteq Tokens /\ (s = "accepted" => r.token \in accepted')
    BY <2>1, <2>2, PageKnown
  <2>5. \A u \in Tabs : PageFits(page[u], accepted')
    BY <2>4, PageKnown, MoreAccepted
  <2>6. PageFits([page[t] EXCEPT !.check = r], accepted')
    <3>1. r.part = 1
      BY <1>1, <2>2 DEF PageFits
    <3>2. QED
      BY <2>2, <2>4, <2>5, <3>1, CheckFits
  <2>7. [page[t] EXCEPT !.check = r] \in PageRows
    BY <2>6 DEF PageFits
  <2>8. page' \in [Tabs -> PageRows] /\ \A u \in Tabs : PageFits(page'[u], accepted')
    BY <1>1, <2>3, <2>5, <2>6, <2>7
  <2>9. secret' \in Tokens /\ local' \in accepted' \cup {NoToken} /\ storageEvents' \in [Tabs -> Seq(Input)]
    BY <1>1, <2>4, PageKnown
  <2>10. QED
    BY <2>4, <2>8, <2>9, RowsKnown DEF PageInv, PageTypeOK, Input
<1>4. QED
  BY <1>2, <1>3

\* The token of an accepted check is the input's, and becomes the login's.
LEMMA EndCheckKeeps ==
    ASSUME PageInv, NEW t \in Tabs, EndCheck(t)
    PROVE  PageInv'
<1> DEFINE p == [page[t] EXCEPT !.check = NoRequest]
           q == [NewRevision(p) EXCEPT !.authenticated = TRUE]
<1>1. UNCHANGED <<secret, accepted>> /\ PageFits(page[t], accepted)
  BY PageKnown DEF EndCheck
<1>2. PageFits(p, accepted) /\ p.input = page[t].input
  <2>1. NoRequest \in Requests /\ NoRequest.part = 1 /\ NoRequest.step # "accepted"
    BY RequestsKnown
  <2>2. QED
    BY <1>1, <2>1, CheckFits
<1> HIDE DEF p
<1>3. CASE page[t].check.step = "accepted" /\ InputUnchanged(page[t])
  <2>1. page[t].check.token \in accepted /\ p.input = page[t].check.token
    BY <1>1, <1>2, <1>3 DEF PageFits, InputUnchanged
  <2>2. PageFits(q, accepted) /\ q.authenticated
    BY <1>2, <2>1, LoggedInFits
  <2> HIDE DEF q
  <2>3. PageFits(ViewsRefreshed(Kept(q)), accepted)
    BY <2>2, KeptFits, RefreshedFits
  <2>4. page' = [page EXCEPT ![t] = ViewsRefreshed(Kept(q))] /\ StoreToken(t, p.remember, page[t].check.token)
    BY <1>3 DEF EndCheck, Become, p, q
  <2>5. PICK token \in accepted \cup {NoToken} : SetLocal(t, token)
    BY <2>1, <2>4 DEF StoreToken
  <2>6. QED
    BY <1>1, <2>3, <2>4, <2>5, SetLocalKeeps, BecomeKeeps
<1>4. CASE ~(page[t].check.step = "accepted" /\ InputUnchanged(page[t]))
  <2>1. PageFits(Invalidated(p), accepted)
    BY <1>2, InvalidatedFits
  <2>2. page' = [page EXCEPT ![t] = Invalidated(p)] /\ SetLocal(t, NoToken)
    BY <1>4 DEF EndCheck, Become, p
  <2>3. QED
    BY <1>1, <2>1, <2>2, SetLocalKeeps, BecomeKeeps
<1>5. QED
  BY <1>3, <1>4

LEMMA DeniedKeeps ==
    ASSUME PageInv, NEW t \in Tabs, Denied(t)
    PROVE  PageInv'
<1>1. PageFits(Invalidated(page[t]), accepted)
  BY PageKnown, InvalidatedFits
<1>2. PageFits([Invalidated(page[t]) EXCEPT !.read = NoRequest], accepted)
  BY <1>1, ReadFits, RequestsKnown
<1>3. QED
  BY <1>2, SetLocalKeeps, BecomeKeeps DEF Denied, Become

\* A page that drops its request: what is shown then must be its login's.
LEMMA DroppedFits ==
    ASSUME NEW S, NEW p, PageFits(p, S)
    PROVE  /\ PageFits(Dropped(p), S)
           /\ p.authenticated => PageFits([Dropped(p) EXCEPT !.shown = p.input], S)
<1>1. PICK b \in BOOLEAN : Dropped(p) = [p EXCEPT !.read = NoRequest, !.poll = b]
  <2>1. (p.view = "codex" /\ p.authenticated) \in BOOLEAN
    BY Zenon
  <2>2. QED
    BY <2>1 DEF Dropped
<1>2. PageFits(Dropped(p), S)
  <2>1. NoRequest \in Requests /\ ~NoRequest.current
    BY RequestsKnown
  <2>2. PageFits([p EXCEPT !.read = NoRequest, !.poll = b], S)
    BY <2>1, ReadFits
  <2>3. QED
    BY <1>1, <2>2
<1>3. p.authenticated => Dropped(p).authenticated /\ Dropped(p).input = p.input
  BY <1>1 DEF PageFits, PageRows
<1>4. \A q : PageFits(q, S) /\ q.authenticated => PageFits([q EXCEPT !.shown = q.input], S)
  BY DEF PageFits, PageRows, Input
<1>5. QED
  BY <1>2, <1>3, <1>4

LEMMA EndReadKeeps ==
    ASSUME PageInv, NEW t \in Tabs, EndRead(t)
    PROVE  PageInv'
<1> DEFINE p == page[t]
<1>1. PageFits(p, accepted) /\ p \in PageRows /\ UNCHANGED <<secret, accepted, local, storageEvents>>
  BY PageKnown DEF EndRead, PageFits
<1>2. CASE page' = [page EXCEPT ![t] = Dropped(p)]
  BY <1>1, <1>2, DroppedFits, PageKnown, BecomeKeeps
<1>3. CASE Same(p, p.read) /\ page' = [page EXCEPT ![t] = Continued(p)]
  <2>1. p.authenticated /\ p.read.token = p.input
    BY <1>1, <1>3 DEF Same, PageFits
  <2>2. PageFits([p EXCEPT !.read = Asked(p, 2)], accepted)
    BY <1>1, ReadFits, RequestsKnown
  <2>3. PageFits([p EXCEPT !.read = [@ EXCEPT !.step = "asked", !.part = 2]], accepted)
    <3>1. PICK r \in Requests : r = [p.read EXCEPT !.step = "asked", !.part = 2] /\ r.token = p.read.token
      <4>1. p.read \in Requests
        BY <1>1 DEF PageRows
      <4>2. QED
        BY <4>1, RequestsKnown
    <3>2. PageFits([p EXCEPT !.read = r], accepted)
      BY <1>1, <2>1, <3>1, ReadFits
    <3>3. QED
      BY <3>1, <3>2
  <2>4. PageFits(Continued(p), accepted)
    BY <2>2, <2>3 DEF Continued
  <2>5. QED
    BY <1>1, <1>3, <2>4, PageKnown, BecomeKeeps
<1>4. CASE Same(p, p.read) /\ page' = [page EXCEPT ![t] = [Dropped(p) EXCEPT !.shown = p.read.token]]
  <2>1. p.authenticated /\ p.read.token = p.input
    BY <1>1, <1>4 DEF Same, PageFits
  <2>2. PageFits([Dropped(p) EXCEPT !.shown = p.read.token], accepted)
    BY <1>1, <2>1, DroppedFits
  <2>3. QED
    BY <1>1, <1>4, <2>2, PageKnown, BecomeKeeps
<1>5. QED
  BY <1>2, <1>3, <1>4 DEF EndRead, Become

LEMMA ViewKeeps ==
    ASSUME PageInv, NEW t \in Tabs, AskPicture(t) \/ Poll(t)
    PROVE  PageInv'
<1>1. UNCHANGED <<secret, accepted, local, storageEvents>> /\ PageFits(page[t], accepted)
  BY PageKnown DEF AskPicture, Poll
<1>2. PageFits([page[t] EXCEPT !.read = Asked(page[t], 1)], accepted)
  <2>1. Asked(page[t], 1) \in Requests /\ Asked(page[t], 1).token = page[t].input
    BY <1>1, RequestsKnown DEF PageFits
  <2>2. QED
    BY <1>1, <2>1, ReadFits
<1>3. PageFits(Refreshed(page[t]), accepted)
  BY <1>1, RefreshedFits
<1>4. QED
  BY <1>1, <1>2, <1>3, PageKnown, BecomeKeeps DEF AskPicture, Poll, Become

LEMMA HearKeeps ==
    ASSUME PageInv, NEW t \in Tabs, Hear(t)
    PROVE  PageInv'
<1>1. UNCHANGED <<secret, accepted, local>> /\ PageFits(page[t], accepted)
  BY PageKnown DEF Hear
<1>2. storageEvents' \in [Tabs -> Seq(Input)]
  <2>1. storageEvents[t] \in Seq(Input) /\ storageEvents[t] # <<>>
    BY PageKnown DEF Hear
  <2>2. Tail(storageEvents[t]) \in Seq(Input)
    BY <2>1
  <2>3. QED
    BY <2>2, PageKnown DEF Hear
<1>3. PageFits(ViewsRefreshed(Invalidated(page[t])), accepted)
  BY <1>1, InvalidatedFits, RefreshedFits
<1>4. \E q : page' = [page EXCEPT ![t] = q] /\ PageFits(q, accepted)
  BY <1>1, <1>3 DEF Hear, Become
<1>5. QED
  BY <1>1, <1>2, <1>4, PageKnown, BecomeKeeps

LEMMA PageInvInductive ==
    ASSUME PageInv, [PageNext]_pageVars
    PROVE  PageInv'
<1>1. CASE UNCHANGED pageVars
  BY <1>1 DEF pageVars, PageInv, PageTypeOK
<1>2. QED
  BY <1>1, TypeKeeps, ToggleKeeps, SubmitKeeps, LogoutKeeps, ReloadKeeps, RotateKeeps, ServeKeeps,
     EndCheckKeeps, DeniedKeeps, EndReadKeeps, ViewKeeps, HearKeeps DEF PageNext

LEMMA PageInvHolds == PageSpec => []PageInv
  BY PageInvInit, PageInvInductive, PTL DEF PageSpec

LEMMA PageInvEnough == PageInv => PageTypeOK /\ ShownToItsReader
<1> SUFFICES ASSUME PageInv
             PROVE  PageTypeOK /\ ShownToItsReader
  OBVIOUS
<1>1. ShownToItsReader
  BY PageKnown DEF PageFits, ShownToItsReader
<1>2. QED
  BY <1>1 DEF PageInv

\* The secrets, the stored sessions and what the pages show keep their types.
THEOREM PageTypeCorrect == PageSpec => []PageTypeOK
<1>1. PageInv => PageTypeOK
  BY PageInvEnough
<1>2. QED
  BY <1>1, PageInvHolds, PTL

\* A page shows what the token of its login may read, whatever is answered after
\* the token was changed in another tab.
THEOREM PagesShowTheirReader == PageSpec => []ShownToItsReader
<1>1. PageInv => ShownToItsReader
  BY PageInvEnough
<1>2. QED
  BY <1>1, PageInvHolds, PTL

-----------------------------------------------------------------------------
(****************************************************************************)
(* BRIEFINGS. Why all receivers of a day's briefing get one text: a window  *)
(* is claimed before its briefing is written, the briefing is stored before *)
(* the first send, and what is sent later is what was stored.               *)
(****************************************************************************)

Writing == {"gate", "collecting", "evaluating", "storing"}

\* What is known of the minute's call of runDue.
MinuteInv ==
    /\ minute.pc \in Writing => /\ Kind \in claimed
                                /\ brief[Kind].state = "absent"
                                /\ \A r \in Receivers : got[Kind][r] = {}
    /\ minute.pc = "storing" => minute.text # 0
    /\ minute.pc = "sending" => Pending(Kind) /\ minute.text = brief[Kind].text
    /\ minute.flying # {} => minute.pc = "sending"

\* What is known of a briefing.
BriefsInv ==
    \A k \in Kinds :
        /\ k \notin claimed => brief[k].state = "absent"
        /\ Pending(k) => brief[k].text # 0
        /\ \A r \in Receivers : got[k][r] # {} =>
               /\ brief[k].state \in {"pending", "completed"}
               /\ got[k][r] \subseteq {brief[k].text}

BriefInv == BriefTypeOK /\ MinuteInv /\ BriefsInv

MinuteTypes == [pc : MinuteSteps, kind : Kinds, text : 0..MaxTexts, attempts : 0..1,
                todo : SUBSET Receivers, flying : SUBSET Receivers, failed : BOOLEAN]

BriefTypes == [state : {"absent", "pending", "completed", "failed"}, text : 0..MaxTexts]

LEMMA NoMinuteType ==
    /\ NoMinute \in MinuteTypes /\ NoMinute.pc = "idle" /\ NoMinute.flying = {}
    /\ NoBrief \in BriefTypes /\ NoBrief.state = "absent"
<1>1. 0 \in 0..MaxTexts /\ 0 \in 0..1 /\ 1 \in Kinds
  BY BriefAssumption
<1>2. QED
  BY <1>1 DEF NoMinute, NoBrief, MinuteTypes, MinuteSteps, BriefTypes

LEMMA BriefInvInit == BriefInit => BriefInv
<1> SUFFICES ASSUME BriefInit
             PROVE  BriefInv
  OBVIOUS
<1>1. /\ brief \in [Kinds -> BriefTypes] /\ \A k \in Kinds : brief[k].state = "absent"
      /\ minute \in MinuteTypes /\ minute.pc = "idle" /\ minute.flying = {}
  BY NoMinuteType DEF BriefInit
<1>2. /\ got \in [Kinds -> [Receivers -> SUBSET (1..MaxTexts)]]
      /\ \A k \in Kinds, r \in Receivers : got[k][r] = {}
  BY DEF BriefInit
<1>3. row \in [Kinds -> [Receivers -> {"absent", "executing", "completed", "failed", "uncertain"}]]
  BY DEF BriefInit
<1>4. phase \in [Kinds -> {"early", "due", "late"}] /\ texts \in 0..MaxTexts /\ stops \in 0..MaxStops
  BY BriefAssumption DEF BriefInit
<1>5. QED
  BY <1>1, <1>2, <1>3, <1>4
  DEF BriefInit, BriefInv, BriefTypeOK, MinuteInv, BriefsInv, MinuteTypes, BriefTypes, Writing, Pending

LEMMA GateMinute ==
    ASSUME NEW m \in MinuteTypes, NEW j \in Kinds
    PROVE  /\ [m EXCEPT !.pc = "gate", !.kind = j] \in MinuteTypes
           /\ [m EXCEPT !.pc = "gate", !.kind = j].pc = "gate"
           /\ [m EXCEPT !.pc = "gate", !.kind = j].kind = j
           /\ [m EXCEPT !.pc = "gate", !.kind = j].flying = m.flying
  BY DEF MinuteTypes, MinuteSteps

\* A minute that begins: with a window claimed or with the pending briefing.
LEMMA BeginKeeps ==
    ASSUME BriefInv, NEW k \in Kinds, ClaimWindow(k) \/ RetryDelivery(k)
    PROVE  BriefInv'
<1>1. CASE ClaimWindow(k)
  <2>1. k \notin claimed
    BY <1>1 DEF ClaimWindow, First, Serves
  <2>2. minute' \in MinuteTypes /\ minute'.pc = "gate" /\ minute'.kind = k /\ minute'.flying = {}
    BY <1>1, GateMinute, NoMinuteType DEF ClaimWindow
  <2>3. brief[k].state = "absent" /\ \A r \in Receivers : got[k][r] = {}
    BY <2>1 DEF BriefInv, BriefsInv
  <2>4. BriefTypeOK' /\ BriefsInv'
    BY <1>1, <2>2 DEF ClaimWindow, BriefInv, BriefTypeOK, BriefsInv, MinuteTypes, Pending
  <2>5. MinuteInv'
    BY <1>1, <2>2, <2>3 DEF ClaimWindow, MinuteInv, Writing, Kind
  <2>6. QED
    BY <2>4, <2>5 DEF BriefInv
<1>2. CASE RetryDelivery(k)
  <2>1. brief[k].text \in 0..MaxTexts /\ listed \in SUBSET Receivers
    BY DEF BriefInv, BriefTypeOK
  <2>2. /\ minute' \in MinuteTypes /\ minute'.pc = "sending" /\ minute'.kind = k
        /\ minute'.text = brief[k].text /\ minute'.flying = {}
    BY <1>2, <2>1, NoMinuteType DEF RetryDelivery, MinuteTypes, MinuteSteps
  <2>3. BriefTypeOK' /\ BriefsInv'
    BY <1>2, <2>2 DEF RetryDelivery, BriefInv, BriefTypeOK, BriefsInv, MinuteTypes, Pending
  <2>4. MinuteInv'
    BY <1>2, <2>2 DEF RetryDelivery, MinuteInv, Writing, Kind, Pending
  <2>5. QED
    BY <2>3, <2>4 DEF BriefInv
<1>3. QED
  BY <1>1, <1>2

\* A briefing in the making: nothing of it was sent before it is stored.
LEMMA WriteKeeps ==
    ASSUME BriefInv, Gate \/ Collect \/ Evaluate \/ Store
    PROVE  BriefInv'
<1>1. /\ Kind \in Kinds /\ minute \in MinuteTypes /\ minute.pc \in Writing /\ minute.flying = {}
      /\ brief \in [Kinds -> BriefTypes]
  BY DEF BriefInv, BriefTypeOK, MinuteInv, Writing, Gate, Collect, Evaluate, Store, Kind,
         MinuteTypes, BriefTypes
<1>2. Kind \in claimed /\ \A r \in Receivers : got[Kind][r] = {}
  BY <1>1 DEF BriefInv, MinuteInv
<1>3. UNCHANGED <<phase, claimed, row, got, scan, listed, stops>>
  BY DEF Gate, Collect, Evaluate, Store
<1>4. ASSUME minute' \in MinuteTypes, minute'.flying = {}, minute'.kind = Kind,
             minute'.pc \in Writing, minute'.pc = "storing" => minute'.text # 0,
             texts' \in 0..MaxTexts, UNCHANGED brief
      PROVE  BriefInv'
  <2>1. BriefTypeOK' /\ BriefsInv'
    BY <1>3, <1>4 DEF BriefInv, BriefTypeOK, BriefsInv, MinuteTypes, Pending
  <2>2. MinuteInv'
    BY <1>1, <1>2, <1>3, <1>4 DEF BriefInv, MinuteInv, Kind, Writing
  <2>3. QED
    BY <2>1, <2>2 DEF BriefInv
<1>5. ASSUME NEW b \in BriefTypes, brief' = [brief EXCEPT ![Kind] = b],
             b.state = "pending" => b.text # 0,
             minute' \in MinuteTypes, minute'.flying = {},
             \/ minute'.pc = "idle"
             \/ /\ minute'.pc = "sending" /\ minute'.kind = Kind
                /\ b.state = "pending" /\ minute'.text = b.text,
             UNCHANGED texts
      PROVE  BriefInv'
  <2>1. /\ brief' \in [Kinds -> BriefTypes] /\ brief'[Kind] = b
        /\ \A k \in Kinds \ {Kind} : brief'[k] = brief[k]
    BY <1>1, <1>5
  <2>2. BriefTypeOK'
    BY <1>3, <1>5, <2>1 DEF BriefInv, BriefTypeOK, MinuteTypes, BriefTypes
  <2>3. BriefsInv'
    BY <1>2, <1>3, <1>5, <2>1 DEF BriefInv, BriefsInv, Pending
  <2>4. MinuteInv'
    BY <1>1, <1>5, <2>1 DEF MinuteInv, Kind, Writing, Pending
  <2>5. QED
    BY <2>2, <2>3, <2>4 DEF BriefInv
<1>6. ASSUME SaveFailure, UNCHANGED texts
      PROVE  BriefInv'
  <2>1. [state |-> "failed", text |-> 0] \in BriefTypes
    BY BriefAssumption DEF BriefTypes
  <2>2. QED
    BY <1>5, <1>6, <2>1, NoMinuteType DEF SaveFailure
<1>7. CASE Gate
  <2>1. CASE minute' = NoMinute
    BY <1>1, <1>2, <1>3, <1>7, <2>1, NoMinuteType
    DEF Gate, BriefInv, BriefTypeOK, MinuteInv, BriefsInv, MinuteTypes, Writing, Pending
  <2>2. CASE minute' = [minute EXCEPT !.pc = "collecting"]
    <3>1. /\ minute' \in MinuteTypes /\ minute'.flying = {} /\ minute'.kind = Kind
          /\ minute'.pc = "collecting"
      BY <1>1, <2>2 DEF MinuteTypes, MinuteSteps, Kind
    <3>2. QED
      BY <1>4, <1>7, <3>1 DEF Gate, Writing, BriefInv, BriefTypeOK
  <2>3. QED
    BY <1>7, <2>1, <2>2 DEF Gate
<1>8. CASE Collect
  <2>1. CASE minute' = [minute EXCEPT !.pc = "evaluating"] /\ UNCHANGED brief
    <3>1. /\ minute' \in MinuteTypes /\ minute'.flying = {} /\ minute'.kind = Kind
          /\ minute'.pc = "evaluating"
      BY <1>1, <2>1 DEF MinuteTypes, MinuteSteps, Kind
    <3>2. QED
      BY <1>4, <1>8, <2>1, <3>1 DEF Collect, Writing, BriefInv, BriefTypeOK
  <2>2. QED
    BY <1>6, <1>8, <2>1 DEF Collect
<1>9. CASE Evaluate
  <2>1. CASE /\ texts < MaxTexts /\ texts' = texts + 1 /\ UNCHANGED brief
             /\ minute' = [minute EXCEPT !.pc = "storing", !.text = texts + 1]
    <3>1. texts + 1 \in 0..MaxTexts /\ texts + 1 # 0
      BY <2>1, BriefAssumption DEF BriefInv, BriefTypeOK
    <3>2. /\ minute' \in MinuteTypes /\ minute'.flying = {} /\ minute'.kind = Kind
          /\ minute'.pc = "storing" /\ minute'.text # 0
      BY <1>1, <2>1, <3>1 DEF MinuteTypes, MinuteSteps, Kind
    <3>3. QED
      BY <1>4, <2>1, <3>1, <3>2 DEF Writing
  <2>2. CASE minute' = [minute EXCEPT !.attempts = 1] /\ UNCHANGED <<brief, texts>>
    <3>1. /\ minute' \in MinuteTypes /\ minute'.flying = {} /\ minute'.kind = Kind
          /\ minute'.pc = "evaluating"
      BY <1>1, <1>9, <2>2 DEF MinuteTypes, MinuteSteps, Kind, Evaluate
    <3>2. QED
      BY <1>4, <2>2, <3>1 DEF Writing, BriefInv, BriefTypeOK
  <2>3. QED
    BY <1>6, <1>9, <2>1, <2>2 DEF Evaluate
<1>10. CASE Store
  <2> DEFINE b == [state |-> IF listed = {} THEN "completed" ELSE "pending", text |-> minute.text]
  <2>1. b \in BriefTypes /\ b.text = minute.text /\ minute.text # 0
    BY <1>1, <1>10 DEF BriefTypes, MinuteTypes, Store, BriefInv, MinuteInv
  <2>2. CASE listed = {}
    BY <1>5, <1>10, <2>1, <2>2, NoMinuteType DEF Store
  <2>3. CASE listed # {}
    <3>1. /\ minute' \in MinuteTypes /\ minute'.flying = {} /\ minute'.kind = Kind
          /\ minute'.pc = "sending" /\ minute'.text = minute.text /\ b.state = "pending"
      BY <1>1, <1>10, <2>3 DEF Store, MinuteTypes, MinuteSteps, Kind, BriefInv, BriefTypeOK
    <3>2. brief' = [brief EXCEPT ![Kind] = b] /\ UNCHANGED texts
      BY <1>10 DEF Store
    <3>3. QED
      BY <1>5, <2>1, <3>1, <3>2
  <2>4. QED
    BY <2>2, <2>3
<1>11. QED
  BY <1>7, <1>8, <1>9, <1>10

\* The sends of a briefing, and a stop in the middle of them.
LEMMA SendKeeps ==
    ASSUME BriefInv,
           \/ \E r \in Receivers :
                \/ Replay(r) \/ Post(r)
                \/ \E status \in {"completed", "failed", "uncertain"} : Answer(r, status)
           \/ CloseDelivery \/ Stop
    PROVE  BriefInv'
<1>1. Kind \in Kinds /\ minute \in MinuteTypes /\ brief \in [Kinds -> BriefTypes]
  BY DEF BriefInv, BriefTypeOK, Kind, MinuteTypes, BriefTypes
<1>2. ASSUME NEW S \in SUBSET Receivers, minute.pc = "sending",
             got' = [got EXCEPT ![Kind] =
                        [r \in Receivers |-> IF r \in S THEN @[r] \cup {minute.text} ELSE @[r]]],
             UNCHANGED <<claimed, brief>>
      PROVE  got' \in [Kinds -> [Receivers -> SUBSET (1..MaxTexts)]] /\ BriefsInv'
  <2>1. minute.text \in 1..MaxTexts /\ brief[Kind].state = "pending" /\ brief[Kind].text = minute.text
    BY <1>1, <1>2, BriefAssumption DEF BriefInv, MinuteInv, BriefsInv, Pending, MinuteTypes
  <2>2. \A k \in Kinds, r \in Receivers :
            got'[k][r] = IF k = Kind /\ r \in S THEN got[k][r] \cup {minute.text} ELSE got[k][r]
    BY <1>1, <1>2 DEF BriefInv, BriefTypeOK
  <2>3. [r \in Receivers |-> IF r \in S THEN got[Kind][r] \cup {minute.text} ELSE got[Kind][r]]
            \in [Receivers -> SUBSET (1..MaxTexts)]
    BY <1>1, <2>1 DEF BriefInv, BriefTypeOK
  <2>4. got' \in [Kinds -> [Receivers -> SUBSET (1..MaxTexts)]]
    BY <1>1, <1>2, <2>3 DEF BriefInv, BriefTypeOK
  <2>5. BriefsInv'
    BY <1>1, <1>2, <2>1, <2>2 DEF BriefInv, BriefsInv, Pending
  <2>6. QED
    BY <2>4, <2>5
<1>3. ASSUME NEW r \in Receivers, NEW s \in {"executing", "completed", "failed", "uncertain"},
             row' = [row EXCEPT ![Kind][r] = s]
      PROVE  row' \in [Kinds -> [Receivers -> {"absent", "executing", "completed", "failed", "uncertain"}]]
  <2>1. [row[Kind] EXCEPT ![r] = s] \in [Receivers -> {"absent", "executing", "completed", "failed", "uncertain"}]
    BY <1>1 DEF BriefInv, BriefTypeOK
  <2>2. QED
    BY <1>1, <1>3, <2>1 DEF BriefInv, BriefTypeOK
<1>4. ASSUME NEW r \in Receivers, Replay(r) \/ Post(r)
      PROVE  BriefInv'
  <2>1. /\ minute' \in MinuteTypes /\ minute'.pc = "sending" /\ minute'.kind = Kind
        /\ minute'.text = minute.text /\ minute.pc = "sending"
    <3>1. CASE Replay(r)
      <4>1. minute.pc = "sending" /\ (minute.failed \/ row[Kind][r] # "completed") \in BOOLEAN
        BY <1>1, <3>1 DEF Replay, Due, MinuteTypes
      <4>2. QED
        BY <1>1, <3>1, <4>1 DEF Replay, MinuteTypes, Kind
    <3>2. CASE Post(r)
      BY <1>1, <3>2 DEF Post, Due, MinuteTypes, Kind
    <3>3. QED
      BY <1>4, <3>1, <3>2
  <2>2. row' \in [Kinds -> [Receivers -> {"absent", "executing", "completed", "failed", "uncertain"}]]
    BY <1>3, <1>4 DEF Replay, Post, BriefInv, BriefTypeOK
  <2>3. UNCHANGED <<phase, claimed, brief, got, texts, scan, listed, stops>>
    BY <1>4 DEF Replay, Post
  <2>4. BriefTypeOK' /\ BriefsInv'
    BY <2>1, <2>2, <2>3 DEF BriefInv, BriefTypeOK, BriefsInv, MinuteTypes, Pending
  <2>5. MinuteInv'
    BY <2>1, <2>3 DEF BriefInv, MinuteInv, Kind, Writing, Pending
  <2>6. QED
    BY <2>4, <2>5 DEF BriefInv
<1>5. ASSUME NEW r \in Receivers, NEW status \in {"completed", "failed", "uncertain"},
             Answer(r, status)
      PROVE  BriefInv'
  <2>1. minute.pc = "sending"
    BY <1>5 DEF Answer, BriefInv, MinuteInv
  <2>2. /\ minute' \in MinuteTypes /\ minute'.pc = "sending" /\ minute'.kind = Kind
        /\ minute'.text = minute.text
    BY <1>1, <1>5, <2>1 DEF Answer, MinuteTypes, Kind
  <2>3. row' \in [Kinds -> [Receivers -> {"absent", "executing", "completed", "failed", "uncertain"}]]
    BY <1>3, <1>5 DEF Answer
  <2>4. UNCHANGED <<phase, claimed, brief, texts, scan, listed, stops>>
    BY <1>5 DEF Answer
  <2>5. got' \in [Kinds -> [Receivers -> SUBSET (1..MaxTexts)]] /\ BriefsInv'
    <3>1. CASE UNCHANGED got
      BY <2>4, <3>1 DEF BriefInv, BriefTypeOK, BriefsInv, Pending
    <3>2. CASE Takes(r)
      <4>1. got' = [got EXCEPT ![Kind] =
                       [q \in Receivers |-> IF q \in {r} THEN @[q] \cup {minute.text} ELSE @[q]]]
        BY <1>1, <3>2 DEF Takes, BriefInv, BriefTypeOK
      <4>2. QED
        BY <1>2, <2>1, <2>4, <4>1
    <3>3. QED
      BY <1>5, <3>1, <3>2 DEF Answer
  <2>6. BriefTypeOK'
    BY <2>2, <2>3, <2>4, <2>5 DEF BriefInv, BriefTypeOK, MinuteTypes
  <2>7. MinuteInv'
    BY <2>1, <2>2, <2>4 DEF BriefInv, MinuteInv, Kind, Writing, Pending
  <2>8. QED
    BY <2>5, <2>6, <2>7 DEF BriefInv
<1>6. CASE CloseDelivery
  <2>1. minute' \in MinuteTypes /\ minute'.pc = "idle" /\ minute'.flying = {}
    BY <1>6, NoMinuteType DEF CloseDelivery
  <2>2. /\ brief' \in [Kinds -> BriefTypes]
        /\ \A k \in Kinds :
              \/ brief'[k] = brief[k]
              \/ /\ k = Kind /\ brief'[k].state = "completed"
                 /\ brief'[k].text = brief[k].text
    BY <1>1, <1>6 DEF CloseDelivery, BriefTypes
  <2>3. Kind \in claimed
    BY <1>1, <1>6 DEF CloseDelivery, BriefInv, MinuteInv, BriefsInv, Pending
  <2>4. UNCHANGED <<phase, claimed, row, got, texts, scan, listed, stops>>
    BY <1>6 DEF CloseDelivery
  <2>5. BriefTypeOK'
    BY <2>1, <2>2, <2>4 DEF BriefInv, BriefTypeOK, MinuteTypes, BriefTypes
  <2>6. BriefsInv'
    BY <2>2, <2>3, <2>4 DEF BriefInv, BriefsInv, Pending
  <2>7. MinuteInv'
    BY <2>1 DEF MinuteInv, Writing
  <2>8. QED
    BY <2>5, <2>6, <2>7 DEF BriefInv
<1>7. CASE Stop
  <2>1. minute' \in MinuteTypes /\ minute'.pc = "idle" /\ minute'.flying = {}
    BY <1>7, NoMinuteType DEF Stop
  <2>2. UNCHANGED <<phase, claimed, brief, row, texts, scan, listed>> /\ stops' \in 0..MaxStops
    BY <1>7, BriefAssumption DEF Stop, BriefInv, BriefTypeOK
  <2>3. PICK S \in SUBSET minute.flying :
            got' = [got EXCEPT ![Kind] =
                [r \in Receivers |-> IF r \in S THEN @[r] \cup {minute.text} ELSE @[r]]]
    BY <1>7 DEF Stop
  <2>4. got' \in [Kinds -> [Receivers -> SUBSET (1..MaxTexts)]] /\ BriefsInv'
    <3>1. CASE minute.flying = {}
      <4>1. got' = got
        BY <1>1, <2>3, <3>1 DEF BriefInv, BriefTypeOK
      <4>2. QED
        BY <2>2, <4>1 DEF BriefInv, BriefTypeOK, BriefsInv, Pending
    <3>2. CASE minute.flying # {}
      <4>1. minute.pc = "sending" /\ S \in SUBSET Receivers
        BY <1>1, <3>2 DEF BriefInv, MinuteInv, MinuteTypes
      <4>2. QED
        BY <1>2, <2>2, <2>3, <4>1
    <3>3. QED
      BY <3>1, <3>2
  <2>5. BriefTypeOK'
    BY <2>1, <2>2, <2>4 DEF BriefInv, BriefTypeOK, MinuteTypes
  <2>6. MinuteInv'
    BY <2>1 DEF MinuteInv, Writing
  <2>7. QED
    BY <2>4, <2>5, <2>6 DEF BriefInv
<1>8. QED
  BY <1>4, <1>5, <1>6, <1>7

\* Time, the watch and a changed list of receivers touch no briefing.
LEMMA RestKeeps ==
    ASSUME BriefInv,
           \/ UNCHANGED briefVars \/ Watch \/ NewWindow
           \/ \E k \in Kinds : Advance(k)
           \/ \E r \in Receivers : Relist(r)
    PROVE  BriefInv'
<1>1. UNCHANGED <<claimed, brief, row, got, minute, texts, stops>>
  BY DEF briefVars, Watch, NewWindow, Advance, Relist
<1>2. /\ phase' \in [Kinds -> {"early", "due", "late"}] /\ scan' \in {"open", "claimed"}
      /\ listed' \subseteq Receivers
  BY DEF briefVars, Watch, NewWindow, Advance, Relist, BriefInv, BriefTypeOK
<1>3. QED
  BY <1>1, <1>2 DEF BriefInv, BriefTypeOK, MinuteInv, BriefsInv, Kind, Pending

LEMMA BriefInvInductive ==
    ASSUME BriefInv, [BriefNext]_briefVars
    PROVE  BriefInv'
  BY BeginKeeps, WriteKeeps, SendKeeps, RestKeeps DEF BriefNext, Serve

LEMMA BriefInvHolds == BriefSpec => []BriefInv
  BY BriefInvInit, BriefInvInductive, PTL DEF BriefSpec

\* The windows, the stored briefings and the minute's call keep their types.
THEOREM BriefTypeCorrect == BriefSpec => []BriefTypeOK
<1>1. BriefInv => BriefTypeOK
  BY DEF BriefInv
<1>2. QED
  BY <1>1, BriefInvHolds, PTL

\* However a briefing is retried and interrupted, two receivers never hold
\* different texts of it.
THEOREM BriefingsAgree == BriefSpec => []OneTextForAll
<1>1. BriefInv => OneTextForAll
  BY DEF BriefInv, BriefsInv, OneTextForAll
<1>2. QED
  BY <1>1, BriefInvHolds, PTL

-----------------------------------------------------------------------------
(****************************************************************************)
(* FORWARDED RELAY. Why the cursor leaves no message behind: a poll asks    *)
(* from the second before the cursor on, so what it does not return is      *)
(* older than that and was stored before, and the same transaction that     *)
(* moves the cursor stores all the poll returned.  Before there is a cursor *)
(* the polls have found nothing from where they have looked without a gap.  *)
(****************************************************************************)

\* What is known of the relay.  No message and no cursor lies in the future,
\* and a poll that follows others begins behind the cursor.
RelayInv ==
    /\ RelayTypeOK
    /\ first \in Nat /\ looked \in Nat /\ relay.since \in Nat
    /\ \A m \in Messages : sent[m] <= second
    /\ cursor <= second /\ looked <= second
    /\ cursor = 0 => \A m \in Messages : sent[m] > 0 /\ sent[m] >= first => sent[m] >= looked
    /\ relay.pc = "polling" /\ cursor > 0 => relay.since < cursor
    /\ NothingLeftBehind

LEMMA RelayInvInit == RelayInit => RelayInv
  BY RelayAssumption DEF RelayInit, RelayInv, RelayTypeOK, NothingLeftBehind, AtRest

\* Where a poll begins.
LEMMA SinceBehind ==
    ASSUME RelayInv
    PROVE  Since \in Nat /\ (cursor > 0 => Since < cursor)
  BY RelayAssumption DEF RelayInv, RelayTypeOK, Since

\* The cursor after a poll: a message that is stored, or where it was.
LEMMA CursorMoves ==
    ASSUME RelayInv, IngestPoll
    PROVE  /\ cursor' \in 0..second
           /\ cursor' > cursor \/ cursor' = cursor
           /\ cursor' = 0 => Seen = {}
<1> DEFINE S == {sent[m] : m \in Seen}
<1>1. /\ S \in SUBSET Nat /\ second \in Nat /\ cursor \in Nat
      /\ \A s \in S : s <= second
  BY RelayAssumption DEF RelayInv, RelayTypeOK, Seen
<1>2. CASE \E m \in Seen : sent[m] > cursor
  <2>1. cursor' = CHOOSE s \in S : \A m \in Seen : sent[m] <= s
    BY <1>2 DEF IngestPoll
  <2>2. S # {}
    BY <1>2
  <2>3. \E s \in S : \A x \in S : x <= s
    <3> HIDE DEF S
    <3>1. QED
      BY <1>1, <2>2, GreatestExists
  <2>4. \E s \in S : \A m \in Seen : sent[m] <= s
    BY <2>3
  <2>5. cursor' \in S /\ \A m \in Seen : sent[m] <= cursor'
    BY <2>1, <2>4
  <2>6. cursor' \in 0..second /\ cursor' > cursor
    <3>1. PICK m \in Seen : sent[m] > cursor
      BY <1>2
    <3>2. sent[m] \in S /\ sent[m] <= cursor'
      BY <2>5
    <3> HIDE DEF S
    <3>3. cursor' \in Nat /\ cursor' <= second /\ sent[m] \in Nat
      BY <1>1, <2>5, <3>2
    <3>4. QED
      BY <1>1, <3>1, <3>2, <3>3
  <2>7. QED
    BY <1>1, <2>6
<1>3. CASE ~\E m \in Seen : sent[m] > cursor
  <2>1. cursor' = cursor
    BY <1>3 DEF IngestPoll
  <2>2. cursor = 0 => Seen = {}
    BY <1>3 DEF Seen
  <2>3. QED
    BY <1>1, <2>1, <2>2 DEF RelayInv
<1>4. QED
  BY <1>2, <1>3

\* What the poll did not see is older than its beginning: before the cursor, or
\* before the first of the polls that have looked without a gap.
LEMMA RelayIngestKeeps ==
    ASSUME RelayInv, IngestPoll
    PROVE  RelayInv'
<1>1. cursor' \in 0..second
  BY CursorMoves
<1>2. relay'.pc = "relaying" /\ relay'.since = 0
  BY DEF IngestPoll, AtRest
<1>3. RelayTypeOK' /\ first' \in Nat /\ looked' \in Nat /\ looked' <= second
  BY <1>1, <1>2, RelayAssumption DEF RelayInv, RelayTypeOK, IngestPoll
<1>4. NothingLeftBehind'
  <2> SUFFICES ASSUME NEW m \in Messages, sent[m] > 0, sent[m] < cursor', sent[m] >= first'
               PROVE  event'[m] # "absent"
    BY DEF NothingLeftBehind, IngestPoll
  <2>1. CASE m \in Seen
    BY <2>1 DEF IngestPoll
  <2>2. CASE m \notin Seen
    <3>1. sent[m] < relay.since
      BY <2>2, RelayAssumption DEF Seen, RelayInv, RelayTypeOK
    <3>2. cursor > 0 /\ first' = first
      <4>1. sent[m] \in Nat /\ relay.since \in Nat /\ first \in Nat /\ looked \in Nat /\ cursor \in Nat
        BY RelayAssumption DEF RelayInv, RelayTypeOK
      <4>2. first' = first /\ (cursor > 0 \/ relay.since <= looked)
        BY <3>1, <4>1 DEF IngestPoll
      <4>3. cursor = 0 => sent[m] >= looked
        BY <4>2 DEF RelayInv
      <4>4. QED
        BY <3>1, <4>1, <4>2, <4>3
    <3>3. sent[m] < cursor
      BY <3>1, <3>2, RelayAssumption DEF IngestPoll, RelayInv, RelayTypeOK
    <3>4. event[m] # "absent"
      BY <3>2, <3>3 DEF RelayInv, NothingLeftBehind
    <3>5. QED
      BY <3>4 DEF IngestPoll
  <2>3. QED
    BY <2>1, <2>2
<1>5. ASSUME cursor' = 0, NEW m \in Messages, sent[m] > 0, sent[m] >= first'
      PROVE  sent[m] >= looked'
  <2>1. cursor = 0 /\ m \notin Seen
    BY <1>1, <1>5, CursorMoves, RelayAssumption DEF RelayInv, RelayTypeOK
  <2>2. sent[m] \in Nat /\ relay.since \in Nat /\ first \in Nat /\ looked \in Nat
    BY RelayAssumption DEF RelayInv, RelayTypeOK
  <2>3. sent[m] < relay.since
    BY <1>5, <2>1, <2>2 DEF Seen
  <2>4. first' = first /\ relay.since <= looked
    BY <1>5, <2>1, <2>2, <2>3 DEF IngestPoll
  <2>5. sent[m] >= looked
    BY <1>5, <2>1, <2>4 DEF RelayInv
  <2>6. QED
    BY <2>2, <2>3, <2>4, <2>5
<1>6. UNCHANGED <<sent, second>>
  BY DEF IngestPoll
<1>7. QED
  BY <1>1, <1>2, <1>3, <1>4, <1>5, <1>6 DEF RelayInv

LEMMA RelayInvInductive ==
    ASSUME RelayInv, [RelayNext]_relayVars
    PROVE  RelayInv'
<1>1. CASE PassSecond
  BY <1>1, RelayAssumption DEF PassSecond, reach, RelayInv, RelayTypeOK, NothingLeftBehind
<1>2. CASE StartPoll
  <2>1. relay'.pc = "polling" /\ relay'.since = Since
    BY <1>2 DEF StartPoll, AtRest
  <2>2. QED
    BY <1>2, <2>1, SinceBehind DEF StartPoll, reach, RelayInv, RelayTypeOK, NothingLeftBehind
<1>3. CASE IngestPoll
  BY <1>3, RelayIngestKeeps
<1>4. CASE PollFails \/ FinishRun \/ RelayStop
  <2>1. /\ relay' = AtRest
        /\ UNCHANGED <<second, sent, event, cursor, first, looked>>
    BY <1>4 DEF PollFails, FinishRun, RelayStop, reach
  <2>2. QED
    BY <2>1 DEF RelayInv, RelayTypeOK, NothingLeftBehind, AtRest
<1>5. ASSUME NEW m \in Messages, PublishUpstream(m)
      PROVE  RelayInv'
  BY <1>5, RelayAssumption DEF PublishUpstream, reach, RelayInv, RelayTypeOK, NothingLeftBehind
<1>6. ASSUME NEW m \in Messages, NEW status \in {"completed", "failed", "uncertain"},
             Forward(m, status)
      PROVE  RelayInv'
  <2>1. relay'.pc = relay.pc /\ relay'.since = relay.since
    BY <1>6 DEF Forward
  <2>2. QED
    BY <1>6, <2>1 DEF Forward, reach, RelayInv, RelayTypeOK, NothingLeftBehind
<1>7. CASE UNCHANGED relayVars
  BY <1>7 DEF relayVars, RelayInv, RelayTypeOK, NothingLeftBehind
<1>8. QED
  BY <1>1, <1>2, <1>3, <1>4, <1>5, <1>6, <1>7 DEF RelayNext

LEMMA RelayInvHolds == RelaySpec => []RelayInv
  BY RelayInvInit, RelayInvInductive, PTL DEF RelaySpec

\* The clock, the cursor and the rows of the forwarded messages keep their types.
THEOREM RelayTypeCorrect == RelaySpec => []RelayTypeOK
<1>1. RelayInv => RelayTypeOK
  BY DEF RelayInv
<1>2. QED
  BY <1>1, RelayInvHolds, PTL

\* No restart, no failed poll and no message published late in a second makes
\* ingest move the cursor past a message it did not store.
THEOREM RelayLeavesNothing == RelaySpec => []NothingLeftBehind
<1>1. RelayInv => NothingLeftBehind
  BY DEF RelayInv
<1>2. QED
  BY <1>1, RelayInvHolds, PTL

-----------------------------------------------------------------------------
(****************************************************************************)
(* DEALS. Why a target shows a deal once: a deal enters one window and      *)
(* leaves the pending ones when the window is recorded, and a target is     *)
(* sent a window only when its row says that nothing arrived.               *)
(****************************************************************************)

PostStatuses == {"absent", "executing", "completed", "failed", "uncertain"}

DigestTypes == [status: {"absent", "pending", "completed", "failed", "uncertain", "skipped_empty"},
                items: SUBSET Deals]

WatchTypes == [pc: {"idle", "collecting", "collected", "sending"}, hour: DealHours,
               result: [DealTargets -> {"none", "reached", "lost", "completed", "failed", "uncertain"}]]

\* A deal is in one window at most, and waits only while its window is retried.
WindowsInv ==
    /\ \A d \in Deals, g, h \in DealHours : d \in digest[g].items /\ d \in digest[h].items => g = h
    /\ \A d \in Deals, h \in DealHours : d \in digest[h].items =>
           /\ deal[d] # "absent"
           /\ deal[d] = "pending" => h \in Retryable
    /\ \A h \in DealHours : digest[h].status = "absent" => digest[h].items = {}

\* Nothing is collected while a window waits, and the window of the run is new
\* until it has deals.
WatchInv ==
    /\ watch.pc \in {"collecting", "collected"} =>
           Retryable = {} /\ digest[watch.hour].status = "absent"
    /\ watch.pc # "sending" => \A t \in DealTargets : watch.result[t] = "none"

\* A target has shown the deals of a window unless its row says otherwise; a
\* deal without a window was shown to nobody, unless it was imported.
SeenInv ==
    /\ \A d \in Deals, t \in DealTargets : seen[d][t] <= 1
    /\ \A d \in Deals, t \in DealTargets, h \in DealHours :
           d \in digest[h].items /\ post[h][t] \in {"absent", "failed"} => seen[d][t] = 0
    /\ \A d \in Deals, t \in DealTargets :
           deal[d] \in {"absent", "pending"} /\ (\A h \in DealHours : d \notin digest[h].items) => seen[d][t] = 0
    /\ \A d \in Deals, t \in DealTargets :
           watch.result[t] = "lost" /\ d \in digest[watch.hour].items => seen[d][t] = 0

DealsInv ==
    /\ DealsTypeOK
    /\ watch \in WatchTypes
    /\ seen \in [Deals -> [DealTargets -> Nat]]
    /\ WindowsInv /\ WatchInv /\ SeenInv

LEMMA RestingFits ==
    Resting \in WatchTypes /\ Resting.pc = "idle" /\ \A t \in DealTargets : Resting.result[t] = "none"
<1>1. 1 \in DealHours
  BY DealsAssumption DEF DealHours
<1>2. QED
  BY <1>1 DEF Resting, WatchTypes

LEMMA DealsInvInit == DealsInit => DealsInv
<1> SUFFICES ASSUME DealsInit
             PROVE  DealsInv
  OBVIOUS
<1>1. hour \in DealHours
  BY DealsAssumption DEF DealsInit, DealHours
<1>2. /\ digest \in [DealHours -> DigestTypes]
      /\ \A h \in DealHours : digest[h].status = "absent" /\ digest[h].items = {}
      /\ post \in [DealHours -> [DealTargets -> PostStatuses]]
  BY DEF DealsInit, NoDigest, DigestTypes, PostStatuses
<1>3. /\ watch \in WatchTypes /\ watch.pc = "idle"
      /\ \A t \in DealTargets : watch.result[t] = "none"
  BY RestingFits DEF DealsInit
<1>4. /\ seen \in [Deals -> [DealTargets -> Nat]]
      /\ \A d \in Deals, t \in DealTargets : seen[d][t] <= 1 /\ (deal[d] = "absent" => seen[d][t] = 0)
      /\ deal \in [Deals -> {"absent", "delivered"}]
  BY DEF DealsInit
<1>5. DealsTypeOK
  BY <1>1, <1>2, <1>3, <1>4 DEF DealsTypeOK, DigestTypes, PostStatuses
<1>6. WindowsInv /\ WatchInv /\ SeenInv
  BY <1>2, <1>3, <1>4 DEF WindowsInv, WatchInv, SeenInv
<1>7. QED
  BY <1>3, <1>4, <1>5, <1>6 DEF DealsInv

LEMMA DealsKnown ==
    ASSUME DealsInv
    PROVE  /\ watch \in WatchTypes /\ watch.hour \in DealHours
           /\ digest \in [DealHours -> DigestTypes]
           /\ post \in [DealHours -> [DealTargets -> PostStatuses]]
           /\ deal \in [Deals -> {"absent", "pending", "delivered", "uncertain", "skipped"}]
  BY DEF DealsInv, DealsTypeOK, WatchTypes, DigestTypes, PostStatuses

\* Steps that touch neither a deal, a window nor a post: the run begins, gives
\* up or ends, or the hour passes.
LEMMA DealQuietKeeps ==
    ASSUME DealsInv, PassHour \/ RetryWindow \/ StartCollect \/ CollectFails \/ DealStop \/ UNCHANGED dealVars
    PROVE  DealsInv'
<1>1. /\ UNCHANGED <<deal, digest, post, seen>>
      /\ hour' \in DealHours
  BY DEF DealsInv, DealsTypeOK, PassHour, RetryWindow, StartCollect, CollectFails, DealStop, dealVars
<1>2. ASSUME watch' \in WatchTypes, WatchInv', \A t \in DealTargets : watch'.result[t] = "none"
      PROVE  DealsInv'
  BY <1>1, <1>2 DEF DealsInv, DealsTypeOK, WatchTypes, WindowsInv, SeenInv, Retryable
<1>3. CASE PassHour \/ UNCHANGED dealVars
  BY <1>1, <1>3 DEF PassHour, dealVars, DealsInv, DealsTypeOK, WindowsInv, WatchInv, SeenInv, Retryable
<1>4. CASE RetryWindow
  <2>1. PICK h \in DealHours : watch' = [Resting EXCEPT !.pc = "sending", !.hour = h]
    BY <1>4 DEF RetryWindow, Retryable
  <2>2. /\ watch' \in WatchTypes /\ watch'.pc = "sending"
        /\ \A t \in DealTargets : watch'.result[t] = "none"
    BY <2>1, RestingFits DEF WatchTypes
  <2>3. QED
    BY <1>2, <2>2 DEF WatchInv
<1>5. CASE StartCollect
  <2>1. /\ watch' \in WatchTypes /\ watch'.pc = "collecting" /\ watch'.hour = hour
        /\ \A t \in DealTargets : watch'.result[t] = "none"
    BY <1>5, RestingFits DEF StartCollect, WatchTypes, DealsInv, DealsTypeOK
  <2>2. Retryable = {} /\ digest[hour].status = "absent"
    <3>1. hour \in DealHours /\ digest[hour] \in DigestTypes
      BY DealsKnown DEF DealsInv, DealsTypeOK
    <3>2. QED
      BY <1>5, <3>1 DEF StartCollect, Retryable, Done, DigestTypes
  <2>3. WatchInv'
    BY <1>1, <2>1, <2>2 DEF WatchInv, Retryable
  <2>4. QED
    BY <1>2, <2>1, <2>3
<1>6. CASE CollectFails \/ DealStop
  <2>1. watch' = Resting
    BY <1>6 DEF CollectFails, DealStop
  <2>2. QED
    BY <1>2, <2>1, RestingFits DEF WatchInv
<1>7. QED
  BY <1>3, <1>4, <1>5, <1>6

LEMMA DealCollectKeeps ==
    ASSUME DealsInv, NEW found \in SUBSET Deals, StoreCollected(found)
    PROVE  DealsInv'
<1>1. /\ watch' \in WatchTypes /\ watch'.pc = "collected" /\ watch'.hour = watch.hour
      /\ watch'.result = watch.result /\ watch.pc = "collecting"
  BY DealsKnown DEF StoreCollected, WatchTypes
<1>2. /\ deal' \in [Deals -> {"absent", "pending", "delivered", "uncertain", "skipped"}]
      /\ \A d \in Deals : deal'[d] = deal[d] \/ (deal[d] = "absent" /\ deal'[d] = "pending")
  BY DealsKnown DEF StoreCollected
<1>3. UNCHANGED <<hour, digest, post, seen>>
  BY DEF StoreCollected
<1>4. WindowsInv' /\ WatchInv' /\ SeenInv'
  BY <1>1, <1>2, <1>3 DEF DealsInv, WindowsInv, WatchInv, SeenInv, Retryable
<1>5. QED
  BY <1>1, <1>2, <1>3, <1>4 DEF DealsInv, DealsTypeOK, WatchTypes

\* No window waits, so a deal that is pending is in none and was shown to nobody.
LEMMA DealCreateKeeps ==
    ASSUME DealsInv, NEW chosen \in SUBSET Deals, CreateWindow(chosen)
    PROVE  DealsInv'
<1> DEFINE h == watch.hour
<1>1. /\ h \in DealHours /\ Retryable = {} /\ digest[h].items = {} /\ digest[h].status = "absent"
      /\ \A t \in DealTargets : watch.result[t] = "none"
  BY DealsKnown DEF DealsInv, WatchInv, WindowsInv, CreateWindow
<1>2. \A d \in chosen : deal[d] = "pending" /\ \A g \in DealHours : d \notin digest[g].items
  BY <1>1 DEF CreateWindow, PendingDeals, DealsInv, WindowsInv
<1>3. \A d \in chosen, t \in DealTargets : seen[d][t] = 0
  BY <1>2 DEF DealsInv, SeenInv
<1>4. /\ digest' \in [DealHours -> DigestTypes] /\ digest'[h].items = chosen
      /\ digest'[h].status = IF chosen = {} THEN "skipped_empty" ELSE "pending"
      /\ \A g \in DealHours \ {h} : digest'[g] = digest[g]
  BY <1>1, DealsKnown DEF CreateWindow, DigestTypes
<1>5. /\ watch' \in WatchTypes /\ watch'.pc \in {"idle", "sending"}
      /\ \A t \in DealTargets : watch'.result[t] = "none"
  BY <1>1, DealsKnown, RestingFits DEF CreateWindow, WatchTypes
<1>6. UNCHANGED <<hour, deal, post, seen>>
  BY DEF CreateWindow
<1> HIDE DEF h
<1>7. WindowsInv'
  BY <1>1, <1>2, <1>4, <1>6 DEF DealsInv, WindowsInv, Retryable
<1>8. WatchInv'
  BY <1>5 DEF WatchInv
<1>9. SeenInv'
  <2>1. ASSUME NEW d \in Deals, NEW t \in DealTargets, NEW g \in DealHours,
               d \in digest'[g].items, post[g][t] \in {"absent", "failed"}
        PROVE  seen[d][t] = 0
    BY <1>3, <1>4, <2>1 DEF DealsInv, SeenInv
  <2>2. ASSUME NEW d \in Deals, NEW t \in DealTargets, deal[d] \in {"absent", "pending"},
               \A g \in DealHours : d \notin digest'[g].items
        PROVE  seen[d][t] = 0
    <3>1. \A g \in DealHours : d \notin digest[g].items
      BY <1>1, <1>4, <2>2
    <3>2. QED
      BY <2>2, <3>1 DEF DealsInv, SeenInv
  <2>3. QED
    BY <1>5, <1>6, <2>1, <2>2 DEF DealsInv, SeenInv
<1>10. QED
  BY <1>4, <1>5, <1>6, <1>7, <1>8, <1>9 DEF DealsInv, DealsTypeOK, WatchTypes, DigestTypes

\* A step of one target: its row and its result.
LEMMA DealPostKeeps ==
    ASSUME DealsInv, NEW t \in DealTargets, watch.pc = "sending",
           NEW p \in PostStatuses,
           NEW r \in {"reached", "lost", "completed", "failed", "uncertain"},
           post' = [post EXCEPT ![watch.hour][t] = p],
           watch' = [watch EXCEPT !.result[t] = r],
           UNCHANGED <<hour, deal, digest, dealStops>>,
           \/ UNCHANGED seen
           \/ /\ post[watch.hour][t] \in {"absent", "failed"}
              /\ seen' = [d \in Deals |-> IF d \in digest[watch.hour].items
                                         THEN [seen[d] EXCEPT ![t] = @ + 1] ELSE seen[d]]
              /\ r # "lost" /\ p \notin {"absent", "failed"},
           r = "lost" \/ p \in {"absent", "failed"} =>
               \/ post[watch.hour][t] \in {"absent", "failed"}
               \/ watch.result[t] = "lost"
    PROVE  DealsInv'
<1> DEFINE h == watch.hour
<1>1. h \in DealHours /\ watch \in WatchTypes /\ digest \in [DealHours -> DigestTypes]
  BY DealsKnown
<1>2. /\ watch' \in WatchTypes /\ watch'.pc = "sending" /\ watch'.hour = h /\ watch'.result[t] = r
      /\ \A x \in DealTargets \ {t} : watch'.result[x] = watch.result[x]
  BY <1>1 DEF WatchTypes
<1>3. /\ post' \in [DealHours -> [DealTargets -> PostStatuses]] /\ post'[h][t] = p
      /\ \A g \in DealHours, x \in DealTargets : g # h \/ x # t => post'[g][x] = post[g][x]
  BY <1>1, DealsKnown
<1>4. /\ seen' \in [Deals -> [DealTargets -> Nat]]
      /\ \A d \in Deals, x \in DealTargets :
             \/ seen'[d][x] = seen[d][x]
             \/ /\ d \in digest[h].items /\ x = t /\ post[h][t] \in {"absent", "failed"}
                /\ seen'[d][x] = seen[d][x] + 1 /\ r # "lost" /\ p \notin {"absent", "failed"}
  BY DEF DealsInv
<1> HIDE DEF h
<1>5. WindowsInv' /\ WatchInv'
  BY <1>1, <1>2 DEF DealsInv, WindowsInv, WatchInv, Retryable
<1>6. SeenInv'
  <2>1. \A d \in Deals, x \in DealTargets : seen'[d][x] <= 1
    <3> SUFFICES ASSUME NEW d \in Deals, NEW x \in DealTargets
                 PROVE  seen'[d][x] <= 1
      OBVIOUS
    <3>1. CASE seen'[d][x] = seen[d][x]
      BY <3>1 DEF DealsInv, SeenInv
    <3>2. CASE seen'[d][x] # seen[d][x]
      <4>1. seen[d][x] = 0
        BY <1>1, <1>4, <3>2 DEF DealsInv, SeenInv
      <4>2. QED
        BY <1>4, <3>2, <4>1
    <3>3. QED
      BY <3>1, <3>2
  <2>2. ASSUME NEW d \in Deals, NEW x \in DealTargets, NEW g \in DealHours,
               d \in digest[g].items, post'[g][x] \in {"absent", "failed"}
        PROVE  seen'[d][x] = 0
    <3>1. CASE seen'[d][x] # seen[d][x]
      <4>1. g = h /\ x = t
        BY <1>1, <1>4, <2>2, <3>1 DEF DealsInv, WindowsInv
      <4>2. QED
        BY <1>3, <1>4, <2>2, <3>1, <4>1
    <3>2. CASE seen'[d][x] = seen[d][x] /\ (g # h \/ x # t)
      BY <1>3, <2>2, <3>2 DEF DealsInv, SeenInv
    <3>3. CASE seen'[d][x] = seen[d][x] /\ g = h /\ x = t
      BY <1>3, <2>2, <3>3 DEF DealsInv, SeenInv, h
    <3>4. QED
      BY <3>1, <3>2, <3>3
  <2>3. ASSUME NEW d \in Deals, NEW x \in DealTargets, deal[d] \in {"absent", "pending"},
               \A g \in DealHours : d \notin digest[g].items
        PROVE  seen'[d][x] = 0
    BY <1>1, <1>4, <2>3 DEF DealsInv, SeenInv
  <2>4. ASSUME NEW d \in Deals, NEW x \in DealTargets, watch'.result[x] = "lost",
               d \in digest[h].items
        PROVE  seen'[d][x] = 0
    <3>1. CASE x = t
      BY <1>1, <1>2, <1>4, <2>4, <3>1 DEF DealsInv, SeenInv, h
    <3>2. CASE x # t
      BY <1>1, <1>2, <1>4, <2>4, <3>2 DEF DealsInv, SeenInv, h
    <3>3. QED
      BY <3>1, <3>2
  <2>5. QED
    BY <1>2, <2>1, <2>2, <2>3, <2>4 DEF SeenInv
<1>7. QED
  BY <1>2, <1>3, <1>4, <1>5, <1>6 DEF DealsInv, DealsTypeOK, WatchTypes, PostStatuses

LEMMA DealTargetKeeps ==
    ASSUME DealsInv, NEW t \in DealTargets,
           Dispatch(t)
    PROVE  DealsInv'
<1>1. watch.pc = "sending"
  BY DEF Dispatch, ReplayPost, MarkAbandonedPost, SendDigest, SettleDigest, DealsInv, WatchInv
<1>2. /\ watch.hour \in DealHours /\ post[watch.hour][t] \in PostStatuses
      /\ post[watch.hour] \in [DealTargets -> PostStatuses] /\ post \in [DealHours -> [DealTargets -> PostStatuses]]
  BY DealsKnown
<1>3. CASE ReplayPost(t)
  <2>1. post' = [post EXCEPT ![watch.hour][t] = post[watch.hour][t]]
    BY <1>2, <1>3 DEF ReplayPost
  <2>2. CASE post[watch.hour][t] \in {"completed", "uncertain"} /\ Outcome(t, post[watch.hour][t])
    BY <1>1, <1>2, <1>3, <2>1, <2>2, DealPostKeeps DEF ReplayPost, Outcome, PostStatuses
  <2>3. CASE post[watch.hour][t] = "executing" /\ Outcome(t, "failed")
    BY <1>1, <1>2, <1>3, <2>1, <2>3, DealPostKeeps DEF ReplayPost, Outcome, PostStatuses
  <2>4. QED
    BY <1>2, <1>3, <2>2, <2>3 DEF ReplayPost, PostStatuses
<1>4. ASSUME NEW reached \in BOOLEAN, SendDigest(t, reached)
      PROVE  DealsInv'
  <2>1. CASE reached
    BY <1>1, <1>2, <1>4, <2>1, DealPostKeeps DEF SendDigest, Outcome, PostStatuses
  <2>2. CASE ~reached
    BY <1>1, <1>2, <1>4, <2>2, DealPostKeeps DEF SendDigest, Outcome, PostStatuses
  <2>3. QED
    BY <2>1, <2>2
<1>5. ASSUME NEW result \in {"completed", "failed", "uncertain"}, SettleDigest(t, result)
      PROVE  DealsInv'
  BY <1>1, <1>2, <1>5, DealPostKeeps DEF SettleDigest, Outcome, PostStatuses
<1>6. CASE MarkAbandonedPost(t)
  BY <1>1, <1>2, <1>6, DealPostKeeps DEF MarkAbandonedPost, Outcome, PostStatuses
<1>7. QED
  BY <1>3, <1>4, <1>5, <1>6 DEF Dispatch

\* Unless all is retried, no deal stays pending: the chosen ones go where the
\* window goes, the others are skipped.
LEMMA DealRecordKeeps ==
    ASSUME DealsInv, RecordDelivery
    PROVE  DealsInv'
<1> DEFINE h == watch.hour
<1>1. h \in DealHours /\ digest \in [DealHours -> DigestTypes]
  BY DealsKnown
<1>2. Aggregate \in {"completed", "failed", "uncertain"}
  BY DEF Aggregate
<1>3. /\ digest' \in [DealHours -> DigestTypes] /\ digest'[h].items = digest[h].items
      /\ digest'[h].status = Aggregate
      /\ \A g \in DealHours \ {h} : digest'[g] = digest[g]
  BY <1>1, <1>2 DEF RecordDelivery, DigestTypes
<1>4. /\ deal' \in [Deals -> {"absent", "pending", "delivered", "uncertain", "skipped"}]
      /\ \A d \in Deals : deal'[d] = Marked(d, Aggregate, digest[h].items)
  BY <1>2, DealsKnown DEF RecordDelivery, Marked
<1>5. watch' = Resting /\ UNCHANGED <<hour, post, seen, dealStops>>
  BY DEF RecordDelivery
<1> HIDE DEF h
<1>6. \A d \in Deals : /\ deal'[d] = "absent" <=> deal[d] = "absent"
                       /\ deal'[d] = "pending" => Aggregate = "failed" /\ deal[d] = "pending"
  <2> SUFFICES ASSUME NEW d \in Deals
               PROVE  /\ deal'[d] = "absent" <=> deal[d] = "absent"
                      /\ deal'[d] = "pending" => Aggregate = "failed" /\ deal[d] = "pending"
    OBVIOUS
  <2>1. QED
    BY <1>2, <1>4 DEF Marked
<1>7. WindowsInv'
  <2>1. \A g \in DealHours : digest'[g].items = digest[g].items
    BY <1>3
  <2>2. \A g \in DealHours : digest'[g].status = "absent" => digest[g].status = "absent"
    BY <1>1, <1>2, <1>3
  <2>3. \A d \in Deals, g \in DealHours :
           d \in digest[g].items /\ deal'[d] = "pending" => g \in Retryable'
    <3> SUFFICES ASSUME NEW d \in Deals, NEW g \in DealHours, d \in digest[g].items, deal'[d] = "pending"
                 PROVE  g \in Retryable'
      OBVIOUS
    <3>1. Aggregate = "failed" /\ deal[d] = "pending"
      BY <1>6
    <3>2. digest'[g].status \in {"pending", "failed"}
      <4>1. digest[g].status \in {"pending", "failed"}
        BY <3>1 DEF DealsInv, WindowsInv, Retryable
      <4>2. QED
        BY <1>3, <3>1, <4>1
    <3>3. QED
      BY <3>2 DEF Retryable
  <2>4. QED
    BY <1>6, <2>1, <2>2, <2>3 DEF DealsInv, WindowsInv
<1>8. WatchInv'
  BY <1>5, RestingFits DEF WatchInv
<1>9. SeenInv'
  <2>1. \A g \in DealHours : digest'[g].items = digest[g].items
    BY <1>3
  <2>2. \A t \in DealTargets : watch'.result[t] = "none"
    BY <1>5, RestingFits
  <2>3. QED
    BY <1>5, <1>6, <2>1, <2>2 DEF DealsInv, SeenInv
<1>10. QED
  BY <1>3, <1>4, <1>5, <1>7, <1>8, <1>9, RestingFits DEF DealsInv, DealsTypeOK, WatchTypes, DigestTypes

LEMMA DealsInvInductive ==
    ASSUME DealsInv, [DealsNext]_dealVars
    PROVE  DealsInv'
  BY DealQuietKeeps, DealCollectKeeps, DealCreateKeeps, DealTargetKeeps, DealRecordKeeps DEF DealsNext

LEMMA DealsInvHolds == DealsSpec => []DealsInv
  BY DealsInvInit, DealsInvInductive, PTL DEF DealsSpec

\* Deals, windows and their rows in the journal keep their types.
THEOREM DealsTypeCorrect == DealsSpec => []DealsTypeOK
<1>1. DealsInv => DealsTypeOK
  BY DEF DealsInv
<1>2. QED
  BY <1>1, DealsInvHolds, PTL

\* A deal is in one window, and a target that may have shown a window is never
\* sent it again.
THEOREM DealsShownOnce == DealsSpec => []DealShownOnce
<1>1. DealsInv => DealShownOnce
  BY DEF DealsInv, SeenInv, DealShownOnce
<1>2. QED
  BY <1>1, DealsInvHolds, PTL

-----------------------------------------------------------------------------
(****************************************************************************)
(* SCANS. Why the items of a quiet source are current: a fingerprint is     *)
(* read before the items stored with it, so a copy is never older than its  *)
(* fingerprint, and an equal fingerprint means that nothing was published   *)
(* since.                                                                   *)
(****************************************************************************)

\* What a scan knows of one source.  began and print were published by now;
\* what AI HOT answers after its fingerprint is not older than the fingerprint.
BatchOK(src, b) ==
    /\ b.began <= version[src]
    /\ b.held.items >= b.held.print
    /\ b.pc = "waiting" => b.print = 0
    /\ b.pc = "fetching" => b.began <= b.print /\ b.print <= version[src]
    /\ b.pc = "answered" /\ src \in Cached => b.items >= b.began /\ b.items >= b.print
    /\ b.pc = "settled" /\ ~b.warned /\ src \in Cached => b.items >= b.began

\* A copy holds what its fingerprint stands for, or more.
ScansInv ==
    /\ ScansTypeOK
    /\ \A src \in Enabled : copy[src].items >= copy[src].print
    /\ \A s \in Scanners, src \in Enabled : BatchOK(src, scanning[s].batch[src])

LEMMA NothingYet ==
    /\ NoCopy \in Copies /\ NoCopy.print = 0 /\ NoCopy.items = 0
    /\ NoBatch \in Batches /\ NoBatch.pc = "none" /\ NoBatch.began = 0 /\ NoBatch.held = NoCopy
    /\ NoBatch.print = 0
  BY DEF NoCopy, Copies, NoBatch, Batches

LEMMA NoScanFits ==
    /\ NoScan \in ScanRecords
    /\ NoScan.batch = [src \in Enabled |-> NoBatch]
  BY NothingYet DEF NoScan, ScanRecords

LEMMA NoBatchOK ==
    ASSUME ScansTypeOK, NEW src \in Enabled
    PROVE  BatchOK(src, NoBatch)
  BY NothingYet DEF BatchOK, ScansTypeOK

\* A scan whose record is replaced, its batches being all right.
LEMMA ScanRecordKeeps ==
    ASSUME ScansInv, NEW s \in Scanners, NEW r \in ScanRecords,
           \A src \in Enabled : BatchOK(src, r.batch[src]),
           scanning' = [scanning EXCEPT ![s] = r],
           UNCHANGED <<domain, version>>,
           copy' \in [Enabled -> Copies], \A x \in Enabled : copy'[x].items >= copy'[x].print,
           health' \in [Enabled -> {"unknown", "ready", "degraded"}],
           briefs' \in [Scanners -> {"none", "pending", "completed", "failed"}],
           leased' \subseteq Windows, evaluated' \subseteq Sources \X Nat
    PROVE  ScansInv'
<1>1. Enabled' = Enabled /\ ScanRecords' = ScanRecords
  BY DEF Enabled, ScanRecords
<1>2. scanning' \in [Scanners -> ScanRecords]
  BY DEF ScansInv, ScansTypeOK
<1>3. ScansTypeOK'
  BY <1>1, <1>2 DEF ScansInv, ScansTypeOK
<1>4. ASSUME NEW z \in Scanners, NEW src \in Enabled
      PROVE  BatchOK(src, scanning'[z].batch[src])
  <2>1. CASE z = s
    BY <2>1 DEF ScansInv, ScansTypeOK
  <2>2. CASE z # s
    BY <2>2 DEF ScansInv, ScansTypeOK
  <2>3. QED
    BY <2>1, <2>2
<1>5. QED
  BY <1>1, <1>3, <1>4 DEF ScansInv, BatchOK

LEMMA OtherScansKeep ==
    ASSUME ScansInv
    PROVE  /\ copy \in [Enabled -> Copies] /\ \A x \in Enabled : copy[x].items >= copy[x].print
           /\ health \in [Enabled -> {"unknown", "ready", "degraded"}]
           /\ briefs \in [Scanners -> {"none", "pending", "completed", "failed"}]
           /\ leased \subseteq Windows /\ evaluated \subseteq Sources \X Nat
  BY DEF ScansInv, ScansTypeOK

\* A scan that has no batches, as at its beginning and from the evaluation on.
BareScan(r) == r \in ScanRecords /\ r.batch = [src \in Enabled |-> NoBatch]
LEMMA ScanBareKeeps ==
    ASSUME ScansInv, NEW s \in Scanners, NEW r, BareScan(r),
           scanning' = [scanning EXCEPT ![s] = r], UNCHANGED <<domain, version, copy, health>>,
           briefs' \in [Scanners -> {"none", "pending", "completed", "failed"}],
           leased' \subseteq Windows, evaluated' \subseteq Sources \X Nat
    PROVE  ScansInv'
<1>1. r \in ScanRecords /\ \A src \in Enabled : BatchOK(src, r.batch[src])
  BY NoBatchOK DEF ScansInv, BareScan
<1>2. QED
  BY <1>1, OtherScansKeep, ScanRecordKeeps

\* A scan that sets one of its batches.
LEMMA ScanBatchKeeps ==
    ASSUME ScansInv, NEW s \in Scanners, NEW src \in Enabled, NEW b \in Batches, BatchOK(src, b),
           SetBatch(s, src, b), UNCHANGED <<domain, version, leased, briefs, evaluated>>,
           copy' \in [Enabled -> Copies], \A x \in Enabled : copy'[x].items >= copy'[x].print,
           health' \in [Enabled -> {"unknown", "ready", "degraded"}]
    PROVE  ScansInv'
<1>2. scanning[s] \in ScanRecords /\ scanning[s].batch \in [Enabled -> Batches]
  BY DEF ScansInv, ScansTypeOK, ScanRecords
<1>3. /\ [scanning[s] EXCEPT !.batch[src] = b] \in ScanRecords
      /\ [scanning[s] EXCEPT !.batch[src] = b].batch = [scanning[s].batch EXCEPT ![src] = b]
  BY <1>2 DEF ScanRecords
<1>4. scanning' = [scanning EXCEPT ![s] = [scanning[s] EXCEPT !.batch[src] = b]]
  BY DEF SetBatch
<1>5. \A x \in Enabled : BatchOK(x, [scanning[s] EXCEPT !.batch[src] = b].batch[x])
  BY <1>2, <1>3 DEF ScansInv
<1>6. QED
  BY <1>3, <1>4, <1>5, OtherScansKeep, ScanRecordKeeps

\* What a batch is of, and what a settled one keeps.
LEMMA ScanBatchKnown ==
    ASSUME ScansInv, NEW s \in Scanners, NEW src \in Enabled
    PROVE  /\ scanning[s].batch[src] \in Batches
           /\ BatchOK(src, scanning[s].batch[src])
           /\ version[src] \in Nat /\ copy[src] \in Copies
  BY DEF ScansInv, ScansTypeOK, ScanRecords

LEMMA SettledFits ==
    ASSUME NEW b \in Batches, NEW n \in Nat, NEW w \in BOOLEAN
    PROVE  /\ Settled(b, n, w) \in Batches
           /\ Settled(b, n, w).pc = "settled" /\ Settled(b, n, w).items = n
           /\ Settled(b, n, w).warned = w /\ Settled(b, n, w).began = b.began
           /\ Settled(b, n, w).held = NoCopy /\ Settled(b, n, w).print = 0
  BY NothingYet DEF Settled, Batches, NoBatch

LEMMA SettledOK ==
    ASSUME NEW src \in Enabled, version[src] \in Nat, NEW b \in Batches, BatchOK(src, b),
           NEW n \in Nat, NEW w \in BOOLEAN, src \in Cached /\ ~w => n >= b.began
    PROVE  Settled(b, n, w) \in Batches /\ BatchOK(src, Settled(b, n, w))
<1>1. b.began \in Nat /\ b.began <= version[src]
  BY DEF Batches, BatchOK
<1> DEFINE c == Settled(b, n, w)
<1>2. /\ c \in Batches /\ c.pc = "settled" /\ c.items = n /\ c.warned = w /\ c.began = b.began
      /\ c.held = NoCopy /\ c.print = 0
  BY SettledFits
<1> HIDE DEF c
<1>3. BatchOK(src, c)
  BY <1>1, <1>2, NothingYet DEF BatchOK
<1>4. QED
  BY <1>2, <1>3 DEF c

\* A copy with the fingerprint of now holds all there was when the scan began.
LEMMA ScanFingerprintKeeps ==
    ASSUME ScansInv, NEW s \in Scanners, NEW src \in Enabled, ReadFingerprint(s, src)
    PROVE  ScansInv'
<1> DEFINE b == scanning[s].batch[src]
           c == IF Unchanged(b, version[src])
                THEN Settled(b, b.held.items, FALSE)
                ELSE [b EXCEPT !.pc = "fetching", !.print = version[src]]
<1>1. /\ b \in Batches /\ BatchOK(src, b) /\ version[src] \in Nat
      /\ b.held \in Copies /\ b.held.items \in Nat /\ b.held.print \in Nat /\ b.began \in Nat
  BY ScanBatchKnown DEF Batches, Copies
<1>2. c \in Batches /\ BatchOK(src, c)
  <2>1. CASE Unchanged(b, version[src])
    <3>1. b.held.items >= b.began
      BY <1>1, <2>1 DEF Unchanged, BatchOK
    <3>2. c = Settled(b, b.held.items, FALSE)
      BY <2>1
    <3> HIDE DEF b, c
    <3>3. QED
      BY <1>1, <3>1, <3>2, SettledOK
  <2>2. CASE ~Unchanged(b, version[src])
    <3>1. c = [b EXCEPT !.pc = "fetching", !.print = version[src]]
      BY <2>2
    <3> HIDE DEF b, c
    <3>2. /\ c \in Batches /\ c.pc = "fetching" /\ c.print = version[src]
          /\ c.began = b.began /\ c.held = b.held
      BY <1>1, <3>1 DEF Batches
    <3>3. QED
      BY <1>1, <3>2 DEF BatchOK
  <2>3. QED
    BY <2>1, <2>2
<1>3. SetBatch(s, src, c)
  BY DEF ReadFingerprint
<1>4. /\ UNCHANGED <<domain, version, copy, leased, briefs, evaluated>>
      /\ health' \in [Enabled -> {"unknown", "ready", "degraded"}]
  BY DEF ReadFingerprint, ScansInv, ScansTypeOK
<1>5. /\ copy' \in [Enabled -> Copies]
      /\ \A x \in Enabled : copy'[x].items >= copy'[x].print
  BY <1>4 DEF ScansInv, ScansTypeOK
<1> HIDE DEF c
<1>6. QED
  BY <1>2, <1>3, <1>4, <1>5, ScanBatchKeeps

\* A source answers with what it shows now, later than the fingerprint.
LEMMA ScanAnswerKeeps ==
    ASSUME ScansInv, NEW s \in Scanners, NEW src \in Enabled, AnswerFetch(s, src)
    PROVE  ScansInv'
<1> DEFINE b == scanning[s].batch[src]
<1>1. /\ b \in Batches /\ BatchOK(src, b) /\ version[src] \in Nat
      /\ b.began \in Nat /\ b.print \in Nat
  BY ScanBatchKnown DEF Batches
<1>2. PICK n \in {version[src]} \cup (IF src \in Cached THEN {} ELSE {0}) :
           SetBatch(s, src, [b EXCEPT !.pc = "answered", !.items = n])
  BY DEF AnswerFetch
<1>3. n \in Nat /\ (src \in Cached => n = version[src])
  BY <1>1, <1>2
<1>4. b.print <= version[src]
  BY <1>1 DEF AnswerFetch, BatchOK
<1>5. /\ [b EXCEPT !.pc = "answered", !.items = n] \in Batches
      /\ BatchOK(src, [b EXCEPT !.pc = "answered", !.items = n])
  BY <1>1, <1>3, <1>4 DEF BatchOK, Batches
<1>6. /\ UNCHANGED <<domain, version, copy, health, leased, briefs, evaluated>>
  BY DEF AnswerFetch
<1>7. /\ copy' \in [Enabled -> Copies] /\ health' \in [Enabled -> {"unknown", "ready", "degraded"}]
      /\ \A x \in Enabled : copy'[x].items >= copy'[x].print
  BY <1>6 DEF ScansInv, ScansTypeOK
<1> HIDE DEF b
<1>8. QED
  BY <1>2, <1>5, <1>6, <1>7, ScanBatchKeeps

LEMMA ScanStoreKeeps ==
    ASSUME ScansInv, NEW s \in Scanners, NEW src \in Enabled, StoreItems(s, src)
    PROVE  ScansInv'
<1> DEFINE b == scanning[s].batch[src]
           c == Settled(b, b.items, FALSE)
<1>1. /\ b \in Batches /\ BatchOK(src, b) /\ version[src] \in Nat /\ b.pc = "answered"
      /\ b.items \in Nat /\ b.print \in Nat /\ b.began \in Nat
  BY ScanBatchKnown DEF Batches, StoreItems
<1>2. c \in Batches /\ BatchOK(src, c)
  <2>1. src \in Cached => b.items >= b.began
    BY <1>1 DEF BatchOK
  <2> HIDE DEF b
  <2>2. QED
    BY <1>1, <2>1, SettledOK
<1>3. /\ SetBatch(s, src, c) /\ UNCHANGED <<domain, version, leased, briefs, evaluated>>
      /\ health' \in [Enabled -> {"unknown", "ready", "degraded"}]
  BY DEF StoreItems, ScansInv, ScansTypeOK
<1>4. [print |-> b.print, items |-> b.items, aged |-> FALSE] \in Copies
  BY <1>1 DEF Copies
<1>5. src \in Cached => b.items >= b.print
  BY <1>1 DEF BatchOK
<1>6. /\ copy' \in [Enabled -> Copies]
      /\ \A x \in Enabled : copy'[x].items >= copy'[x].print
  BY <1>4, <1>5 DEF StoreItems, ScansInv, ScansTypeOK
<1> HIDE DEF c
<1>7. QED
  BY <1>2, <1>3, <1>6, ScanBatchKeeps

\* A fallback carries a warning.
LEMMA ScanFailKeeps ==
    ASSUME ScansInv, NEW s \in Scanners, NEW src \in Enabled, SourceFails(s, src)
    PROVE  ScansInv'
<1> DEFINE b == scanning[s].batch[src]
           reuse == src = HotSource /\ HotFallsBack(b)
           c == CASE src \in FinanceSources -> Settled(b, FinanceFallback(src), TRUE)
                  [] reuse -> Settled(b, b.held.items, TRUE)
                  [] OTHER -> [NoBatch EXCEPT !.pc = "rejected"]
<1>1. /\ b \in Batches /\ BatchOK(src, b) /\ version[src] \in Nat
      /\ b.held.items \in Nat /\ copy[src].items \in Nat
  BY ScanBatchKnown DEF Batches, Copies
<1>2. c \in Batches /\ BatchOK(src, c)
  <2>1. FinanceFallback(src) \in Nat
    BY <1>1 DEF FinanceFallback
  <2>2. [NoBatch EXCEPT !.pc = "rejected"] \in Batches /\ BatchOK(src, [NoBatch EXCEPT !.pc = "rejected"])
    BY <1>1, NothingYet DEF Batches, BatchOK
  <2>3. ASSUME NEW n \in Nat
        PROVE  Settled(b, n, TRUE) \in Batches /\ BatchOK(src, Settled(b, n, TRUE))
    <3> HIDE DEF b
    <3>1. QED
      BY <1>1, <2>3, SettledOK
  <2>4. \/ c = Settled(b, FinanceFallback(src), TRUE)
        \/ c = Settled(b, b.held.items, TRUE)
        \/ c = [NoBatch EXCEPT !.pc = "rejected"]
    <3>1. CASE src \in FinanceSources
      BY <3>1, ScansAssumption
    <3>2. CASE src \notin FinanceSources /\ reuse
      BY <3>2
    <3>3. CASE src \notin FinanceSources /\ ~reuse
      BY <3>3
    <3>4. QED
      BY <3>1, <3>2, <3>3
  <2> HIDE DEF c
  <2>5. QED
    BY <1>1, <2>1, <2>2, <2>3, <2>4
<1>3. /\ SetBatch(s, src, c) /\ UNCHANGED <<domain, version, copy, leased, briefs, evaluated>>
      /\ health' \in [Enabled -> {"unknown", "ready", "degraded"}]
  BY DEF SourceFails, ScansInv, ScansTypeOK
<1>4. /\ copy' \in [Enabled -> Copies]
      /\ \A x \in Enabled : copy'[x].items >= copy'[x].print
  BY <1>3 DEF ScansInv, ScansTypeOK
<1> HIDE DEF c
<1>5. QED
  BY <1>2, <1>3, <1>4, ScanBatchKeeps

LEMMA EntriesTyped == Entries \subseteq Sources \X Nat
<1>1. \A src \in Enabled : src \in Sources
  BY DEF Enabled, Sources
<1>2. QED
  BY <1>1 DEF Entries

\* A scan begins or ends.
LEMMA BareScans ==
    ASSUME ScansTypeOK, NEW m \in BOOLEAN, NEW d \in BOOLEAN
    PROVE  /\ BareScan(NoScan)
           /\ BareScan([NoScan EXCEPT !.pc = "starting", !.manual = m, !.direct = d])
           /\ \A n \in Nat : BareScan([NoScan EXCEPT !.pc = "pushing", !.left = n])
           /\ \A o \in SUBSET (Sources \X Nat) :
                  BareScan([NoScan EXCEPT !.pc = "asking", !.direct = d, !.offered = o])
  BY NoScanFits DEF BareScan, ScanRecords

LEMMA ScanBeginKeeps ==
    ASSUME ScansInv, NEW s \in Scanners,
           RefuseScan(s) \/ ScanManually(s) \/ \E w \in Windows : ScanDue(s, w)
    PROVE  ScansInv'
<1>1. BareScan(NoScan)
  BY BareScans DEF ScansInv
<1>2. CASE RefuseScan(s)
  <2>1. scanning' = [scanning EXCEPT ![s] = NoScan] /\ UNCHANGED <<domain, version, copy, health>>
    BY <1>2 DEF RefuseScan, EndScan
  <2>2. briefs' \in [Scanners -> {"none", "pending", "completed", "failed"}]
    BY <1>2, OtherScansKeep DEF RefuseScan, EndScan
  <2>3. leased' \subseteq Windows /\ evaluated' \subseteq Sources \X Nat
    BY <1>2, OtherScansKeep DEF RefuseScan
  <2>4. QED
    BY <1>1, <2>1, <2>2, <2>3, ScanBareKeeps
<1>3. ASSUME NEW m \in BOOLEAN, NEW d \in BOOLEAN, BeginScan(s, m, d),
             UNCHANGED <<domain, version, copy, health, evaluated>>, leased' \subseteq Windows
      PROVE  ScansInv'
  <2>1. BareScan([NoScan EXCEPT !.pc = "starting", !.manual = m, !.direct = d])
    BY BareScans DEF ScansInv
  <2>2. briefs' \in [Scanners -> {"none", "pending", "completed", "failed"}]
    BY <1>3, OtherScansKeep DEF BeginScan
  <2>3. evaluated' \subseteq Sources \X Nat
    BY <1>3, OtherScansKeep
  <2>4. QED
    BY <1>3, <2>1, <2>2, <2>3, ScanBareKeeps DEF BeginScan
<1>4. CASE ScanManually(s)
  BY <1>3, <1>4, OtherScansKeep DEF ScanManually
<1>5. ASSUME NEW w \in Windows, ScanDue(s, w)
      PROVE  ScansInv'
  BY <1>3, <1>5, OtherScansKeep DEF ScanDue
<1>6. QED
  BY <1>2, <1>4, <1>5

\* Deliver ends the scan or leaves it pushing.
LEMMA ScanDeliverKeeps ==
    ASSUME ScansInv, NEW s \in Scanners, NEW cited \in SUBSET (Sources \X Nat), Deliver(s, cited),
           UNCHANGED <<domain, version, copy, health, leased>>
    PROVE  ScansInv'
<1>1. PICK r : BareScan(r) /\ scanning' = [scanning EXCEPT ![s] = r]
  <2>1. CASE \E n \in 1..(Cardinality(cited) + 1) :
                 scanning' = [scanning EXCEPT ![s] = [NoScan EXCEPT !.pc = "pushing", !.left = n]]
    <3>1. PICK n \in 1..(Cardinality(cited) + 1) :
              scanning' = [scanning EXCEPT ![s] = [NoScan EXCEPT !.pc = "pushing", !.left = n]]
      BY <2>1
    <3>2. n \in Nat
      OBVIOUS
    <3>3. BareScan([NoScan EXCEPT !.pc = "pushing", !.left = n])
      BY <3>2, BareScans DEF ScansInv
    <3>4. QED
      BY <3>1, <3>3
  <2>2. CASE EndScan(s, "completed")
    BY <2>2, BareScans DEF ScansInv, EndScan
  <2>3. QED
    BY <2>1, <2>2 DEF Deliver
<1>2. /\ briefs' \in [Scanners -> {"none", "pending", "completed", "failed"}]
      /\ evaluated' \subseteq Sources \X Nat /\ leased' \subseteq Windows
  BY DEF Deliver, EndScan, ScansInv, ScansTypeOK
<1>3. QED
  BY <1>1, <1>2, ScanBareKeeps

LEMMA ScanEvaluateKeeps ==
    ASSUME ScansInv, NEW s \in Scanners,
           \/ FilterNovelEvidence(s) \/ AcceptAnswer(s) \/ CorrectAnswer(s) \/ RefuseAnswer(s)
           \/ PushMessage(s)
    PROVE  ScansInv'
<1>1. /\ UNCHANGED <<domain, version, copy, health, leased>>
      /\ leased' \subseteq Windows /\ evaluated \subseteq Sources \X Nat
      /\ briefs \in [Scanners -> {"none", "pending", "completed", "failed"}]
      /\ scanning[s] \in ScanRecords
  BY DEF FilterNovelEvidence, AcceptAnswer, CorrectAnswer, RefuseAnswer, PushMessage, ScansInv, ScansTypeOK
<1>2. ASSUME NEW status \in {"none", "pending", "completed", "failed"},
             EndScan(s, status), UNCHANGED evaluated
      PROVE  ScansInv'
  <2>1. briefs' \in [Scanners -> {"none", "pending", "completed", "failed"}]
    BY <1>1, <1>2 DEF EndScan
  <2>2. BareScan(NoScan) /\ scanning' = [scanning EXCEPT ![s] = NoScan]
    BY <1>2, BareScans DEF EndScan, ScansInv
  <2>3. QED
    BY <1>1, <1>2, <2>1, <2>2, ScanBareKeeps
<1>7. ASSUME scanning' = [scanning EXCEPT ![s] = [scanning[s] EXCEPT !.attempt = 1]],
             UNCHANGED <<briefs, evaluated>>
      PROVE  ScansInv'
  <2>1. [scanning[s] EXCEPT !.attempt = 1] \in ScanRecords
    BY <1>1 DEF ScanRecords
  <2>2. [scanning[s] EXCEPT !.attempt = 1].batch = scanning[s].batch
    BY <1>1 DEF ScanRecords
  <2>3. \A src \in Enabled : BatchOK(src, [scanning[s] EXCEPT !.attempt = 1].batch[src])
    BY <2>2 DEF ScansInv
  <2>4. QED
    BY <1>1, <1>7, <2>1, <2>3, OtherScansKeep, ScanRecordKeeps
<1>8. ASSUME NEW n \in Nat, scanning' = [scanning EXCEPT ![s] = [scanning[s] EXCEPT !.left = n]],
             UNCHANGED <<briefs, evaluated>>
      PROVE  ScansInv'
  <2>1. [scanning[s] EXCEPT !.left = n] \in ScanRecords
    BY <1>1 DEF ScanRecords
  <2>2. [scanning[s] EXCEPT !.left = n].batch = scanning[s].batch
    BY <1>1 DEF ScanRecords
  <2>3. \A src \in Enabled : BatchOK(src, [scanning[s] EXCEPT !.left = n].batch[src])
    BY <2>2 DEF ScansInv
  <2>4. QED
    BY <1>1, <1>8, <2>1, <2>3, OtherScansKeep, ScanRecordKeeps
<1>3. CASE FilterNovelEvidence(s)
  <2>1. CASE NothingCollected(s)
    BY <1>2, <1>3, <2>1 DEF FilterNovelEvidence
  <2>2. CASE ~NothingCollected(s)
    <3>1. PICK kept \in Within(CollectLimit, Collected(s)) :
            LET novel == kept \ evaluated IN
            \/ EndScan(s, "completed") /\ UNCHANGED evaluated
            \/ Deliver(s, {})
            \/ \E offered \in {novel} \cup Within(NovelLimit, novel) :
                 /\ scanning' = [scanning EXCEPT ![s] = [NoScan EXCEPT !.pc = "asking",
                                   !.direct = scanning[s].direct, !.offered = offered]]
                 /\ UNCHANGED <<briefs, evaluated>>
      BY <1>3, <2>2 DEF FilterNovelEvidence
    <3>2. kept \subseteq Sources \X Nat
      BY <3>1, EntriesTyped DEF Within, Collected
    <3>3. CASE EndScan(s, "completed") /\ UNCHANGED evaluated
      BY <1>2, <3>3
    <3>4. CASE Deliver(s, {})
      BY <1>1, <3>4, ScanDeliverKeeps
    <3>5. ASSUME NEW offered \in {kept \ evaluated} \cup Within(NovelLimit, kept \ evaluated),
                 scanning' = [scanning EXCEPT ![s] = [NoScan EXCEPT !.pc = "asking",
                                   !.direct = scanning[s].direct, !.offered = offered]],
                 UNCHANGED <<briefs, evaluated>>
          PROVE  ScansInv'
      <4>1. offered \in SUBSET (Sources \X Nat) /\ scanning[s].direct \in BOOLEAN
        BY <1>1, <3>2, <3>5 DEF Within, ScanRecords
      <4>2. BareScan([NoScan EXCEPT !.pc = "asking", !.direct = scanning[s].direct, !.offered = offered])
        BY <4>1, BareScans DEF ScansInv
      <4>3. QED
        BY <1>1, <3>5, <4>2, ScanBareKeeps
    <3>6. QED
      BY <3>1, <3>3, <3>4, <3>5
  <2>3. QED
    BY <2>1, <2>2
<1>4. CASE AcceptAnswer(s)
  <2>1. scanning[s].offered \in SUBSET (Sources \X Nat)
    BY <1>1 DEF ScanRecords
  <2>2. QED
    BY <1>1, <1>4, <2>1, ScanDeliverKeeps DEF AcceptAnswer
<1>5. CASE CorrectAnswer(s)
  <2>1. scanning' = [scanning EXCEPT ![s] = [scanning[s] EXCEPT !.attempt = 1]]
    BY <1>5 DEF CorrectAnswer
  <2>2. UNCHANGED <<briefs, evaluated>>
    BY <1>5 DEF CorrectAnswer
  <2>3. QED
    BY <1>1, <1>7, <2>1, <2>2
<1>6. CASE PushMessage(s)
  <2>1. CASE /\ scanning[s].left > 1
             /\ scanning' = [scanning EXCEPT ![s].left = @ - 1]
             /\ UNCHANGED briefs
    <3>1. scanning[s].left - 1 \in Nat
      BY <1>1, <2>1 DEF ScanRecords
    <3>2. QED
      BY <1>1, <1>6, <1>8, <2>1, <3>1 DEF PushMessage
  <2>2. QED
    BY <1>2, <1>6, <2>1 DEF PushMessage
<1>9. QED
  BY <1>2, <1>3, <1>4, <1>5, <1>6 DEF RefuseAnswer

\* Collecting begins: what AI HOT's copy holds stands for its fingerprint.
LEMMA ScanOpenKeeps ==
    ASSUME ScansInv, NEW s \in Scanners, OpenSources(s)
    PROVE  ScansInv'
<1> DEFINE Begun(src) == [NoBatch EXCEPT !.pc = "waiting",
                                         !.held = IF src = HotSource THEN copy[src] ELSE NoCopy,
                                         !.began = version[src]]
           r == [scanning[s] EXCEPT !.pc = "collecting", !.manual = FALSE,
                                    !.batch = [src \in Enabled |-> Begun(src)]]
<1>1. scanning[s] \in ScanRecords
  BY DEF ScansInv, ScansTypeOK
<1>2. ASSUME NEW src \in Enabled
      PROVE  Begun(src) \in Batches /\ BatchOK(src, Begun(src))
  <2>1. copy[src] \in Copies /\ copy[src].items >= copy[src].print /\ version[src] \in Nat
    BY DEF ScansInv, ScansTypeOK
  <2>2. PICK h \in Copies : h = (IF src = HotSource THEN copy[src] ELSE NoCopy) /\ h.items >= h.print
    BY <2>1, NothingYet
  <2> DEFINE b == Begun(src)
  <2>3. /\ b \in Batches /\ b.pc = "waiting" /\ b.held = h /\ b.began = version[src] /\ b.print = 0
    BY <2>1, <2>2, NothingYet DEF Batches
  <2> HIDE DEF b
  <2>4. BatchOK(src, b)
    BY <2>1, <2>2, <2>3 DEF BatchOK
  <2>5. QED
    BY <2>3, <2>4 DEF b
<1>3. r.batch = [src \in Enabled |-> Begun(src)] /\ r \in ScanRecords
  <2>1. [src \in Enabled |-> Begun(src)] \in [Enabled -> Batches]
    BY <1>2
  <2> HIDE DEF Begun
  <2>2. QED
    BY <1>1, <2>1 DEF ScanRecords
<1>4. \A src \in Enabled : BatchOK(src, r.batch[src])
  BY <1>2, <1>3
<1>5. scanning' = [scanning EXCEPT ![s] = r]
  BY DEF OpenSources
<1>6. leased' \subseteq Windows /\ UNCHANGED <<domain, version, copy, health, briefs, evaluated>>
  BY OtherScansKeep DEF OpenSources
<1> HIDE DEF r
<1>7. QED
  BY <1>3, <1>4, <1>5, <1>6, OtherScansKeep, ScanRecordKeeps

\* A source grows, a copy ages, an entry is forgotten, the process stops.
LEMMA SourceMoves ==
    ASSUME ScansInv,
           \/ \E src \in Enabled : Publish(src) \/ AgeCopy(src)
           \/ \E e \in Entries : ForgetEntry(e)
           \/ ScanStop
           \/ UNCHANGED scanVars
    PROVE  ScansInv'
<1>1. ASSUME UNCHANGED domain
      PROVE  Enabled' = Enabled /\ ScanRecords' = ScanRecords
  BY <1>1 DEF Enabled, ScanRecords
<1>2. ASSUME NEW src \in Enabled, Publish(src)
      PROVE  ScansInv'
  <2>1. version' \in [Enabled -> Nat] /\ \A x \in Enabled : version[x] \in Nat /\ version'[x] >= version[x]
    BY <1>2 DEF Publish, ScansInv, ScansTypeOK
  <2>2. ScansTypeOK' /\ Enabled' = Enabled
    BY <1>1, <1>2, <2>1 DEF Publish, ScansInv, ScansTypeOK
  <2>3. ASSUME NEW s \in Scanners, NEW x \in Enabled
        PROVE  BatchOK(x, scanning[s].batch[x])'
    <3> DEFINE b == scanning[s].batch[x]
    <3>1. b \in Batches /\ BatchOK(x, b)
      BY ScanBatchKnown
    <3>2. b' = b
      BY <1>2 DEF Publish
    <3>3. b.began \in Nat /\ b.print \in Nat
      BY <3>1 DEF Batches
    <3> HIDE DEF b
    <3>4. BatchOK(x, b)'
      BY <2>1, <3>1, <3>2, <3>3 DEF BatchOK
    <3>5. QED
      BY <3>4 DEF b
  <2>4. QED
    BY <1>2, <2>2, <2>3 DEF ScansInv, Publish
<1>3. ASSUME NEW src \in Enabled, AgeCopy(src)
      PROVE  ScansInv'
  <2>1. \A x \in Enabled : copy'[x] \in Copies /\ copy'[x].items = copy[x].items /\ copy'[x].print = copy[x].print
    BY <1>3 DEF AgeCopy, ScansInv, ScansTypeOK, Copies
  <2>2. copy' \in [Enabled -> Copies]
    BY <1>3, <2>1 DEF AgeCopy, ScansInv, ScansTypeOK
  <2>3. ScansTypeOK' /\ Enabled' = Enabled
    BY <1>1, <1>3, <2>2 DEF AgeCopy, ScansInv, ScansTypeOK
  <2>4. QED
    BY <1>3, <2>1, <2>3 DEF AgeCopy, ScansInv, BatchOK
<1>4. ASSUME NEW e \in Entries, ForgetEntry(e)
      PROVE  ScansInv'
  <2>1. ScansTypeOK' /\ Enabled' = Enabled
    BY <1>1, <1>4 DEF ForgetEntry, ScansInv, ScansTypeOK
  <2>2. QED
    BY <1>4, <2>1 DEF ForgetEntry, ScansInv, BatchOK
<1>5. CASE ScanStop
  <2>1. scanning' \in [Scanners -> ScanRecords]
    BY <1>5, NoScanFits DEF ScanStop
  <2>2. ScansTypeOK' /\ Enabled' = Enabled
    BY <1>1, <1>5, <2>1 DEF ScanStop, ScansInv, ScansTypeOK
  <2>3. \A s \in Scanners, src \in Enabled : scanning'[s].batch[src] = NoBatch
    BY <1>5, NoScanFits DEF ScanStop
  <2>4. \A src \in Enabled : BatchOK(src, NoBatch)
    BY NoBatchOK DEF ScansInv
  <2>5. QED
    BY <1>5, <2>2, <2>3, <2>4 DEF ScanStop, ScansInv, BatchOK
<1>6. CASE UNCHANGED scanVars
  <2>1. ScansTypeOK' /\ Enabled' = Enabled
    BY <1>1, <1>6 DEF scanVars, ScansInv, ScansTypeOK
  <2>2. QED
    BY <1>6, <2>1 DEF scanVars, ScansInv, BatchOK
<1>7. QED
  BY <1>2, <1>3, <1>4, <1>5, <1>6

LEMMA ScansInvInit == ScansInit => ScansInv
<1> SUFFICES ASSUME ScansInit
             PROVE  ScansInv
  OBVIOUS
<1>1. /\ scanning \in [Scanners -> ScanRecords] /\ copy \in [Enabled -> Copies]
      /\ \A s \in Scanners, src \in Enabled : scanning[s].batch[src] = NoBatch
      /\ \A src \in Enabled : copy[src].items >= copy[src].print
  BY NoScanFits, NothingYet DEF ScansInit
<1>2. ScansTypeOK
  BY <1>1 DEF ScansInit, ScansTypeOK
<1>3. \A src \in Enabled : BatchOK(src, NoBatch)
  BY <1>2, NoBatchOK
<1>4. QED
  BY <1>1, <1>2, <1>3 DEF ScansInv

LEMMA ScansInvInductive ==
    ASSUME ScansInv, [ScansNext]_scanVars
    PROVE  ScansInv'
  BY ScanBeginKeeps, ScanOpenKeeps, ScanFingerprintKeeps, ScanAnswerKeeps, ScanStoreKeeps, ScanFailKeeps, ScanEvaluateKeeps,
     SourceMoves DEF ScansNext

LEMMA ScansInvHolds == ScansSpec => []ScansInv
  BY ScansInvInit, ScansInvInductive, PTL DEF ScansSpec

\* The rows, the caches and what each scan is doing keep their types.
THEOREM ScansTypeCorrect == ScansSpec => []ScansTypeOK
<1>1. ScansInv => ScansTypeOK
  BY DEF ScansInv
<1>2. QED
  BY <1>1, ScansInvHolds, PTL

\* A fingerprint is read before the items it is stored with, so a copy is never
\* older than its fingerprint says, and a scan that finds the fingerprint
\* unchanged can use the copy.
THEOREM QuietScansCurrent == ScansSpec => []QuietScanIsCurrent
<1>1. ScansInv => QuietScanIsCurrent
  BY DEF ScansInv, BatchOK, QuietScanIsCurrent
<1>2. QED
  BY <1>1, ScansInvHolds, PTL

-----------------------------------------------------------------------------
(****************************************************************************)
(* TOGETHER. While a service is the one looked at its invariant holds: its  *)
(* steps keep it, and a step of another leaves its variables alone.         *)
(****************************************************************************)

MessagesInv ==
    /\ service = "desk" => DeskInv
    /\ service = "digests" => DigestInv
    /\ service = "server" => LinkInv
    /\ service = "cutover" => CutoverInv
    /\ service = "market" => MarketInv
    /\ service = "targets" => TargetsInv
    /\ service = "page" => PageInv
    /\ service = "briefings" => BriefInv
    /\ service = "relay" => RelayInv
    /\ service = "deals" => DealsInv
    /\ service = "scans" => ScansInv

LEMMA MessagesInvInit == MessagesInit => MessagesInv
  BY DeskInvInit, DigestInvInit, LinkInvInit, CutoverInvInit,
     MarketInvInit, TargetsInvInit, PageInvInit, BriefInvInit,
     RelayInvInit, DealsInvInit, ScansInvInit
  DEF MessagesInit, MessagesInv

LEMMA MessagesInvInductive ==
    ASSUME MessagesInv, [MessagesNext]_messagesVars
    PROVE  MessagesInv'
<1>1. service' = service
  BY DEF MessagesNext, messagesVars
<1>2. (service = "desk" => DeskInv)'
  <2>1. service = "desk" => DeskNext \/ UNCHANGED deskVars
    BY DEF MessagesNext, OwnStep, messagesVars
  <2>2. QED
    BY <1>1, <2>1, DeskInvInductive DEF MessagesInv
<1>3. (service = "digests" => DigestInv)'
  <2>1. service = "digests" => DigestNext \/ UNCHANGED digestVars
    BY DEF MessagesNext, OwnStep, messagesVars
  <2>2. QED
    BY <1>1, <2>1, DigestInvInductive DEF MessagesInv
<1>4. (service = "server" => LinkInv)'
  <2>1. service = "server" => LinkNext \/ UNCHANGED linkVars
    BY DEF MessagesNext, OwnStep, messagesVars
  <2>2. QED
    BY <1>1, <2>1, LinkInvInductive DEF MessagesInv
<1>5. (service = "cutover" => CutoverInv)'
  <2>1. service = "cutover" => CutoverNext \/ UNCHANGED cutoverVars
    BY DEF MessagesNext, OwnStep, messagesVars
  <2>2. QED
    BY <1>1, <2>1, CutoverInvInductive DEF MessagesInv
<1>6. (service = "market" => MarketInv)'
  <2>1. service = "market" => MarketNext \/ UNCHANGED marketVars
    BY DEF MessagesNext, OwnStep, messagesVars
  <2>2. QED
    BY <1>1, <2>1, MarketInvInductive DEF MessagesInv
<1>7. (service = "targets" => TargetsInv)'
  <2>1. service = "targets" => TargetsNext \/ UNCHANGED targetVars
    BY DEF MessagesNext, OwnStep, messagesVars
  <2>2. QED
    BY <1>1, <2>1, TargetsInvInductive DEF MessagesInv
<1>8. (service = "page" => PageInv)'
  <2>1. service = "page" => PageNext \/ UNCHANGED pageVars
    BY DEF MessagesNext, OwnStep, messagesVars
  <2>2. QED
    BY <1>1, <2>1, PageInvInductive DEF MessagesInv
<1>9. (service = "briefings" => BriefInv)'
  <2>1. service = "briefings" => BriefNext \/ UNCHANGED briefVars
    BY DEF MessagesNext, OwnStep, messagesVars
  <2>2. QED
    BY <1>1, <2>1, BriefInvInductive DEF MessagesInv
<1>10. (service = "relay" => RelayInv)'
  <2>1. service = "relay" => RelayNext \/ UNCHANGED relayVars
    BY DEF MessagesNext, OwnStep, messagesVars
  <2>2. QED
    BY <1>1, <2>1, RelayInvInductive DEF MessagesInv
<1>11. (service = "deals" => DealsInv)'
  <2>1. service = "deals" => DealsNext \/ UNCHANGED dealVars
    BY DEF MessagesNext, OwnStep, messagesVars
  <2>2. QED
    BY <1>1, <2>1, DealsInvInductive DEF MessagesInv
<1>12. (service = "scans" => ScansInv)'
  <2>1. service = "scans" => ScansNext \/ UNCHANGED scanVars
    BY DEF MessagesNext, OwnStep, messagesVars
  <2>2. QED
    BY <1>1, <2>1, ScansInvInductive DEF MessagesInv
<1>13. QED
  BY <1>2, <1>3, <1>4, <1>5, <1>6, <1>7, <1>8, <1>9, <1>10, <1>11, <1>12 DEF MessagesInv

LEMMA MessagesInvHolds == MessagesSpec => []MessagesInv
  BY MessagesInvInit, MessagesInvInductive, PTL DEF MessagesSpec

\* Every variable of the service that is looked at keeps its type.
THEOREM MessagesTypesCorrect == MessagesSpec => []TypesOK
<1>1. MessagesInv => TypesOK
  BY DeskInvEnough, DigestInvEnough, LinkInvEnough, CutoverInvEnough, MarketInvEnough,
     TargetsInvEnough, PageInvEnough
  DEF MessagesInv, TypesOK, BriefInv, RelayInv, DealsInv, ScansInv
<1>2. QED
  BY <1>1, MessagesInvHolds, PTL

\* Nothing is shown or answered twice: a message of a day's digest, an item the
\* old project showed before the move, a question of the server of Codex.
THEOREM MessagesShownOnce == MessagesSpec => []ShownOnce
<1>1. MessagesInv => ShownOnce
  BY DeskInvEnough, DigestInvEnough, CutoverInvEnough DEF MessagesInv, ShownOnce
<1>2. QED
  BY <1>1, MessagesInvHolds, PTL

\* What is heard, told and shown is so: last night is the last session, the
\* server's messages are heard in order, an acknowledged change stands, and a
\* page shows what its reader may read.
THEOREM MessagesShowWhatIsSo == MessagesSpec => []ShownIsSo
<1>1. MessagesInv => ShownIsSo
  BY MarketInvEnough, LinkInvEnough, TargetsInvEnough, PageInvEnough DEF MessagesInv, ShownIsSo
<1>2. QED
  BY <1>1, MessagesInvHolds, PTL
=============================================================================
