# TLA+ for Totemora

Specifications, model-checking configurations and machine-checked proofs kept beside the
Totemora server. Source paths below are relative to `src/packages/server/src/` unless they
start with `docs/` or `packages/`.

| Files | What they are |
| --- | --- |
| `EffectOnce`, `ActionJournal`, `ActionJournalProofs` | the promise of the journal, the journal as the code runs it, the proofs |
| `CodexLeases`, `CodexSupervisor` and their `…Proofs` | leases, and the supervision of one Codex thread |
| `CodexDesk`, `CodexDigests`, `AppServerLink` | questions and answers, scheduled digests, the connection to the App Server |
| `NotificationDispatch`, `Reminders` and their `…Proofs` | one envelope to several targets; the reminder service and its runner |
| `Channels`, `Intelligence`, `Scans`, `Feedback`, `IntelligenceProofs` | intelligence from the scan to the push and the readers' answers; proofs about pushes and answers |
| `Briefings`, `MarketSnapshot` | the finance briefings and their quotes |
| `Deals`, `ForwardedRelay`, `BarkTargets`, `Cutover` | the other senders, the file of targets, the move from the old project |
| `OperatorPage` | the login of the web console |
| `MessagesProofs` | proofs about what is read and sent: desk, digests, link, cutover, market, targets, console, briefings, relay, deals, scans |
| `SpecialistTasks`, `GitFlow`, `SkillTrials`, `SkillRegistry` | durable tasks, governed development, Skills |
| `Content`, `Growth`, `Runs` | the content studio, members, general Runs |
| `WorkProofs` | proofs about the members' work: the seven modules above, and the journal for strict callers |
| `MC*.tla`, `MC*.cfg` | instances for TLC |
| `PROJECT.json` | components, runs, mutants, source map, findings, hazards, theorems |

## 1. The system

Totemora's Gateway is one Bun process over one SQLite file (WAL). Several CLIs open the same
file, so a database transaction is the unit of atomicity, and inside the process JavaScript
interleaves handlers at every `await`. Everything that acts on the outside world goes
through a few narrow places, and those are where a fault would matter.

### Inventory

State, operations, neighbours, what is hard, and what makes the component correct.
*M* modelled, *P* partly, *–* not modelled.

**Effects**

| | Component | State | Operations | Works with | Hard | Correct if |
| --- | --- | --- | --- | --- | --- | --- |
| M | Action journal (`action-journal.ts`) | `action_journal` rows with a five-minute lease | `reserve`, `finalize`, `executeOnce`, `executeEffectOnce`, `importLegacy` | every sender | lapsed leases, crash between effect and receipt, lost answers, failing writes | an effect happens at most once; the row does not lie; nothing is retried that may have happened |
| M | Notification dispatch (`application/notification-dispatcher.ts`) | none of its own | `dispatch` to each target, aggregate the outcomes | journal | some targets of several fail | a retry reaches only targets without a receipt |
| P | Bark (`bark-notification-service.ts`) | targets in a file, breakers | change targets, send | journal, intelligence | a breaker read before the request and written after it; file and audit in two steps | an acknowledged change stands |
| P | Telegram bot (`telegram-bot-service.ts`) | breaker of all chats | send, webhook | journal, feedback | updates repeated while handled | an update is replied to once |
| M | Deals (`application/deals-service.ts`) | deals, windows | collect, freeze a window, send, mark | dispatch | failed window sent again, stops | no deal shown twice |
| M | Forwarded relay (`application/forwarded-relay-service.ts`) | cursor, events | poll, ingest, forward | dispatch | a cursor in seconds against a growing topic | nothing behind the cursor is missing |

**Codex**

| | Component | State | Operations | Works with | Hard | Correct if |
| --- | --- | --- | --- | --- | --- | --- |
| M | Leases | `codex_leases`, the map `leasePairs` | `acquirePair`, `renew`, `release` | dispatcher | expiry, two processes, moved worktrees | two worktrees at most; pairs stay whole; a fence never comes back |
| P | State machine, reconciler, dispatcher, event handler, service, runner | `codex_threads`, `codex_directives` | `cycle`, `dispatchQueued`, `handle`, manage, pause, resume, stop, instruct | App Server, leases | stale pages and revisions across awaits, lost answers, crashes | no delivery is repeated; verdicts are justified; supervision goes on |
| M | Interactions; P: Telegram controller | `codex_interactions` | raise, announce, answer, expire, lose | service, App Server, Telegram | buttons of several chats, expiry, reconnects | a question is answered once |
| M | App Server client, transport, connector | sockets, buffers, pending requests | connect, read, call, disconnect | runner, service | bytes behind the handshake, fragments, old connections that close late | messages in order; a question open only on the link in use |
| M | Scheduled delivery | subscriptions, windows | subscribe, revoke, publish | journal | other keys, midnight, stops | one message a day |
| – | Thread observer, agent capabilities | observed rows, tokens | | | one statement each | |

**Members' work**

| | Component | State | Hard | Correct if |
| --- | --- | --- | --- | --- |
| M | Recurring runner; P: reminders | service rows; items, windows | overlap, stale lists, restarts between send and record | a window once per target; a settled one stays settled; a failed one is settled |
| M | Intelligence pool and dispatcher; P: scans, feedback | candidates with claims; feeds and caches; updates | claims that lapse under a call, breakers, several channels, fingerprint against items | no candidate twice, one per event, pushed only with receipts; nothing new is overlooked; one reply |
| P | Finance briefings; M: market snapshot | briefings, windows, quotes | retry in a later minute, the watch that shares the minute; sessions and time zones | one text for all; the watch goes on; "last night" is last night |
| M | Specialist tasks | jobs in a map and a store, envelopes | two writes, hydration | one job per key; no envelope ahead of its job |
| P | Governed development | proposals, Git, GitHub | calls that overlap on a copy, lost answers, edits | one Issue; completed means merged as reviewed |
| M | Skill commission and trial; P: registry | commissions, drafts, trials, leases; files and cache | late replies, late trials, stale listings | an activation has its trials; a preview was scanned |
| M | Content studio | one document per work, notes | whole-document writes | a copy is counted once; a settled note stands |
| M | Members | credit, versions, proposals | two proposals on one credit | each version was earned |
| P | General Runs | job, row, request, trace | parallel calls on one budget, four records | within budget; records agree |
| M | Move from the old project | two databases | copies taken too early, repeated imports | nothing shown twice |
| P | Web console | token in `localStorage`, revision in the tab | answers that arrive after a logout | a page shows what its login may read |

**No protocol of their own**: `state-database.ts` and the migrations (a committed
transaction is one step of a model), the HTTP gateway and the CLIs, evidence and ability
templates, OpenCode (one journalled call), `packages/providers`, `packages/mcp`,
`packages/tui`. `PROJECT.json` lists each with its reason.

### How the modelled parts interact

```
 operator (HTTP) ──► CodexSupervisorService ──► codex_threads / codex_directives
                              ▲                        ▲            ▲
 runner ── every 5 s ──► cycle: reconcile ── dispatch ─┘            │
                              │      └─ ensureLease ──► codex_leases│
                              ▼                                     │
                       App Server client ── notifications ──► event handler
                                                              (releases leases)
 every other sender ──► ActionJournal ──► external service
```

The supervisor module sees the leases only as *none / held / stale* for its one thread;
`CodexLeases` says which of these changes the table allows for many threads and processes.

## 2. Plan

Order by what a fault would cost; every step is done unless it says otherwise.

1. Action journal, with `EffectOnce` as its abstract specification.
2. Codex leases, then the supervisor, the largest concurrent protocol of the code.
3. Notification dispatch and reminders, with the recurring runner.
4. Intelligence: pool, dispatcher, channels; proofs of its three promises.
5. Durable work: tasks, Git Flow, Skill trials and registry, content, growth, Runs.
6. What is read and sent: desk, digests, link, feedback, scans, deals, relay, briefings,
   market data, targets, cutover, console.
7. Proofs for every service of `MCWork` (`WorkProofs`) and of `MCMessages` (`MessagesProofs`), and
   for the compositions themselves; feedback (`IntelligenceProofs`); types and verdicts of the
   supervisor. Every invariant that a passing run checks is now a theorem.
8. Left: the parts that section 7 names. What TLC alone checks is liveness, see section 6.

## 3. The modules

### ActionJournal

`row` is the table, `caller` the program counter of each concurrent call, `wire` the attempts
whose request the external service may still act on, and `applied` the attempts whose effect took
place; the last two are not in the code and make its promise sayable. `Reserve` has one disjunct
per return and throw of `reserve`; `Operate` is the awaited operation; `Settle` the writes after
it, with the paths on which a write itself fails. A lease lapses (`Lapse`) whenever it likes, also
under a running operation. `Crash` stops a call anywhere. `Init` includes tables that
`importLegacy` left. Lease tokens, random in the code, are attempt numbers. `StrictCallers` use
`executeOnce`, which has no caller but the journal's tests.

`EffectOnce` has two variables and three steps (take effect, complete, doubt). The mapping
reads *absent, executing, failed* as open.

### CodexLeases

One row per thread and per worktree (`lease`), and what each process remembers (`pairs`).
`expires_at` is the number of ticks left. `Acquire` and `Renew` are the two sides of
`ensureLease`; `ReleasePair` and `ReleaseRows` the two sides of `releaseThread`. A worktree
is a parameter of `Acquire` and not of `Renew`, as in the code: a thread whose workplace
moves goes on renewing its old one. A process that restarts is a new owner.

### CodexSupervisor

One supervised thread. A step is the code between two awaits:

| Variable | Code |
| --- | --- |
| `thread` | the row of `codex_threads`; clocks are flags (`timeout`, `cooling`, `limit`) |
| `current` | which handlers hold the row's current revision. Each write bumps the revision, so only equality matters |
| `directive` | the rows of `codex_directives`; `sent` notes that a request left the process |
| `ask` | the open interaction |
| `cycle` | where `cycle()` awaits, with the plan made from the page it read |
| `op` | an operator request that awaits the App Server |
| `pair` | the thread's leases as this process knows them |
| `link`, `server`, `inbox` | connection, the turn that really runs, frames on their way |
| `events` | bound on disturbances |

`evaluateCodexThread` is the ordered list `Rules`, the first that applies decides. The
reconciler's actions are `Snapshot` … `QueueDirective`, the dispatcher's `LeaseNext` …
`DeliverySettled`, the event handler's `Handle…`, the service's `ManageThread` …
`AnswerServerInteraction`. The response of a request resolves a promise: the frames that
arrived in the same chunk are handled first (`HandleResponse`, the state *accepted*), which
is how the transport's `consume` behaves.

Abstractions:

- one thread; other managed threads appear as the time their reconciliation takes between
  the page and the decision, and they do not use up a cycle's two deliveries;
- one open interaction at a time; bound `Slots` on directives that are not settled;
- amounts (tokens, hours) are the event that the limit is reached;
- `enqueue` and the following `transition` in `queueDirective` are one step: nothing awaits
  between them;
- a turn that a timed-out request starts late appears as a turn of another client
  (`DesktopTurn`);
- turn ids are reused once nothing mentions them.

### NotificationDispatch and Reminders

`NotificationDispatch` has no `Init` and no `Next`: `Reminders` instantiates it over its own
windows and runs. `row` is the journal row of each key and target as `executeEffectOnce`
sees it, `call` the dispatch under way with what each target answered, `delivered` how often
a target took the message. `Reserve` is the synchronous part of `Promise.all`: all targets
are reserved before one answers. An answer is one step (`Accept`, `Reject`, `LoseAnswer`,
and two for a `finalize` that throws); how the lease protocol itself behaves is the subject
of `ActionJournal`. `Abandon` is the end of the process.

`Reminders` is one run of `runDue` between its awaits:

| Variable | Code |
| --- | --- |
| `now` | index into `Times`, the moments at which the minute timer may start a run |
| `item`, `window` | `reminder_items`, `reminder_delivery_windows` with the recorded result |
| `running` | the runner's flag against overlaps |
| `run` | windows still to go through (`todo`), the one being sent, the items listed at the start for the digest |
| `row`, `call`, `delivered` | of the dispatcher |

`StartRun` is the code up to the first window: expire, list, and the windows that the clock
at the start makes due (`Agenda`, `ESCALATION_SLOTS` entire). The order is the code's: the
digest, then items by deadline and importance; equal ones fall either way, since ids are
random. A window is skipped, recorded as empty, or dispatched (`StartDispatch`, `Resolve`)
and recorded (`Record`, `RecordAsFailed`, `RecordThrows`). Reserving is tied to the run's
clock and list, everything else may have moved on. An item's text never changes, so an
escalation's payload is its item, and the digest's is the set it lists. The system clock is
taken not to run backwards.

### Intelligence, with Channels, Scans and Feedback

Candidates are numbered by insertion; `worker` is a call of `pushNext` with the candidate it
claimed and what each target answered. `Claim` is the transaction of `claimNext` with its sweep of
claims older than five minutes. `Send` reserves the journal row and reads the breaker, `Accept`,
`Refuse` and `Silence` are the answers; `Complete`, `Block`, `Retry` and `Fail` the branches of
`pushNext` behind the last target. They write only under the claim token (`HoldsClaim`), which a
swept call no longer has. `Ingest` reads the newest `KeyLimit` rows of the event (20) and the
newest `NearLimit` of the source (100), and only then looks at their status (`Counting`); rows of
one scan, which share their `created_at`, are taken in the order they were inserted. Bark targets
are sent to together, then the chats. `Channels` has no `Init` and no `Next`; a breaker is read
before the request and written after it, so sends overlap in it.

`Scans` ends where a candidate is inserted or a direct brief pushed. Both watches are in it; they
share no row, so `domain` says which one a behaviour is of. A source publishes versions
(`version`), of which version *v* shows the entries 1..*v*. `scanning` holds for each scan what
it keeps in local variables: per source a batch (the copy read when collecting began, the
fingerprint read, the items collected), then what was offered to the model, which attempt this is
and what is left to push. AI HOT is the only source with a fingerprint: `ReadFingerprint`,
`AnswerFetch` and `StoreItems` are its three stretches between awaits, and `StoreFingerprint`
the write that an equal fingerprint causes; finance sources are fetched every time and each
has a cached copy that ages; plain feeds have none. `FilterNovelEvidence` and the answers
(`AcceptAnswer`, `CorrectAnswer`, `RefuseAnswer`) follow the one correction the code allows.
`began` is a ghost: what the source published when the scan began to collect it.

`Feedback` is the webhook, the web page and the links of Bark messages. `entry` is the journal
row of an update, `handler` what each request has in hand: the row it records, whether it found
the row new (`fresh`), and the lease it holds. Recording, credit, timeline and reply are steps
of their own, since the process can stop between any two. A reply goes through the breaker of
`Channels`. `link` is a row of `feedback_callbacks`.

### Work: SpecialistTasks, GitFlow, SkillTrials, SkillRegistry, Content, Growth, Runs

Each has one action per stretch of code between two awaits. Where the code reads a record as a
whole and writes the whole back, the model keeps the caller's copy (`call` in `GitFlow`, `redraw`
in `Content`, whose ghosts `uses` and `overlapping` count what the copy button was pressed for).
Outside parties are small: in `GitFlow` the working tree is the number of the last edit, what is
uncommitted, staged and at HEAD, and GitHub (`hub`) the Issues and the pull request there are; in
`SkillRegistry` a file is the number of its text, and the scan reads a package twice, for its
checks (`ReadPackage`) and for its digest (`HashPackage`). `overlapped` in `GitFlow` records that
two approvals were executed at once, which the code does not prevent, see section 5. Tokens in
`Runs` are counted in units of the smallest output worth asking for.

`SkillTrials` has the commissions of one Skill of one member, so that they compete. `commission`
is the row with its package and its activation, `replies` the call of the Chief under way and
whether its revision is still current, `flowTask` the evaluation that an operator's Git Flow task
produced, with what it had loaded, and `trials` what was recorded. An automatic trial is `run` with
`trialTask`, its specialist task, `executing`, where a process is with it, and the `lease` of its
commission; baseline, trial, review and record are separate steps, and a lease may lapse between
any two. Evidence counts if it is of the same situation and was loaded with the package on
trial (`Recordable`). `overlay` is the older governance: additions that an operator approves.

In `Runs`, `promised` is what the calls that are out have reserved of a task's budget, `used` what
answers were counted at, and `over` by how much a provider counted more than was reserved for it.

In `SpecialistTasks` a job is in the store (`job`) and in the map (`jobMap`), its envelope is
`taskRow`, and `call` says where the process is with it.

### Messages: CodexDesk, CodexDigests, AppServerLink, ForwardedRelay, Deals, Briefings, MarketSnapshot, BarkTargets, Cutover, OperatorPage

Journal rows appear with the outcomes `executeEffectOnce` has in `ActionJournal`. In
`AppServerLink` the wire carries frames, with the split of chunks that matters (what follows the
handshake, fragments, control frames in between), and a crash (`LinkCrash`) leaves the rows of
`codex_interactions` as they are, with a connection that no longer exists. `Cutover` is four
importers of one shape, told apart by `kind`. `MarketSnapshot` counts half hours; the sessions of
`ShortDays` close three hours early. In `ForwardedRelay`, `looked` and `first` are ghosts: the
second of the last successful poll, and the second from which on the polls have looked without a
gap. `OperatorPage` has the tabs of a browser that share `localStorage` and hear of its changes
later.

## 4. The runs

| Run | Instance | Shows |
| --- | --- | --- |
| `journal` | 1 key, 2 bodies, 3 callers, 3 attempts; 31,506 states | at most one effect, truthful rows, the refinement of `EffectOnce` |
| `leases` | 3 threads, 3 worktrees, 2 owners, 2 places, ttl 2, fences ≤ 2; 79,984 states | the limit, pairs whole in both directions, no return of a stale pair |
| `supervisor` | 2 directives, 2 turns, all 16 kinds of disturbance, 3 of them; 361,832 states | types, no replay, one own directive, justified completion, exhausted failure |
| `supervisor_live` | 1 directive, 3 disturbances, among them crashes, contention and expiry | directives end, supervision acts |
| `reminders` | 2 items, 2 targets, 2 days, 3 windows, 2 disturbances; 493,786 states | nothing twice, settled windows stay settled |
| `live` | reminders with 1 target, briefings with 1 receiver, deals, no symmetry; 93,605 states | a failed escalation is settled in time; the finance watch gets its turn; a deals window with an abandoned post is settled |
| `intelligence` | 2 candidates of 1 event with 2 faults or 3 with none, 2 calls, a Bark target, a chat; or 2 requests on 1 update and 2 links, 1 stop; 890,667 states | no candidate twice, one live per event, pushed means receipts; one reply per update, credit goes through |
| `work` | eight services, two of what may overlap in each; 1,174,952 states | see below |
| `messages` | eleven services, two of what may overlap in each; 1,318,466 states | see below |

Three more runs end in a counterexample, see section 5.

`work`, `messages` and `intelligence` compose services that share no state in the models (what
they share in the code, the journal, has its own module and appears in each as rows that only
`executeEffectOnce` would leave; pushes and answers also share the breakers, which each part
changes in every way the other could). The product of services that share nothing adds no
behaviour to any of them, so the first state chooses the `service`. The modules of the services
are extended, so their constants stand in the .cfg and their assumptions are evaluated; only the
journal, whose names are common ones, is an instance (`Journal!…` in `MCWork`, with its bounds in
the module).

| Property | Services | Says |
| --- | --- | --- |
| `Approved` | Git Flow, growth | one Issue per proposal, and completed in mode *merge* only by a merge of what was reviewed, when no two approvals ran at once; a version of a member rests on credit earned under the version before |
| `ReservedOnce` | general Runs, journal | counted and promised tokens within the budget; job, row, request and trace agree; with `executeOnce` a live lease has one holder |
| `UsesCounted`, `NoteStands` | content | uses are counted but for those a redraw overlapped; a note that is settled or in doubt stays so |
| `ActivationEarned`, `SettledRunsStay` | Skill trials | an activation rests on accepted trials of this very package and is the only one; a run that ended is written no more |
| `OneJobPerKey`, `EnvelopeBehindJob` | tasks | a key leads to one job; no envelope is ahead of its job |
| `PreviewWasScanned` | Skill registry | no text is shown that no scan has checked |
| `ShownOnce` | digests, cutover, desk | one digest a day, one showing of an item across the move, one answer to a question |
| `ShownIsSo` | market, link, targets, console | "last night" is the last session, but for a shortened one of the next day; messages in order, open questions only on the link in use or left by a crash; an acknowledged change stands; a page shows what its login may read |
| `OneTextForAll` | briefings | all receivers get one text |
| `NothingLeftBehind` | relay | what is behind the cursor, and was in reach, is stored |
| `DealShownOnce` | deals | no target is shown a deal twice |
| `QuietScanIsCurrent` | scans | a source that settles without a warning has all it showed when the scan began |

`TypesOK` of `work` and `messages` is the conjunction of the services' type invariants. Of the
others TLC checks the supervisor's; all of them are proved (section 6).

**Why the bounds are enough.** Keys of the journal do not interact, so one is enough; three
callers give a holder, a successor and a bystander, and three attempts two retries. In the lease
table three threads and worktrees exceed the two places by one, and two owners are a process and
its successor or competitor; a fence of two lets each row be granted again. For a supervised
thread two directives are one of the supervisor and one of the operator; a third would only wait.
`MaxInfra`, `MaxStrategy` are 1 and `MaxAttempts` 2 instead of 3, 5 and 3: a counter that is at,
below or above its limit. For reminders two targets can fail differently, two items are one with
two slots and an expiry and one for the digest, and two runs let the runner's guard matter. Two
disturbances are a failure and a second failure, a restart or a change of the list. In
`intelligence` two candidates are one that is being pushed and one that would replace it; three,
with `KeyLimit` 1 and neither pushed, are one that was stored so many evaluations ago that a third
does not see it; two calls are the holder of a claim and who swept it; `OpenAfter` 2 (the code: 3)
opens a breaker within the bound. In `work` and `messages` sets of two are two overlapping calls,
one restart lets each action be interrupted, and three (hours, texts, proposals) are one more than
two that could be confused; one trading day is shortened. Every action and disjunct is taken in a
passing run. Symmetry is used for safety only.

**Deadlock** is checked where a system never stops by itself: journal, supervisor, reminders.
Elsewhere bounded supplies (fences, faults, texts, hours, days) end behaviours.

**Fairness.** Journal: none. Nothing in the code sweeps executing rows, and whether a caller comes
back for a key is its own affair: a content note that a stop left pending is never taken up again
(section 5), a deals window is, each minute. That is stated of the deals: the minute timer fires,
requests end, and the lease of an abandoned row runs out, so the calls with its key cannot find it
alive for ever (strong fairness of `MarkAbandonedPost`). Supervisor: the runner reschedules itself
after each iteration (`iterate`'s `finally`), a request is answered, times out or is rejected with
its connection, frames are read, time passes, the runner reconnects and scans. Nothing is assumed
of the operator, and a turn may run for ever. Leases are refused for contention and run out.
`supervisor_live` leaves out answers that get lost; a delivery in doubt comes of crashes there.
`DirectiveLeavesQueue` and `SupervisionActs` name the one state in which supervision gets stuck
(`RefusedForOldPair`), and that nothing but `PairWithoutTurn` leads to it, see section 5.
Reminders: the minute timer fires, a run goes on when what it awaits has answered, leases run out,
and a target that is not one of the bounded failures accepts (HTTP clients have timeouts). Time
need not pass. Briefings: the minute timer fires and a call goes on. Windows are read off the
clock and pass whether they were claimed or not (`NewWindow`); a grace period need not end, and
`WatchGoesOn` says what happens outside of all of them (`Quiet`). No target need ever accept.

Each property of a passing run has a mutant, a plausible slip in one of the modelled
operations (named beside the original in the module, marked *Mutant of*), under which
TLC finds it violated. Modules hold further mutants that `PROJECT.json` does not list: where one
property stands for several services, they break its other parts.

## 5. Where code and documentation disagree

Shown by a run:

| Run | Text | What happens |
| --- | --- | --- |
| `pause_continues` | `docs/codex-supervisor.md`:85, a pause prevents the turns that follow | a directive already leased is not cancelled; after the await of `thread/resume` the dispatcher sends it without looking at mode or phase |
| `complete_unverified` | `docs/codex-supervisor.md`:18, a verification turn precedes success | while verifying, any turn's completion counts, also that of a turn which is not the verification, with the verify directive still queued |
| `digest_conflict` | `docs/reminders.md`:29, a failed target is retried with the same key | the digest is built anew with the same key; if its list changed, the journal refuses the body, to the target that failed and to the one that succeeded, and the day's digest stays failed |

Met while modelling, and in the models as the code has it:

- Supervisor: start or steer is chosen when an instruction is queued and not looked at again
  (`docs/codex-supervisor.md`:16); a `turn/completed` during `thread/resume` releases the pair the
  dispatcher then sends under (:15). After a delivery in doubt, or leases taken for a thread that is
  active with another client's turn, no turn's end releases the pair; once it has run out each
  further directive is refused and put back every five seconds until a restart
  (`application/codex-directive-dispatcher.ts`:119).
- Git Flow: two approvals may both pass the check across the await of `collectGitSnapshot`; a
  process that stops while executing, publishing or merging leaves the proposal there; a changed
  policy does not invalidate an approval that has begun (`docs/development-commit-steward.md`:33,
  `development-service.ts`:339).
- Skill trials: trials need not be independent (`docs/skill-governance.md`:135). Only a package
  drafted on the built-in version is loaded for a trial (`Loadable`), so for `git.flow` an
  activation never supersedes another, and once an addition of the overlay is approved no new
  commission can be tried. The overlay's `approve` marks the old addition superseded and may then
  throw (`skill-governance-store.ts`:82).
- Tasks: a job whose services cannot be bound stays queued, and its key keeps returning it until
  a restart; envelopes of interrupted jobs need not converge (`docs/stability-drills.md`:17).
- Content: a stop between the saved copy and `remember` loses the credit; a note left pending by a
  stop is not taken up again (`content-notification-repository.ts`:36). A copy made while a redraw
  is on its way is written over with the record from before it (`content-studio-service.ts`:324):
  it is missing from the count, and the next is taken for the first.
- Intelligence: the limits of 20 and 100 rows come before the filter by status
  (`intelligence-candidate-store.ts`:115, 131), so a candidate that waits is missed after twenty
  newer evaluations of its event, and another one is queued beside it.
- Desk: a refused notice throws before the daily summary of the same minute
  (`docs/codex-supervisor.md`:151); an answer recorded before a crash stays `answered`.
- Digests: a failed digest uses up the day's window for another key; a retry with a regenerated
  body is refused.
- Feedback: a stop between the feedback row and the credit loses the credit. The same opinion
  from web and Telegram makes two rows and is credited once.
- Scans: a window claimed before a stop is not scanned again; a slow finance collection that
  began earlier overwrites a newer cache (`finance-source-registry.ts`:243).
- Relay: one malformed message, or more than a hundred, fail every later poll; twenty oldest
  events that keep failing hold up the newer. While no message has been seen there is no cursor
  and each poll looks back 600 seconds from its own beginning
  (`application/forwarded-relay-service.ts`:45, `repositories/forwarded-repository.ts`:76): after
  an empty first poll and a longer outage, what was published in between is never read.
  `NothingLeftBehind` leaves out this gap and no other.
- Deals: a window that keeps failing holds up the collection; one target in doubt ends the window
  for one that refused.
- Runs: a stop between `completeRequest` and the job's row leaves a request completed and a job
  failed; a restart does not settle the mission's request; `retryRun` twice makes two jobs.
- Registry: a scan that began before a change is cached after it; the text a scan checks for secrets
  and the text it hashes are two readings. A preview checks again what it shows
  (`skill-registry-service.ts`:362).
- Growth: eligibility read before an await lets two proposals pass the cooldown
  (`docs/adr/0011`:40).
- Link: a malformed message leaves its socket open, for `handleDisconnect` forgets the transport
  before `close`; a question that arrives before the connection is attached is dropped. A process
  that crashes leaves its questions open, bound to a connection that is gone, and nothing recovers
  them (`application/codex-supervisor-service.ts`:42).
- Market: when the session of the next day is shortened, an answer without its bar, or the cache,
  may still be called "last night" until thirty hours after the opening of the session before,
  though the shortened one has closed by then (`finance-market-snapshot-service.ts`:222).
- Console: a late 401 for an old token logs out the new session; a validation under way in one tab
  stores its token again after a logout in another.

## 6. The proofs

TLAPS checks these for all values of the constants, under the modules' ASSUMEs (`…Assumption`, one
in each module with constants that matter). They say that bounds are naturals (some of them
positive), that markers are not members, that what is counted is finite, and little more: that a
digest has something to be about, days and half hours count from zero and shortened days are
trading days (`MarketAssumption`), that ingest looks back at one row at least, and that there are
the four importers of the code (`CutoverAssumption`). TLC evaluates all of them. Every module with
a specification has a type invariant, and it is proved: by a theorem of its own (`…TypeCorrect`),
and for the services of the two compositions also by `WorkTypesCorrect` and
`MessagesTypesCorrect`. Every invariant of a passing run is a theorem. The inductive invariants
were model-checked on the instances of the runs before they were proved.

**Journal.** `EffectAtMostOnce`; `RowsTruthful` (with
`NoRequestBehindRetry` and `ReceiptMatchesRequest`); `RowsNeverRewritten`;
`JournalKeepsPromise`. `AtMostOnce` is not inductive: that an effect does not repeat depends
on who is still in flight. `JournalInv` says so: what is on the wire or applied belongs to
the row's last attempt; a call in flight holds that attempt, alone; and how far it has come
agrees with the wire. Type correctness and final rows hold with `executeOnce` callers too.
The other safety theorems and the refinement assume that a key is used with
`executeEffectOnce` only (`StrictCallers = {}`), as every caller in the code does;
`executeOnce`, which only the journal's tests call, runs again after a lapsed lease. What is left of
the promise then is `OneHolderOfALease`, for any callers: the lease of a row has one holder
(`LeasesApart`: the calls in flight for a key carry attempts the row has granted, and no two the
same).
`JournalKeepsPromise` maps the initial tables and each action to a step of `EffectOnce` or a
stutter.

**Leases.** `ConcurrencyLimited`, `PairsLiveTogether`,
`OneWorktreeLeased`, `StalePairsStayStale`. The limit is inductive with typing and uses
cardinality facts on the set of live worktrees. The others need `LeaseInv`: a running
process has in its map every pair it keeps a worktree leased with (`Tracked`), and a live
thread row belongs to its thread. A thread row without its worktree is excluded on top of this
(`NextThreadHasWorktree`): what gives a worktree away, releases or shortens one row does so to both.

**Supervisor.** `NeverReplayed` and `NeverTwoOwnDirectives`, from `SupervisorInv`: the
directive the cycle delivers is leased (`DeliveryLeased`) and unsent until it is sent
(`UnsentBefore`), and while an alignment awaits, the supervisor has nothing pending
(`AloneWhileAligning`; this is why the alignment's enqueue needs no second look).

`CompletionsJustified` and `FailuresExhausted` come from `TypesInv`. The verdict in a plan was right
for the row the page showed, and it is used after awaits, so the invariant is about the row
of now: `PlanInv` says that while the cycle holds the current revision (`Fresh`), the row still
justifies what the plan says for each question that may be open. It holds because every write of
another handler bumps the revision, and the two steps that change the row without a write, the
clock's, touch nothing a verdict rests on. Nothing is known of a stale plan, and nothing need
be: `Finish` throws it away. What a verdict says is the lemma `Decisive`: `evaluateCodexThread` is
the first of twenty rules that applies (`FirstRule`), so *complete* and *fail* carry the negations
of the rules before them. `LeftInv` and `SteerInv` are for the types alone: a delivery under way
has been counted, and a steer names a turn.

**Notification dispatch and reminders.** `NotificationDispatchProofs` proves two lemmas for
whoever composes the dispatcher: its steps keep its types, and they keep `DispatchInv` (a row
that is being sent belongs to one call and has delivered nothing; a row that delivered is
never given out again). `RemindersProofs` shows that each step of the service is a step of
the dispatcher or leaves it alone, and proves `RemindersDeliveredOnce`,
`RemindersFinalWindowQuiet` and `RemindersExpiredNeverReminded`.
The last two need `RunInv`: a run under way is the only one, its window is not settled, and
nothing on its list is expired. They hold because items expire and windows are settled
inside a run only, so the runner's guard carries them; without it both fail.

**Pushes.** `PushedAtMostOnce`, `EventsDoNotPileUp`, `PushedMeansDelivered`, from `IInv`.
`CandInv`: a claim token is known only to the call that pushes that candidate, so a swept call
cannot write it. `SendInv`: a row in somebody's hands is executing, has delivered nothing and is in
nobody else's hands; a call counts as received only what has a completed row. Between them they
replace the argument one would like to make, that a candidate has one call at a time, which is
false: a swept call goes on sending. `EventInv`: behind a candidate that was let in, nothing older
of its event waits, unless `KeyLimit` evaluations lie between the two; it speaks of newer candidates
that are settled by now as well, which `OneLivePerEvent` does not. What ingest reads is a set of
newest rows, so that a waiting row is among them is a counting argument over finite sets
(`Between`).

**Feedback.** `RepliesOnce`, `CreditNotLost`, from `FeedbackInv`. `RepliesInv`: the key of an update
is free only while no request has the update in hand and nothing was shown for it, and a request
that has shown a reply has only its key left to settle. A lapsed lease leaves the row executing
and does not free the key, so the lease plays no part in the argument. `CreditGoesThrough` is
inductive with the types of what a request carries (`RequestsInv`): a row is new to exactly the
request that wrote it.

**Content.** `OnlyOverlappedUsesAreLost`, `SettledNotesStand`. A redraw that is drawing holds a
record that lacks no more copies than overlapped it (`CountInv`), so writing it back loses those
at most. `ContentInv` keeps the runner, its envelope and the note apart: no note exists while the
runner writes, and whoever sends a note has set it to pending.

**Skill trials.** `ActivationsEarned`, `EndedRunsStay`, from `SkillsInv`. `CommissionsInv`: the
package of a commission that has left the dialogue is fixed and every trial recorded for it was of
that package, so accepted trials stay trials of what is in use; a superseded activation still has
its trials, which is what lets a rollback put it back; only one activation is active.
`TrialRunsInv`: an unfinished run has the lease of its commission, and a lease that names a run
names one that has not ended. Whoever stalled still believes it is executing, and writes only as
the holder of a claimed lease (`Owns`), which an ended run no longer has.

**Tasks.** `KeysHaveOneJob`, `EnvelopesStayBehind`, from `TasksInv`: a job that executes has not
ended before it reports, an envelope that says or refers to a success has one, and after the
hydration the map has everything the store has, which is why looking for a key in the map is
enough.

**Registry.** `PreviewsWereScanned` (what was hashed; see section 5 for the check for secrets), from
`RegistryInv`: every digest in the cache, in the listing
of a scan under way and in the hands of a request is that of a text some scan has read; a preview
compares with one of them.

**Git Flow.** `ProposalsHaveOneIssue`, `ProposalsMergeAsReviewed`, from `FlowInv`. The code does not
stop two approvals from overlapping, so all but the types is claimed as long as none has
(`overlapped`). Until then one call drives the proposal (`OneDriver`), the copy it will write back
whole is the proposal on record, and the stage of the call says what GitHub has
(`StageFits`). An Issue that an earlier call may have made is known of: `issue`, or `unknown`, which
makes the next call look before it creates (`IssueKnown`).

**General Runs.** `BudgetsHold`, `RecordsTellOneStory`, from `RunsInv`. The stage of a job says
who may be called (`CallsFit`), `promised` is what the calls that are out may still count, as the
size of a finite set (`CountFits`), and `used + promised` exceeds the budget only by what
providers counted in excess. `RecordsFit` gives each record's status for each stage.

**Growth.** `VersionsWereEarned`, from `GrowthInv`: a proposal is asked for when the version it is
based on has earned its credit, which is never taken away, and is approved only if that version is
in force; so each version up to the present was earned (`EarnedUnder`). Two proposals on one
credit are possible, two versions are not.

**Work.** `WorkTypesCorrect`, `WorkIsApproved`, `WorkIsReservedOnce` are about `WorkSpec` itself:
`WorkInv` says of each service that its invariant holds while it is the one looked at.
`JournalFacts` is `ActionJournalProofs` for the journal that `MCWork` instantiates;
`WorkAssumption` (the marker for no body is not a body) is what its assumption becomes.

**Desk.** `QuestionsAnsweredOnce`, from `DeskInv`: an answer takes its row out of *open* in the same
transaction, nothing was said for an open question, and what is queued, or was said, is the
choice on record.

**Digests.** `DigestsOnceADay`, from `DigestInv`: a day belongs to one run (`PostedFits`), one
session sends that run (`OneSends`), and while it does, none of the run's days has its message.

**Link.** `MessagesHeardInOrder`, `OpenAsksOnTheLink`, from `LinkInv`. What a client was given and
what the wire holds for it are together what the server said, until the socket is closed, and then
a beginning of it. To say this of a wire of frames by recursion would need induction over its
length; `OnTheWire` numbers instead: for each frame there is a count of how much will have been
heard when it is read, which grows by one where a frame completes a message, and by nothing else.
A connection comes into use when none is in use (`InUseFits`) and takes its questions with it when
it goes, except when it ends with its process: then they stay open, on a socket that is never used
again (`AsksFit`, `DeadStays`).

**Cutover.** `MovedItemsShownOnce`, from `CutoverInv`: a backup is taken, an import read and the new
service started behind the end of the old one, so what an import closes (`TakenBy`) is all
the old project showed or may have shown.

**Market.** `LastNightIsTheLastSession`, from `MarketInv`: a snapshot's session had closed when it
was captured, as bars of a session that goes on are left out; the next session closes at its
ordinary hour, more than thirty hours after the opening of this one, or is a shortened one, and
the one after that opens later still.

**Targets.** `ChangesStand`, from `TargetsInv`: of the changes in line only the first has read the
file, so what it writes is the file of now with one target changed (`EditFits`).

**Console.** `PagesShowTheirReader`, from `PageInv`: in a page that is logged in, the answers still
awaited for the current revision were asked for with the token in its input, and the input does
not change without ending the login (`PageFits`).

**Briefings.** `BriefingsAgree`. `BriefInv`: before a window is claimed there is no briefing;
while it is being written nobody has received anything; once it is stored, what is sent is what is
stored.

**Relay.** `RelayLeavesNothing`, from `RelayInv`: no message and no cursor lies in the future, and
a poll asks from the second before the cursor on, so what it does not return was stored before. As
long as there is no cursor, nothing that was published since `first` is older than the last poll,
for a poll that leaves a gap moves `first` behind it. The new cursor is the greatest second among
what was returned.

**Deals.** `DealsShownOnce`, from `DealsInv`: a deal is in one window at most (`WindowsInv`),
nothing is collected while a window waits (`WatchInv`), and a target has shown nothing of a window
whose row is absent or failed (`SeenInv`).

**Scans.** `QuietScansCurrent`, from `ScansInv`: a copy holds what its fingerprint stands for or
more, since the fingerprint is read first; a batch whose answer has come is not older than its
beginning. An equal fingerprint then means a copy that is current, also when another scan has
stored its own copy in between.

**Messages.** `MessagesTypesCorrect`, `MessagesShownOnce`, `MessagesShowWhatIsSo` are about
`MessagesSpec` itself, from `MessagesInv`, which is to `MCMessages` what `WorkInv` is to `MCWork`.

**About the data.** `FirstRule`, the relay, the market and the versions of Skills need that a set of
numbers has a least or a greatest element. That is induction, which the provers cannot do; the
lemmas (`LeastExists`, `GreatestExists`, `LeastMoment` and one for the versions in `WorkProofs`) get
it from the well-foundedness theorems of the library.

**What proving changed.** Two operators had overlapping CASE arms that said different things, of
which TLC silently took the first and a proof could take neither: which entry of a listing a request
finds (`Found` in `SkillRegistry`) and how the answers of several targets are summed up
(`Aggregate` in `Deals`). Both now decide in the order of the code. The first of the line that goes
takes itself off it by position (`Goes` in `BarkTargets`), and a Run's promised tokens are the
counter the code keeps, where both had been computed from the rest of the state. And the
services of the compositions were instances with variables in tuples, which no theorem could
name; they are extended now.

**Model-checked only.** Liveness (`DirectiveLeavesQueue`, `SupervisionActs`, `EscalationSettles`,
`WatchGoesOn`, `AbandonedWindowSettles`), which is out of the prover's reach, and the three
properties that are violated. No module uses `RECURSIVE`.

## 7. Not modelled

Everything marked – in section 1, with its reason in `PROJECT.json`. Inside the modelled
parts: audit events (but for the targets' audit record, which a stop can lose), listings,
previews and formatting; prompts and what models say, of which only the verdict remains; SQLite's
own failures except where the code handles them (`finalize`); the cut of a long digest;
the second and later commits of a Git Flow plan; the wire formats of WebSocket, ntfy, Bark and
Telegram beyond what the properties tell apart; forms, selections and the other pages of the web
console.
