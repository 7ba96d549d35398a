# JoeOS: a TLA+ development

This directory specifies parts of JoeOS in TLA+, model-checks them with TLC on
small instances and proves theorems about them with TLAPS. It is kept beside
the code: every definition that stands for code names its lines in
`PROJECT.json` ("map").

## 1. The system

JoeOS is a private command center that runs on one machine (the "Halo"): a
FastAPI application over one SQLite database, a web page, a JavaScript SDK and
an iOS client.

| Part | State it keeps | Operations | Talks to |
| --- | --- | --- | --- |
| Device enrollment (`server/identity/service.py`, `repository.py`) | pairing offers, challenges, devices, device keys, completions, audit log; all in SQLite | issue an offer, claim it (create challenge), complete a challenge, record a wrong proof, revoke, expire | HTTP routes in a thread pool, the operator's CLI in its own process, two sweeping loops |
| Master key (`server/identity/key_protection.py`) | the key file, its identifier in the database | load or create, bind | every start of the backend or the CLI |
| Request guard (`server/security/enrollment_guard.py`) | recent attempts per source | admit | every enrollment POST |
| HTTP boundary (`server/security/http_boundary.py`) | none | authorize | every request |
| Audit event log (`joeos_backend.py`) | `events` rows, at most 240 | record and trim | every component |
| Realtime stream (`server/realtime/service.py`) | one cursor per connection | snapshot, fetch after, heartbeat | event log, SDK |
| SDK subscription (`packages/sdk/src/index.js`) | last cursor, socket, timer, failure count | connect, accept, reconnect, close, abort | realtime stream |
| Workspace (`server/workspace/service.py`) | one workspace row with a revision, its widgets | read, save, guide | web page |
| Runtime monitor and the rest of the backend (`joeos_backend.py`) | runtime status, thresholds, metrics, bots | collector and maintenance loops, status, chat, bots | Lemonade inference server, event log |
| iOS coordinator (`apps/mobile/.../DeviceEnrollmentCoordinator.swift` and local state) | phase, journal and receipt in the Keychain | activate, prepare, confirm, complete, retry, discard | enrollment routes |
| iOS browser session | bootstrap state | discover | bootstrap route |
| Web page, service worker, launchers, SQL migration, docs | | | |

What is hard in each part is listed under "hazards" in `PROJECT.json`, at its
line. In short: enrollment is a protocol of several transactions per request
in which everything may interleave, with deadlines compared to a `now` captured
early; the stream and the subscription form a resumable channel over a log that
is trimmed at the other end; the workspace is edited optimistically; several processes start over one data directory and any
of them may die half-way; the guard of the enrollment routes and the monitor of
the inference server share state between coroutines that switch at every await;
the iOS
coordinator is a set of asynchronous tasks over a context that may change under
them and a Keychain that survives crashes.

What makes each part correct:

- enrollment: one ceremony at a time, one device per offer, all tables agree,
  bounded guessing, exact retries of claims and completions, no receipt after
  revocation, an honest audit log, every window closes;
- event stream and subscription: events in order, at most once, gaps announced,
  the cursor never moves backward, closed means closed;
- workspace: no lost update, no answer older than the revision it names, every
  save logged;
- master key: all processes use the one key the database is bound to, no start
  that keeps to one source of keys is refused, an upgrade ends what the older
  implementation left open and nothing else;
- request guard: never more than the limit per window, trimming forgets nothing
  that counts, one answer per request;
- runtime monitor: the runtime follows the inference server, what the backend
  remembers is logged, every reply is counted;
- coordinator: nothing is sent that is not journaled, nothing of one context
  reaches another, a crash never loses a completed enrollment.

## 2. Modules

| Module | Models |
| --- | --- |
| `Enrollment` | the enrollment service over its tables |
| `PairingSecret` | abstract: what enrollment promises, as one-use secrets |
| `MCEnrollment` | instances of `Enrollment` for TLC |
| `EnrollmentProofs` | its types, one ceremony at a time, the audit log, the budget of guesses, whole enrollments, the refinement of `PairingSecret`, final states, the window and the replies, proved |
| `IdentityStartup` | the master key file, the upgrade of the schema and the binding, as processes start, serve and die |
| `MCIdentityStartup` | its instance for TLC |
| `IdentityStartupProofs` | one key, starts that succeed, the upgrade, proved |
| `RequestGuard` | the guard of the enrollment routes |
| `RateLimit` | abstract: a limiter that remembers every attempt |
| `MCRequestGuard` | the instance of `RequestGuard` for TLC |
| `RequestGuardProofs` | the window limit, the refinement of `RateLimit`, the trimming of the map and one answer per request, proved |
| `EventStream` | the audit event log and the streams served from it |
| `EventSubscription` | one subscription of the JavaScript SDK |
| `EventDelivery` | both, over connections that break |
| `EventFeed` | abstract: what a subscriber may rely on |
| `MCEventStream` | the instance of `EventStream` for TLC |
| `EventStreamProofs` | a stream passes over nothing, starts now or where it was asked to, announces every gap, proved |
| `EventSubscriptionProofs` | a subscription is never stuck, never doubled and stays stopped, proved |
| `EventDeliveryProofs` | the same of the composition; nothing missed, nothing rejected, the refinement of `EventFeed`, proved |
| `Workspace` | the shared layout, its handlers and the pages that edit it |
| `WorkspaceGuide` | the same with the configuration guide |
| `MCWorkspace` | instances of `Workspace` for TLC |
| `WorkspaceProofs` | its types, no lost update, honest answers and an honest log, proved |
| `RuntimeMonitor` | the collector, status, chat and the pausing of a profile |
| `RuntimeMonitorProofs` | what is remembered is logged, every reply is counted, proved |

### Enrollment

One step is one SQLite transaction, or one read on a connection of its own;
those are the points at which other handlers, the CLI and the loops may run.
`pc[h]` is where handler `h` is between two such steps, `job[h]` its request,
`now[h]` the time it captured, `seen[h]` what it keeps of the row it read,
`reply[h]` the response it is about to send.

| Code | Actions |
| --- | --- |
| `issue_pairing_offer`, `create_offer` | `IssuePairingOffer` |
| `create_challenge` (service) | `ReceiveChallengeRequest`, `FindRequest`, `ExpireForClaim`, `ReadOffer`, `InsertChallenge` or `RejectChallenge`, `ReplayRequest` |
| `complete_challenge` (service) | `ReceiveCompletion`, `FindCompletion`, `ExpireForCompletion`, `ReadOpenChallenge`, `RecordFailedCompletion` or `CommitCompletion` or `RejectCompletion`, `ReadDevice`, `ReplayCompletion` |
| `revoke_device` | `RevokeDevice` |
| the loops, and every start of the backend or CLI | `ExpirePending` |
| end of a request; an exception or a crash | `Respond`; `Abort` |

Abstractions. A request is its own digest. A device id is drawn together with
its challenge id, so a device is named by its challenge. Whether the claim proof
matches (`proof`) and whether the completion's proof and signatures verify
(`valid`) are facts of the request. The operator's now (`at`) may be any time up
to the clock, as the CLI captures it before it waits for the write lock.
`began[h]` is a history variable: whether the challenge of the request was already
stored, the request already committed, or its device already revoked, when it
arrived. The wall clock is taken to be
monotonic.

`PairingSecret` says what a client or an operator may rely on: a secret is
usable in one window, windows do not overlap, a used secret enrolls exactly one
device and is then worth nothing. `ImplementsPairingSecret` maps the tables to
it.

### IdentityStartup

A step is one file operation, or one statement or transaction of SQLite. `pc[p]`
is where process `p` is in its start, `key[p]` the master key it holds, `temp[p]`
its temporary file, `found[p]` what its transaction read.

| Code | Actions |
| --- | --- |
| `load_or_create_identity_master_key` | `Start`, `WriteCandidate`, `PublishCandidate`, `ReadKeyFile` |
| `repository.prepare`: the script | `CreateTables` |
| ... `_migrate_challenge_schema` | `BeginMigration`, `CommitMigration` |
| ... the binding of the key | `BeginBinding`, `CommitBinding` |
| `validate_pending_key_material` | `ValidatePending` |
| what a process that serves does to the rows | `ExpirePending`, `IssueOffer`, `ClaimOffer`, `CompleteChallenge` |
| the end of a process, whatever the reason | `Stop` |

Encryption is modelled by which key can read what: the material of an offer is
the key that encrypted it, or `Raw` where the older implementation stored it. An
offer stands for its row and that of its last challenge; what else enrollment
does with them is in `Enrollment`, which starts from a prepared database.
`BEGIN IMMEDIATE` is a step that takes the write lock and reads, and a step that
writes and commits; a process that dies between them is rolled back. `drawn`
bounds the number of starts by the keys that may be drawn. `configs` is a history
variable: the sources of keys (file or environment) that processes started with.

### RequestGuard

`_admit` holds a lock and awaits nothing: it is one step of `Arrive`, with the
purging of the bucket, the decision and the trimming of the map (`Refuse`,
`Admit`, `Trimmed`). The rest of a request is a step per message: `Receive`,
`Begin`, `Return`. The application behind the guard is free: it reads and answers
as it likes, and when the guard raises `_RequestBodyTooLarge` into it, it lets
the exception pass or makes an answer of it. `admitted` (when each source was
let through) and `handed` (the bytes the application got) are history variables.

`RateLimit` is the promise: an attempt is let through unless `Limit` attempts of
the same source were let through in the window before it. It remembers all of
them and knows of no map to be trimmed; `ImplementsRateLimit` maps the guard to it.

### RuntimeMonitor

Coroutines of one event loop switch only where they await, so a step ends at an
await or is what a thread does meanwhile.

| Code | Actions |
| --- | --- |
| `_collector_loop` | `Sweep`, the refresh, `RecordMetric`, `Compare`, `RecordCrossing`, `Remember` |
| `_refresh_runtime` | `BeginRefresh`, `Probe`, `Store`, `RecordTransition`, `SyncBots` |
| `status` | `RequestStatus` and the refresh |
| `chat` | `RequestChat`, the refresh, `Infer`, `CountTask`, `FinishChat` |
| `update_bot` | `UpdateBot` |

`Environment` is Lemonade starting and stopping and the load rising and falling.
A transaction may raise and an answer fail to come, `MaxFaults` times; inference
may fail at any time. Refreshes of the collector and of requests overlap, and
then two of them may log the same transition or neither may: `disturbed` is a
history variable that says whether this happened, and `RememberedIsLogged`
compares the runtime with the log only where it did not. No document promises
more of the log, so this is part of the model and not a finding.

### EventStream, EventSubscription, EventDelivery

`EventStream`: `log` holds the ids of the rows of `events`; `RecordEvent` is the
one transaction that inserts a row and trims the table. A stream is a generator
on the event loop: it reads the newest and the oldest id (`ReadLatest`,
`SendSnapshot`), then fetches batches and yields them event by event (`Fetch`,
`Emit`), sends heartbeats and polls. The log may change between any two of these
steps. `wire[s]` holds what was yielded and not yet received. The repository and
the websocket route are not in the sources; they are modelled from how
`service.py` uses them and from the tests.

`EventSubscription`: a step is one callback of `subscribeEvents`. The observer
runs inside some of them; `closes` says that it calls `close()`, or aborts, right
there. Alone, it
faces any server: every frame may arrive at any time.

`EventDelivery` instantiates both on the same `wire`. A connection keeps the
order of its frames and may break at any moment; the frames still on it are lost
and the server learns of it later. Faults are counted, because nobody can promise
delivery over a network that always fails.

`EventFeed` is the promise: events in order, each once, and never past one that
is still retained. `ImplementsFeed` maps the composition to it.

### Workspace

A layout is a set of edits, those of its theme and those of its widgets, which
two tables hold. A step of a handler is one statement outside a transaction
(`ReadRow`, `ReadWidgets`, `Record`) or one transaction (`Commit`, or
`RejectStale` when the revision has moved on). Pages are part of the module:
they load when they are opened (`Mount`), edit what they show (`Edit`), save it
with the revision it is based on (`Save`), give up after their timeout
(`GiveUp`), and take the layout of a response as their own (`Respond`).

`CUSTOMIZABLE_MISSION_CONTROL.md` says that a save "atomically replaces the
editable layout". It is written atomically but read in pieces: `_envelope`
selects the row and the widgets without a transaction, so a response may mix two
saves. `NeverOlderThanRevision` and `NoLostUpdate` say why this does no lasting
harm: the mixture carries the older revision, and saving it conflicts.

`WorkspaceGuide` adds the guide, which reads the workspace like a load and answers with
a proposal; its own suggestions are left out of the proposal, as they add to what it read.
`ApplyProposal` previews it on the page, `CloseGuide` is the customizer closing.
In both, `history` and `failed` are history variables: the layout of each revision and who
saved it, and the revisions whose handler failed right after the commit.

## 3. Runs

| Run | Instance | Shows |
| --- | --- | --- |
| `enroll_claims` | 1 offer, 3 challenges, 2 handlers, 6 claims (a request, its id reused with other keys, a wrong proof and a single key, and two more), wrong completions, both limits 2 | `ChallengeReplyExact`, `ExactRetryGetsChallenge`, `GuessBudget` |
| `enroll_completions` | 1 offer, 1 challenge, 2 handlers, right and wrong completions under 2 idempotency keys, clock to 2, fair | `TypeOK`, `EnrolledInWindow`, `ReceiptExact`, `NoReceiptAfterRevocation`, `ExactRetryGetsReceipt`, `NothingReturns`, `KeysAreScrubbed` |
| `enroll_windows` | 2 offers, 2 challenges, 2 handlers, claims that share keys, each challenge completed under either of 2 idempotency keys | `SingleCeremony`, `OneDevicePerOffer`, `EnrollmentAtomic`, `AuditFaithful`, `ImplementsPairingSecret` |
| `enroll_racing_retry` | 1 offer, claim limit 1, 2 copies of one request | refutes `RacingRetryKept`, see Findings |
| `startup_races` | 2 processes, 3 random keys and an injected one, 2 offers; an empty directory, a database of the older implementation or a current one | `OneMasterKey`, `ConsistentStartsSucceed`, `PendingIsUsable`, `UpgradeSparesCurrent` |
| `guard_windows` | 3 sources, 2 requests at a time, 5 in all, limit 2, window 2, clock to 4, trimming above 2 sources down to 1, bodies up to 2 | `WindowLimit`, `AnsweredOnce`, `TrimmedWhatItCould`, `ImplementsRateLimit` |
| `stream_reads` | 1 stream, fresh or resumed at 0, 1, 2 or 6; 6 events, 3 retained, batches of 2 | `NothingPassedOver`, `FreshStartsNow`, `HistoryGapExact` |
| `subscribe_closed` | 2 sockets | refutes `CloseLetsGo`, see Findings |
| `deliver_resume` | 2 sockets, 3 events, 2 retained, batches of 2, 1 fault, fair | `NothingMissed`, `NoneRejected`, `NeverAhead`, `ImplementsFeed`, `SocketOrTimer`, `StopIsFinal`, `EventsArrive` |
| `workspace_saves` | 2 pages, 2 handlers, 2 edits, 3 revisions | `NoLostUpdate`, `NeverOlderThanRevision`, `SavedIsShown`, `RevisionsAudited` |
| `workspace_guide` | the same, 1 page with the guide | refutes `OthersEditsKept`, see Findings |
| `monitor_refreshes` | the collector and 1 request at a time, 2 chats, 1 fault, fair | `RememberedIsLogged`, `RepliesCounted`, `RuntimeFollows` |

Bounds. Two handlers are the least that race, and the one that ends first serves
the retry of what was done. Two offers are a window and its successor.
The limits of five claims and five failures are lowered to one or two, so that
TLC reaches them; nothing in the code depends on their value but comparisons. In
`enroll_claims` three requests could be stored against a limit of two, so that a
limit that is off by one shows; the second and third of them are symmetric.
In `enroll_windows` all completions verify, or it would not end; so it checks
`AuditFaithful` for windows that are replaced and devices that are enrolled and
revoked, and that lock-outs are logged is what the theorem `LogIsFaithful` adds.
`MaxClock` 2 with lifetimes 1 and 2 lets a challenge expire before its offer,
with it, and be cut short by it. Handlers, and challenge ids where every request
treats them alike, are symmetric.

Two processes are the least that race for the key file, for the upgrade and for
the binding. With three keys to draw there are three starts from the key file, so
that one process may die and start again; starts with the injected key are not
bounded. Two offers are one the older implementation left and one issued since.

In `guard_windows` three sources are one more than the map holds, so that trimming
happens, and scanning stops between two of them; with a clock to 4 and a window
of 2 attempts expire while others of the same source still count, and five
requests are enough to fill a window twice. The lengths 1 and 3 are a body that
fits in two messages and one that is too large at once.

Streams do not affect each other, so one is enough; batches of two are the least
at which a trim can take part of a batch and a full batch differs from a part,
and three retained rows the least at which a batch is not the whole log. Two sockets
are an old connection and its successor; with three events and two retained, one
is trimmed while the client is away.

An edit of the theme and one of the widgets are what a torn read can tear apart;
three revisions are the default, a save, and a second save that may lose the
first. A page that gave up has two requests under way.

The collector and one request are two refreshes that overlap; two chats tell a
task counted twice from one that is not counted.

Deadlock is not checked: the system may stop, when no client and no operator
acts and all time has passed.

Fairness (`enroll_completions`): time passes; a sweep that has something to do
happens, as `_collector_loop` and `_identity_maintenance_loop` run it every few
seconds and survive its failures. Handlers need not go on: `KeysAreScrubbed` holds
whatever becomes of the requests. Clients, operators and crashes are not fair.

Fairness (`deliver_resume`): both event loops run what is ready, timers fire, and a
connection that is up delivers. Faults, closing and recording are not fair.
Faults are counted, or nothing would ever have to arrive.

Fairness (`monitor_refreshes`): the event loop runs its coroutines, the probes end
by their timeout and the transactions by SQLite's, and the collector wakes up
again after each cycle, as it survives what raises in one. Nobody has to send a
request and inference need not end. `RuntimeFollows` is about a Lemonade
that stays up, or down, from some time on.

## 4. Proofs

Proved for all values of the constants that satisfy `EnrollmentAssumption`,
`StartupAssumption`, `GuardAssumption`, `DeliveryAssumption`,
`WorkspaceAssumption` and `MonitorAssumption` (TLC evaluates them in the runs),
or, where the theorem says so, `SubscriptionAssumption` or
`EventStreamAssumption`, which are parts of `DeliveryAssumption`:

| Theorem | States | Invariant it rests on |
| --- | --- | --- |
| `TypeCorrect` | `TypeOK` | `TypeInv` |
| `OneCeremony` | `SingleCeremony` | `CeremonyInv` |
| `OneDevice` | `OneDevicePerOffer` | `EnrollInv` |
| `EnrollsWhole` | `EnrollmentAtomic` | `EnrollInv` |
| `EnrollmentImplements` | `ImplementsPairingSecret` | `EnrollInv` |
| `EndsAreFinal` | `NothingReturns` | `EnrollInv` |
| `EnrollsInWindow` | `EnrolledInWindow` | `WindowInv` |
| `ReceiptsAreExact`, `RevokedGetsNothing`, `RetriesAreAnswered` | `ReceiptExact`, `NoReceiptAfterRevocation`, `ExactRetryGetsReceipt` | `RepliesInv` |
| `ChallengesAnswerTheirRequest` | `ChallengeReplyExact` | `AnswersInv` |
| `ClaimsAreAnswered` | `ExactRetryGetsChallenge` | `RetriesInv` |
| `GuessesAreBounded` | `GuessBudget` | `BudgetInv` |
| `LogIsFaithful` | `AuditFaithful` | itself, over `CeremonyInv` |
| `StartupTypes`, `OneKey`, `StartsSucceed`, `PendingUsable` | `TypeOK` of `IdentityStartup`, `OneMasterKey`, `ConsistentStartsSucceed`, `PendingIsUsable` | `StartupInv` |
| `UpgradeSpares` | `UpgradeSparesCurrent` | `StartupInv` |
| `WindowKept` | `WindowLimit` | `GuardInv` |
| `GuardRefines` | `ImplementsRateLimit` | `GuardInv` |
| `TrimsWhatItCan` | `TrimmedWhatItCould` | `GuardInv`, `OrderType` |
| `OneAnswer` | `AnsweredOnce` | `RequestsInv` |
| `PassesOverNothing`, `FreshMeansNow`, `GapIsExact` | `NothingPassedOver`, `FreshStartsNow`, `HistoryGapExact` | `StreamInv` |
| `NeitherStuckNorDoubled` | `SocketOrTimer`, for every server and network | `Inv` of `EventSubscriptionProofs` |
| `StoppedForGood` | `StopIsFinal`, for every server and network | none |
| `DeliveryNeverStuck`, `DeliveryStops` | `SocketOrTimer`, `StopIsFinal` of the composition | those of the subscription |
| `MissesNothing`, `RejectsNothing` | `NothingMissed`, `NoneRejected` | `DeliveryInv` |
| `DeliversTheFeed` | `ImplementsFeed` | `DeliveryInv` |
| `ToldNeverAhead` | `NeverAhead` | `DeliveryInv`, `KnownInv` |
| `WorkspaceTypes` | `TypeOK` of `Workspace` | `TypeInv` of `WorkspaceProofs` |
| `NothingLost`, `ReadsNeverOlder`, `SavesShown` | `NoLostUpdate`, `NeverOlderThanRevision`, `SavedIsShown` | `WorkspaceInv` |
| `SavesLogged` | `RevisionsAudited` | `AuditInv` |
| `RemembersWhatIsLogged` | `RememberedIsLogged` | `MonitorTypes`, `WarnedInv`, `LoggedInv` |
| `CountsEveryReply` | `RepliesCounted` | `MonitorTypes`, `CountInv` |

- `TypeInv`. `TypeOK` is not inductive: a handler dereferences its request. The
  invariant adds that a handler at work serves a request of the right kind
  (`HandlersServe`), that its challenge is stored, and that stored challenges
  hold requests (`RowsServe`). Rows are typed element by element, so a sweep, a
  retirement or an update of one row each need one lemma only.
- `CeremonyInv` adds `KeysOfLiveOffers` (a key is stored exactly while its offer
  is live, so "live with a key" in `IssuePairingOffer` misses no live offer) and
  `ClaimsFit` (a handler about to insert a challenge carries a deadline no later
  than its offer's, which it read in an earlier connection and which never
  changes). Without the second, the last part of `SingleCeremony` would not
  survive `InsertChallenge`.
- `EnrollInv` adds `OneDevicePerOffer` and `EnrollmentAtomic`. All steps but a
  commit and a revocation are `Quiet`: they leave devices, keys, completions and
  the set of completed rows alone. `CommitEffect` says what a commit found and
  wrote; by `SingleCeremony` its sweep cannot touch another offer.
- The refinement uses the same split. A quiet step is `Fading` (a secret keeps
  its worth or becomes void) and maps to `Void`, the issue of an offer to
  `Issue`, a commit to `Spend`, a revocation to `Revoke`.
- What a step does to one row of each table is stated once (`OfferAges`,
  `ChallengeAges`; part III of `EnrollmentProofs`); `EndsAreFinal` is that,
  and that owners and completion rows are kept (`OwnersKept`).
- `WindowInv` adds `ClocksRead`: a handler that is completing a challenge read the
  clock after the challenge was issued. It commits with the `now` it read, which
  may be long past; by this, and as the commit compares `now` with the deadline
  that is stored, the enrollment is inside the window all the same.
- `RepliesInv` adds what is known of a request in each phase (`BeganFits`,
  `ReceiptFits`): whoever is about to read the device it answers with has its
  request stored, with a proof that verified; whoever began after a commit only
  looks it up; whoever began after a revocation never comes to a receipt. That
  these survive the steps of others is that completion rows are never replaced
  and revoked devices stay revoked.
- `AnswersInv` is about the answers to claims: an id is that of one row (`OneRow`,
  because the transaction that inserts looks the id up again), and the row a
  claim is answered with is stored and holds this very request (`AnswerFits`).
  A stored row keeps its request, so whatever happens before the answer is sent
  does not change that.
- `RetriesInv`. `ExactRetryGetsChallenge` could fail if a handler were refused at
  the end of its race and a copy of its request stored afterwards. An insert that
  found no row for its id failed at the state, the key or the claims of the offer,
  because the handler had read it as not yet expired at its own `now` and the
  deadline of an offer does not change. None of the three is ever undone (`Barred`,
  `BarredStays`), so no copy is stored later (`Settled`). A request whose challenge
  was stored when it arrived finds it at the first look-up, as rows are not removed.
- `BudgetInv`. `GuessBudget` says that an offer counts its challenges and a challenge
  its wrong proofs, both up to their limits, and that no challenge is open beside
  a locked one of the same offer. The last part is kept because the lock of a
  challenge ended its offer (`LocksEndOffers`), so that nothing is claimed of it
  again; the counts survive the issue of an offer because one that is not issued
  has no claims (`UnissuedUnclaimed`).
- `AuditFaithful` is inductive with what a step does to a row: each step adds to the
  log exactly the events of the rows it changes (`Logs`), and no row comes back
  from a state that is final.

- `StartupInv`. What a transaction read is still true when it commits, because it
  has the lock (`LockFits`). Whoever may write a row is past the upgrade
  (`SchemaFits`) and holds the bound key (`OneMasterKey`), so all rows are of one
  kind (`RowsFit`). While one source of keys is in use its key is the bound one
  (`FileFits`, `EnvironmentFits`), which is why a start cannot be refused.
  `FileFits` needs that the file is linked once and never replaced (`KeysFit`).
- `GuardInv` relates a bucket to all that was admitted (`Remembers`): it is the end
  of it, and what it lacks is older than the window. Purging and trimming keep
  this as time only moves on; with times that ascend (`Ascending`), the bucket is
  full exactly when the limiter of `RateLimit` is exhausted, which is the
  refinement, and `Limit` attempts are spaced by a window (`Spaced`).
- `TrimsWhatItCan`. `Kept` is a recursive function; that it exists and what it
  computes is shown by the least number at which it would not (`KeptDefined`,
  `KeptFacts`). If the scan stops early, what it deleted and what it did not count
  add up to the map, and no more than `LowSources` keys are left. If it does not,
  every bucket was purged, and by `Remembers` and `Ascending` the last time of one
  that is not empty is in the window.
- `RequestsInv`: the bytes the application got are among those that were counted,
  and a refused request never is in the application.

- `StreamInv` says, for each point of the generator, how the cursor, the batch, what
  was sent and the log fit: all that is retained between the cursor a stream
  started from and the one it is at was sent (`PassedOverNone`), and a batch holds
  all that is retained up to its last row (`BatchWhole`), although the log is
  trimmed while the batch is sent. It needs that the log is always the newest
  `MaxEventRows` events (`LogKept`), so what a trim takes is older than what stays.
- A subscription. `SocketOrTimer` needs the types and `AttemptsLeft` (a
  subscription that goes on has not used up its attempts), because
  `scheduleReconnect` decides by the count whether it sets the timer. The
  theorems are about `EventSubscription` alone, where any frame may arrive, and
  about `EventDelivery`, by an instance of the former: each of its steps is a
  callback of the subscription or leaves it alone (`ClientSteps`).
- `DeliveryInv` joins the two sides by the frames between them. While a connection
  is open, the first frame on its way follows the cursor of the client, each frame
  the one before, and the generator stands where the last one leads (`Flowing`);
  an attempt to connect carries the client's cursor in its URL (`Listening`). A
  step of the server extends the queue, a callback takes its head, a break drops
  the queue and with it the connection, so the next one starts from the cursor of
  the client. That each frame follows the client's cursor is why none is rejected,
  and with `PassedOverNone` why none is missed; a callback that accepts an event
  is then a step of `EventFeed`. `KnownInv` adds that the server never sees a
  cursor ahead of its log if the client started from the beginning.
- `WorkspaceInv`. `Growing` (no revision has less than an earlier one) is kept by
  a commit because the layout it saves has all of the revision it is `Based` on,
  and the check of the revision makes that the newest one. A page's layout is
  `Based` because what `_envelope` answers has the theme of the revision it names
  and the widgets of that or a later one (`ReadLayout`), which by `Growing` has no
  less. So the argument is circular unless all of these are one invariant. Its
  parts take the history as an argument, and `BasedStays` and `HandledStays` say
  that a longer history keeps them. `SavedNext` adds that a request that was
  saved is the revision after the one it is based on.
- `AuditInv` adds `RecordsOwn`: a handler about to log holds a revision that was
  saved. Each revision is then logged, lost or about to be logged (`Accounted`).
- `WarnedInv`: the collector comes to remember a crossing only past the event that
  records it. `LoggedInv`: until refreshes overlap, at most one is under way, what
  it read before its probe is still the runtime when it stores the answer, and the
  runtime differs from what was announced only while that refresh is about to
  record it. `disturbed` is part of its hypothesis, as it is of the property.
- `CountInv`: replies, and the chats that are counted and about to reply, are no
  more than the tasks; tasks, and the chats not counted yet, no more than the
  chats. A step moves at most one request, so each cardinality changes by one.

Only model-checked: the liveness properties `KeysAreScrubbed`, `EventsArrive` and
`RuntimeFollows`, which are out of the prover's reach. Every
other property of a run that passes is a theorem.

## 5. Findings

- `RacingRetryKept`: `DEVICE_ENROLLMENT.md` promises that an exact retry returns
  the same open challenge "even across a concurrent race". A copy that looks its
  id up before the original commits, and reads the offer after the original took
  the last claim, is turned away: `get_claimable_offer` returns nothing and the
  service answers with a protocol error, without the second look-up it makes
  after a failed insert. `ExactRetryGetsChallenge` says that this is the only way:
  a retry of what was stored before it arrived, and a copy that lost the race
  later, are answered with the challenge.

- `CloseLetsGo`: the SDK's README says that "explicit close or abort is terminal".
  `connect` reports "connecting" before it creates the socket and does not look at
  `stopped` again: an observer that closes or aborts there leaves a socket that is
  created afterwards and never closed.

- `OthersEditsKept`: `CUSTOMIZABLE_MISSION_CONTROL.md` says that "a conflicting edit from another
  client is not overwritten". `applyGuideProposal` puts a proposal under the
  revision the page has by then, not the one the proposal is based on; saved, it
  removes what another client saved in between.

## 6. Not modelled, and the plan

Byte formats, cryptography, HTTP parsing and status codes, wording, the web page
but for the workspace, launchers, the SQL migration for Supabase. The page also
clamps sizes and intensities it reads; the layouts of the model are ones the page
made, which clamping leaves as they are, and other clients are left out. `server/api/bootstrap` and
`server/realtime/{repository,router,models}.py` are imported by the application
but not in the repository.

Order of the work:

1. `Enrollment` with its safety, its refinement, its window and its replies as
   theorems, the answers to claims, the budget of guesses and the audit log (done).
2. The event log, the realtime stream and the SDK subscription, and their
   composition, with the safety of each and the refinement of `EventFeed` as
   theorems (done).
3. The workspace service with racing clients, and its theorems (done).
4. The master key file and the upgrade, the request guard, both with their
   theorems, and the runtime monitor with its theorems (done).
5. The iOS coordinator, and the ceremony composed of coordinator and enrollment
   over a network that loses answers.
