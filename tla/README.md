# Verification of jenn-shooting-operations

TLA+ models of the protocols of jenn-shooting-operations, a scheduling and shooting-floor
system built as one Node.js process over SQLite with browser pages and offline tools around it.
Each module is translated from the source it names; TLC checks it on small instances, and TLAPS
proves for every instance every safety property that the passing runs check: the invariants and
action properties of the schedule, its views, the delegations, the runs and the queue in front of
them, the outbox and its loop, the uploads, the cleanup gate, the migration and the maintenance, and
four refinements. Liveness is model-checked only. `PROJECT.json` lists the runs, the line ranges each
definition stands for, the hazards, the findings and the theorems.

Run from this directory:

    tlc -config MCOutbox_safety.cfg MCOutbox     # one run; see "Runs"
    tlapm OutboxProofs.tla                       # one proof module; SchedulingProofs takes 15 min

## 1. The system

| Part | State it keeps | Operations | Talks to |
|---|---|---|---|
| Scheduling (`src/sqlite-scheduling-*.mjs`, `src/sqlite-schedule-*.mjs`, `src/business-*.mjs`, `src/dynamic-day-adjustment-v1.mjs`) | orders, sessions, proposals, decisions, configurations, receipts, revision counters | order, edit, confirm, generate, accept, reject, adopt, move, adjust a day, cancel, activate | outbox and snapshot (same transaction), quiescence |
| Scheduling algorithm, contracts (`src/deterministic-scheduler-v1.mjs`, `src/scheduling-*-v1.mjs`) | none | compile a calendar, place requests, validate | scheduling |
| Quiescence (`src/sqlite-scheduling-quiescence-v1.mjs`) | leases and receipts | acquire, expire, roll back, release | guards every canonical mutation |
| Read models (`src/projections-v2.mjs`, `src/daily-*.mjs`, ...) | none of their own | project | tables of scheduling |
| Kiosk run events (`src/kiosk-run-event-use-case-v2.mjs` and its stores) | runs, events, receipts, reviews, requests, revision counters | apply an event, replay a receipt, file a review; cancel an item | outbox |
| V3 recorder, field day (`src/business-run-v3.mjs`, ...) | receipts under prefixed ids | starts and completions with declared times | the same tables as V2 |
| Kiosk offline queue (`public/kiosk-offline-queue-v2.js`) | records in localStorage shared by tabs | enqueue, replay, stop at a verdict | run events over HTTP |
| Kiosk control lock, poller (`public/kiosk-control-lock.js`) | a Web Lock or a lease in localStorage | start, heartbeat, stop; poll | enables the buttons of one tab |
| Notification outbox (`src/sqlite-outbox-repository-v1.mjs`, `src/outbox-dispatcher-v1.mjs`) | table `notification_outbox` with its triggers, isolation tables | enqueue, claimBatch, send, settleDelivery | DingTalk port |
| Outbox worker (`src/outbox-worker-v1.mjs`) | timer, flags, busy streak | start, wake, stop, cycle | dispatcher |
| Upload store (`src/store.mjs`, the claim in `src/business-order-v3.mjs`) | table `uploads`, the upload directory, `.cleanup` | saveUpload, submitRequest, the claim of an order, cleanupOrphanUploads, recovery at start | cleanup gate |
| Orphan cleanup gate (`src/orphan-cleanup-control.mjs`) | `transition.lock`, `disabled.json`, `runs/` in a shared directory | disable, enable, beginRun, endRun | every process that deletes uploads |
| Migration (`src/migration-*.mjs`) | source, backup, rollback copy, target, seal | plan, apply, verify | the V1 program, the file system |
| Offline maintenance (`src/offline-maintenance-adapter-v1.mjs`, `src/empty-db-maintenance-v1.mjs`, scripts) | two locks, a helper container, a pipe, receipts in the database | observe, permit, initialize, register, verdict | the fence it shares with the servers |
| Server start and shutdown (`src/server.mjs`, `src/server-shutdown.mjs`, `src/g3-*.mjs`) | acceptance record, schema version, write admission, active requests | admit, upgrade, open, enable writes, write, drain, end | the fence |
| Agent API, grants (`src/jso-agent-api-v1.mjs`, ...) | live delegations, durable attempts and cancellations | delegate, cancel, claim, dispatch | scheduling |
| Callback admission (`src/callback-admission-v1.mjs`) | a replay store that is not configured yet | verify, claim, store the receipt | no action is wired |

What is hard here. Inside the server a transaction is `BEGIN IMMEDIATE` and synchronous, so no two
of them interleave; the trouble lies in what is kept between transactions and at the edges of the
process: a proposal computed from a state that is gone when it is accepted; a confirmation that
names a time moved meanwhile; a calendar activated over sessions planned under another; a lease that
expires while its holder works; an approval kept in one process's memory while another cancels or
uses it; device clocks that disagree; a card whose delivery outlives its timeout; a worker that dies
with rows leased; localStorage, which has no transactions and is shared by tabs; requests whose
answers are lost; files, which take no part in SQLite transactions; directories whose entries are
lost with the power; and processes that lock each other out, die and leave others waiting. The
hazards in `PROJECT.json` name each of these at its line with the properties that look for it.

What makes each part correct:

- *scheduling*: sessions of a resource never overlap; what is accepted was computed from what is
  still true; the calendar in force is kept; a card tells the time that holds; unless the
  text of a waiting order is refused by the contract, the next generation after any legal history has
  a valid input and places what it can, as early as its rules allow.
- *delegations*: what an owner approves is dispatched once at most; a cancellation that was
  answered is final.
- *views*: what is shown apart tells one story, and a revision names one content.
- *run events, V3 recorder*: receipts can be answered for ever; a run is what its facts say; run,
  request, cancellation and notification agree; runs of a resource do not overlap.
- *queue*: nothing confirmed to the operator is lost; events reach the run in order; what the
  kiosk shows as final is final on the server; nothing waits for ever unseen.
- *outbox and worker*: a card is reported sent only if it was accepted; nobody is asked more often
  than the budget allows; nothing is given up early; isolated facts are never offered; a straggler
  changes nothing; one dispatch at a time; a resolved stop is quiet; everything is resolved in the end.
- *uploads and gate*: the file of every row exists, in place or recoverable; what a request refers
  to is in place; what is claimed stays claimed; a confirmed disable is quiet and only its own epoch
  ends it.
- *migration*: what is reported verified is exact and survives a power failure; a failure that
  wrote says so.
- *maintenance and servers*: the database has one kind of user at a time; nobody is told that
  nothing happened when something did; a prepared server serves the approved content until its
  record is active; only an empty database is maintained; the fence is given back.

## 2. Modules

| Module | Models | Extends / composes |
|---|---|---|
| `SchedulingRules` | calendar compiler, durations and buffers, deterministic scheduler, day adjustment: pure | |
| `SchedulingContract` | what may be published, computed from, stored | extends `SchedulingRules` |
| `Scheduling` | orders, sessions, proposals, configurations, lease, field work, cards | extends `SchedulingContract` |
| `Permit` | abstract: what a delegation promises its owner | |
| `Delegation` | conversation boundaries of several processes, attempts, cancellations, calls | extends `Scheduling`, implements `Permit` |
| `DayView` | snapshot, boards, day, briefings over the tables of `Scheduling` | extends `Scheduling` |
| `RunEvents` | the server's transactions on runs | |
| `FieldRuns` | the V3 recorder in front of them | extends `RunEvents` |
| `KioskQueue` | tabs and localStorage, composed with the server | extends `RunEvents` |
| `OutboxDelivery` | abstract: at-least-once delivery with a budget | |
| `Outbox` | repository, dispatcher, provider, triggers | implements `OutboxDelivery` |
| `OutboxWorker` | the polling loop | |
| `OutboxLoop` | the loop that drives the dispatcher | extends `OutboxWorker`, composes `Outbox` |
| `CleanupGate` | abstract: the promise of the gate | |
| `CleanupControl` | files of the control directory | implements `CleanupGate` |
| `Uploads` | rows, files, tombstones | extends `CleanupGate` |
| `Migration` | invocations of the offline migration over files and disk | |
| `ServerRuntime` | guarded servers, acceptance record, schema at start, shutdown | |
| `Maintenance` | coordinator, helper, docker client beside the servers | extends `ServerRuntime` |
| `OutboxProofs`, `OutboxLoopProofs` | theorems about the table; about the worker, and that what holds of the table holds under it | extend `Outbox`, `OutboxLoop`; the second instantiates the first |
| `RunProofs` | theorems about runs, facts and receipts, and about the queue in front of them | extends `FieldRuns`, `KioskQueue` |
| `OrderedFolds` | what a loop over a sorted array computes: induction for folds in an order | instantiated by `SchedulingProofs` |
| `SchedulingProofs` | theorems about scheduler, schedule, views and delegations | extends `Delegation`, `DayView` |
| `CleanupControlProofs`, `UploadsProofs` | theorems about the gate and about what is behind it | extend `CleanupControl`, `Uploads` |
| `OfflineProofs` | theorems about servers and maintenance, and about the migration | extends `Maintenance`, `Migration` |
| `MC*` | instances for TLC | |

`Uploads` uses the gate by its promise (`CleanupGate`), which `CleanupControl` is proved to keep,
so the files of the control directory do not multiply the states of the upload store, and the
theorems of `UploadsProofs` hold of any gate that keeps the promise.

### Scheduling, SchedulingRules, SchedulingContract

Time is counted in slots, `DayLen` to a business day; day 0 is a Monday. The time zone is fixed in
the code (Asia/Shanghai, without daylight saving), so a slot stands for an instant and for a local
time at once. Each action of `Scheduling` is one transaction with everything in it: the command's
guards in their order, its rows, the drafts it makes stale, the revisions, the outbox row, the
receipt (`op`). A denied command writes nothing and a replay answers from its receipt, so both are
stuttering. A client's expected revision must be the stored one; what remembers an older state is
the proposal, whose generation reads in one transaction (`reading`) and stores in another.

`SchedulingRules!Generate` and what it uses are the deterministic scheduler as functions: requests
by priority, desired date and ordinal, each given the earliest slot that has room for it and its
buffer, or none. The code's loops over sorted arrays (over requests, over the windows of a resource,
over what is busy) are folds over a set in an order (`InOrder`). `EarliestPlacement` compares the
answer with a definition of its own that looks at all slots, for the input of every scope.
`PlannableButForOrders` asks of every scope that its input is valid, provided that each of its orders
passes `CandidateOK`, which is `normalizeCandidate`: an order's facts say whether its lighting preset
is free of outer blanks and control characters (`trimmed`) and whether its subtype is one of the
still-life catalogue (`still`), which the schema of the configuration in force must know. The form of
V3 orders stores both kinds, and `EveryOrderEnters`, the same without the proviso, is violated
(section 4). The single weekly windows of the first schema of configurations stand as one rule that
applies from the beginning. Duration statistics are never assembled by the code
(`durationStats: []`), so the estimate, then the configuration's fallback, decide a length.

A business activation of a configuration checks that the sessions still fit it; the activation under
a GF15 lease is not guarded by that check, so `CalendarKept` speaks of configurations activated by
the business application. Left out: texts, identities and authorization, digests, the capability
table of GF15, the write admission switch (see `ServerRuntime`). While a lease is held, also past
its time, nobody but a holder in time is admitted: `May` is the one condition that every command
reads in its own transaction, so no property restates it.

### Delegation, Permit

Each server process mounts one boundary. It keeps delegations in memory (`records`) and shares two
tables with the others: `attempts`, to which a call adds its row before anything is sent, and
`tombstone`, the operations of kind `conversation.cancel`. A process runs one handler at a time, so
what can come between its steps is another process (`doing`: checked, not yet written) and, where
the call awaits its claim, another handler of its own (`claimed`). `CallActs` is the command of
`Scheduling` with everything it does, under the execution guard (`Stands`) that its transaction asks
last; `CallFails` is every dispatch that changed nothing. `Dies` may come anywhere, and the next
process knows only the two tables. A source may be delegated for different assistants and commands
in different processes. `Offered` is what a preview has just shown to be acceptable: delegating
anything else leads only to refusals. `Permit` says what the owner may rely on, as a machine of four
variables (`attempted`, `dispatched`, `effective`, `withdrawn`) that knows for which assistant each
happened; the refinement mapping reads `withdrawn` off the tombstones and `dispatched` off `sent`,
the history of dispatches. `PermitSpec` is the promise as documented, where no withdrawal is
answered once there is an attempt; `KeptSpec` is the one the code keeps, where this holds only of an
attempt of the assistant that the withdrawal names. The second is checked and proved, the first is
violated (section 4) and proved for a single assistant. Left out: the host without conversations,
which has static grants from its configuration; the switch of write admission; tokens, identities
and resources of the caller; what only reads (receipts, state, calendar).

### DayView

Every view is a function of committed tables, hence an operator, read by someone in charge of every
resource. The forecast of a session being shot, which the code keeps in adjustment receipts, is part
of its run record. Several sessions may be shot at once: such a day has no current session and asks
for attention (`UNKNOWN_OCCUPANCY`). `RevisionNamesSnapshot` relates each step of `Scheduling` to
the snapshot before and after it: readers poll by revision.

The V2 kiosk page (`src/kiosk-current-use-case-v2.mjs`) is not among the views: a V3 server does
not mount it. Reading it showed one thing worth knowing. It refuses a page on which the next
session starts before the current one ends by plan (`src/kiosk-contract-rules-v2.mjs:64`), and
the server admits a start at any time, so a session started before an earlier one that is still
to come makes the page answer `INTERNAL_ERROR` until that one's planned start has passed.

### RunEvents, FieldRuns

One action per transaction: `ApplyEvent` (the eight writes of an applied event), `FileReview`
(declared time too far off), `CancelItem` (business-cancel-v3). Replays and refusals write nothing
(`Refuse`). `Verdict` is the answer, in the order in which the code decides: receipt, scope and
addressing, expected revision, time policy, fold. An answered receipt is rebuilt from the facts
(`Rebuilds`), as `rebuildRunAtReceipt` does. A command stands for its digest. Times are small
integers; whether an event is timely is left open.

`FieldRuns` is the V3 recorder: receipts under a prefixed operation id (`recorded`), times declared
by a device, and the rule that keeps the runs of one resource apart. The V3 server refuses to run
beside a V2 kiosk in one process, but reads a database with runs that an earlier V2 deployment
recorded, so both sets of actions are enabled. A V3 event too far from its reception is refused,
never filed for review, and a V3 completion enqueues no notification. Left out: who may call, the
smoke session, the date restriction, the captured context, the audit row.

### KioskQueue

A commit of the browser storage is a sequence of `setItem` calls, each an action
(`WriteMarker`, `WriteItem`, `WriteMeta`); between two of them another tab runs, the tab dies, or
the next one throws (`EnqueueFails`). The control lock is ignored on purpose: ADP-021 says it is
no safety boundary, so every tab may always act. `Readable` is `loadFromRecords` with
`validateQueueState`. `Predicts` is `deriveKioskActionState`: which event the page lets the operator
record given the last refresh and the pending items. The replay loop keeps the head it submitted
and reloads storage after each answer (`HeadGone`, `Reload`, `GiveUp`), then commits
(`Remove`, `Close`). A request whose sender gave up may still arrive (`stray`). The server is
`RunEvents`, with another device and the owner at work on the same item (`OthersAct`). Queue and
verdicts are those of the V2 page with the V2 server: `VerdictIsTrue` says nothing of the V3 and V4
pages, which store `reviewRequired` on an answer 422 although their server files no review.

### Outbox, OutboxWorker, OutboxLoop

A row is `status`, `attempts`, `lease` and `lastError`, each a column. Absolute time is reduced to
what the guards ask: `due` holds the rows whose deadline (`next_attempt_at` or `lease_expires_at`)
has passed, and `DeadlinePasses` moves time on row by row. A lease token is the number of the
claim that minted it (`minted`). `Enqueue` is `enqueue` inside its business transaction; `Claim`
is one `claimBatch` transaction, which first dead-letters expired final leases and then leases
eligible rows; `Send`, `Respond` and `Settle...` are the steps of one item of `dispatchOnce`, all
items of a batch concurrently. The provider accepts or refuses an asked card whenever it likes,
also after the timeout. `Respond` freezes the settlement time (`late`), as the dispatcher does
before its busy retries. `SettleDropped` is every way a result is thrown away: lease mismatch,
lease expired, store busy or failing. `TransitionGuard` reads the table's triggers as a relation
between old and new row; `GuardAdmitsEveryUpdate` compares it with what the repository does.
`ORDER BY` is abstracted to any choice within the `LIMIT`.

The variables of `OutboxWorker` are those of the closure. `timer` holds the delay the current timer
was armed with; `ghosts` counts timers that were cancelled without success and may still fire.
`setTimer` and `clearTimer` may throw, which the code catches, so the actions that arm take a flag
for it. `OutboxLoop` puts a worker around the steps of `Outbox` for one process that may die and be
started again. The tests are the only callers so far: `server.mjs` creates neither worker nor
dispatcher.

### CleanupControl, CleanupGate, Uploads

Every file operation of disable, enable and beginRun that another process can observe is a step.
The stale lock of a dead holder stays (`Stale`), its run file too (`dead`); the code never removes
either, the operator does (`Reconcile`, from the runbook). An interrupted `disabled.json` is
`Torn`. `closed` is history: the epoch of the last disable that answered ok, while it stands.

In `Uploads`, `writer` is the process inside `BEGIN IMMEDIATE`; file operations inside a transaction
are separate steps because a crash does not roll them back. Rows share files by content. A cleanup
moves a file aside (`StageOne`), commits the deletion of rows, and unlinks afterwards
(`UnlinkOne`); a recovery renames back what is referenced and deletes the rest. Failing renames
and unlinks are the alternatives of those actions. Rows are claimed in two ways. A submission
(`SubmitStep`) first recovers, under the lock, whatever a dead cleanup
has left aside, and is refused when that fails. An order of V3 (`OrderCommits`) looks at the rows
only and moves no file, so its file may be where the recovery has still to come: `UploadsKept` covers
it, `SubmittedInPlace` is about submissions, and `ClaimedInPlace`, which asks the same of orders, is
violated (section 4). Both are enabled in the same database, more than one deployment does at a time.
Left out: contents of files, sizes, limits and
deduplication, and the early returns of a server whose write admission is disabled. A cleanup keeps
the rows it selected (`ids`) until it deletes them, as the code does: what has expired since then is
left to the next one.

### Migration

`disk` is what a process reads, `safe` the least a power failure leaves; `fsync` of a file or of
its directory moves the first into the second. A file's identity is a stamp that every write moves,
bytes are what they are a copy of. Checks that follow each other without writing are one step,
because the comparison of stamps that ends the step catches what changed in between; the last
check of the inputs and the return are one step too. On Windows the code skips the `fsync` of
directories, so the durable claims are for POSIX. A second invocation that finds a seal answers
`ALREADY_APPLIED_VERIFIED` from what it reads: if the first one died before the seal was synced,
the seal, not the target, may still be lost. Between the `fsync` of the target and the seal nothing
compares the file with the one this invocation made (`src/migration-apply-sqlite-v2.mjs:708` to
`750`: `verifyV2Target` and the digest read what is at the path). So once backup, rollback copy and
target have been removed by hand and another invocation has made all three again and committed, this
one finds the other's target, seals it, and may report it verified before the other has synced it.
`VerifiedIsDurable` therefore speaks of at most two removals (`MaxTampering`), which is proved; with
three TLC finds the counterexample. Left out: verify-only mode, dry run, report texts,
the removal of artifacts (the code never removes any; `Tamper` is somebody else).

### ServerRuntime, Maintenance

The fence is a kernel lock on an open file, shared by servers, exclusive to a maintenance. A server
inherits it from its supervisor and holds it until its process ends. All writers are assumed to be
started through the guard; others are caught by the inventory only, which is an observation of the
coordinator. Coordinator, helper and docker client are processes of their own, joined by a pipe
(`toHelper`, `toCo`); each dies whenever it likes. `facts` are what an observation sees; two
observations that the code makes one after the other are two steps. Packets have distinct
operation ids. Beyond the release boundary only the initialization is a maintenance.

A guarded server asks the gate at once (`Gate`) and again in the constructor of its store
(`ConstructStore`), then opens the file (`Open`), read-only if its start was prepared; what happens
in between is part of the model. `written` counts the business transactions in the database: the
content of the file beside schema and receipts. A server writes (`BusinessWrite`) once a signal has
enabled its write admission (`EnableWrites`), and goes on for the requests in flight while it drains.
So what can change under a prepared server is real: another server under the same shared fence that
an ACTIVE record admitted. `PreparedServesBaseline` therefore says: until the record is ACTIVE what
it serves is what was approved, and it never writes itself. That the administrator stops it before
activating (`docs/CORE_STARTUP_ACCEPTANCE_CANDIDATE.md`, lines 35 to 37) is not assumed. In the
transaction of a packet `Admissible` asks for an empty business (`assertFresh`, `assertConfigOnly`),
and `MaintainsEmptyDatabase` that this still holds when it commits, two answers later. Left out: the
observed values behind "matches", the evidence files, the sealing of older gates, the delay with
which docker removes a container. `Prepare` and `Activate` of the acceptance record are done by
people outside the code.

## 3. Runs

| Run | Instance | States | Time |
|---|---|---|---|
| `scheduling` | 2 requests, 1 imported session, 1 resource, 3 operations, 2 days of 4 slots, 3 configurations, 1 lease; 2 processes, 1 source, 2 assistants; 3 kinds of orders, one with a subtype the configurations do not know | 155 000 | 2 min |
| `delegation_cancel` | as `scheduling`; violation, see section 4 | 41 000 | 15 s |
| `run_events` | 5 events, 2 runs, 3 items of one resource, 2 times, V2 and V3 | 15 000 | 25 s |
| `kiosk_sync` | 2 tabs, 2 own events and 1 foreign, crashes | 412 000 | 100 s |
| `kiosk_liveness` | 1 tab, crashes and failing writes, fairness | 108 000 | 2 min |
| `kiosk_recovery` | 1 tab, crashes; violation, see section 4 | | |
| `outbox_safety` | 2 workers, 2 row ids, 3 intents (two share a key), 2 attempts, batch 1 | 361 000 | 35 s |
| `outbox_loop` | 1 worker with its loop, 1 row, 2 attempts, deaths and restarts, fairness | 22 500 | 10 s |
| `cleanup_control` | 3 processes, 3 epochs | 20 000 | 5 s |
| `uploads` | 2 processes, 2 uploads of 1 operation with 1 content, claimed by submission or order | 926 000 | 60 s |
| `migration` | 2 processes, 3 invocations, 3 contents, 2 writes, 1 tampering | 697 000 | 50 s |
| `maintenance` | 2 servers, or 1 server and 1 coordinator, or 1 server that does not write and 2 coordinators; 2 packets, 1 business write, fairness | 379 000 | 3 min |

What each shows is its `about` in `PROJECT.json`; every property is stated in words before its
definition, with the code it is about, and is broken by the altered definition the module keeps
beside the original (marked `Mutant`).

Bounds, and why they are enough. *Scheduling*: an overlap, a stale draft, a moved card or a day that
gives way needs two sessions and one more in the way; three of the five starts put the system at the
beginning, in the middle and at the end of a plan, since three operations reach no further from one
start, and two, in which part of the operations is already used (`spent`), mount a boundary in two
processes over one session, and in one over a waiting order; the two days are a Saturday and a
Sunday, for alternating rules and overrides; a second resource multiplies the states beyond reach
and adds no interaction, because sessions of different resources only meet in the revision counters.
One generation is between its two transactions at a time: several would only differ in which is
refused. *Delegation*: two processes give every race between a memory and the tables, two assistants
the two ways a source can be bound; sources meet nowhere but in the schedule, so one is enough;
`Window` is one slot, so that a delegation can run out between claim and dispatch; `Shifts` are the
shifts a preview may offer. *RunEvents*: five events make a run with a block and a resume and one
event to spare, or two runs; two equal or different times give ties and reversals; `MaxReviews` only
limits how many commands are filed aside. *KioskQueue*: two own events give a head and a successor,
the third event is the other device. *Outbox*: two attempts give a first, a last and a reclaimed
attempt; two ids with a shared key give the replay under another id; two workers give overtaking.
*OutboxLoop*: `StreakCap` is the streak after which the delay no longer changes; `MaxGhosts` bounds
forgotten timers at any one time. *CleanupControl*: two disables with their epochs and a third run
that races them. *Uploads*: sharing needs two rows of one content; `MaxStaged` bounds copies of one
content in `.cleanup`. *Migration*: an invocation, its retry and a third that meets both; two writes
take the source away from the plan and back to equal contents; one content cannot be mapped; with
two tamperings, which the theorems cover, the run passes too and takes three times as long.
*Maintenance*: who takes part is chosen at the beginning (`cast`): two servers are a prepared one
beside one that is active and writes, or two starts that race over the schema; one server and one
coordinator are a maintenance before, between and after business writes; two coordinators, for the
same packet or for two, are one that starts in the gap the other leaves, and this gap is the same
whatever the database contains, hence no writes beside them. One write takes the database away from
what was empty or approved, a second adds nothing the guards can tell apart. On the path of
production the only packet is the one its schema supports (`initialize`). Symmetry is
used in runs without liveness only. Deadlock checking is off where the system may stop: when all
rows are terminal, all events or operations used, all epochs issued, every upload id taken, every
invocation or coordinator over.

Fairness. *OutboxLoop*: somebody starts a stopped process again (weak), live timers fire and claims
succeed when tried for ever (strong, since a death or a busy store can take each single chance
away), and a live process carries its cycle and each of its items on (weak); the delivery timer
bounds the wait, so the provider owes nothing. Deaths are never ruled out: each claim spends an
attempt. *KioskQueue*: the visibility poller calls `synchronize` again and again, which justifies
weak fairness of `ReplayBegins` and of the synchronous writes; `SF` of the server step, of acting
on an answer and of the two commits says that the network is not dead for ever and that the tab is
not closed every single time at the same point. Without the latter nothing can be promised of a
browser. *Maintenance*: weak fairness of each coordinator's and helper's own steps and of the
coordinator's timer, which is what a running process gives; nothing is assumed of the approval, of
operators, or of docker.

## 4. What disagrees with the documents

Two of these, `kiosk_recovery` and `delegation_cancel`, are among the runs. The other three have a
configuration beside the run they vary (`tlc -config MCUploads_order.cfg MCUploads`), with which TLC
stops at the history described.

- `kiosk_recovery`: WO-03 line 248 ticks off that a pending queue can be recovered after a crash. A
  tab that dies after writing the marker of a second event and before its item leaves the queue
  unreadable (`QUEUE_STATE_INVALID`), the first event included, and nothing in the code repairs it.
  `NothingLost` still holds: the records are there.
- `FailedWriteIsNotSent` (`MCKioskQueue_failed_write.cfg`): ADP-021 line 399 says that an event whose write failed must not be sent. If
  only the last of the three writes fails, the page reports that nothing was sent, but the next
  replay sends the event.
- `ClaimedInPlace` (`MCUploads_order.cfg`): the evolution plan (`docs/VCP_SHOOTING_OPERATIONS_EVOLUTION_PLAN_V2.1.md`, line
  418) asks that reference, cleanup and recovery of uploads do not fail because of the new tables. A
  submission restores what a dead cleanup left in `.cleanup` before it claims; an order
  (`src/business-order-v3.mjs:33` and `46`) claims by the row alone. A cleanup that dies between its
  renames and its `COMMIT` therefore leaves an upload that an order can claim while its file is not
  in its place. The file is not lost (`UploadsKept`): the next recovery restores it, but until then
  the order's page answers 404 for its image.
- `EveryOrderEnters` (`MCScheduling_orders.cfg`): ADP-024 (line 27) wants every open order in the planning input, incomplete facts
  and all. `normalizeCandidate` (`src/scheduling-contract-v1.mjs:401-455`) refuses a lighting preset
  with outer blanks or control characters, and under a configuration of schema 1 or 2 the subtypes
  of the still-life catalogue; `src/business-order-v3.mjs` stores both. One such order makes the input
  of every generation invalid. `PlannableButForOrders` shows that nothing else does.
- `delegation_cancel`: `docs/JSO_AGENT_API_V1.md` says (lines 205 to 207) that once an attempt exists,
  a cancellation answers `RECONCILIATION_REQUIRED`. The checks before the transaction ask for any
  attempt of the source, but the transaction itself only for one of the same assistant
  (`src/jso-conversation-boundary-v1.mjs:51`). With a source delegated for two assistants in two
  processes, a cancellation for one is answered `cancelled: true` although the attempt of the other
  was claimed in between, and was perhaps executed. With one assistant the document is right
  (`OneAssistantKeepsDocumentation`).

## 5. Proofs

Every theorem is of the form `Spec => ...` for the specification its component is checked under, or
under the larger one that composes it (`FieldSpec`, `QueueSpec`, `LoopSpec`, `DelegationSpec`), for
every value of the constants. None assumes more of the constants than the `ASSUME`s of the modules,
which TLC evaluates on every run; those that say more than a type are listed at the end. There are two
exceptions. `VerifiedMeansDurable` has `MaxTampering <= 2` as a hypothesis and fails beyond it;
`VerifiedUnlessRemade` says what holds for any number. `OneAssistantKeepsDocumentation` assumes a
single assistant and fails for two (section 4); `DelegationsKeepTheirPromise` is about any number.
What is inductive was model-checked first where a state of the model is small enough.

`OutboxProofs` (any `Ids`, `Workers`, `Intents`, budget and batch size). The properties are not
inductive by themselves: that a sent row was accepted depends on what a settling item carries, and
that the budget holds depends on each asked card having its own claim. `IndInv` therefore adds to
`TypeOK`: `RowsShaped` (how status, attempts, minted tokens and lease go together, which is what the
table's CHECKs say), `KeysUnique` (one row per dedupe key), `TokensMinted` (every token in hand or
asked has been minted) and `ResultsSound` (an item that carries a success was accepted under its
own token). One lemma per action shows that it is preserved; the theorems follow: `TypeCorrect`,
`SentIsSound`, `DeadLetterIsJustified`, `BudgetIsKept`, `IsolationIsKept`, `LeaseIsRespected`,
`GuardNeverAborts`, and `ImplementsDelivery`, which maps every step to a step of
`OutboxDelivery` or a stutter.

`OutboxLoopProofs` (any delays, any number of forgotten timers). `WorkerInv` says that a cycle is
either planned, by the timer, or in flight, never both, and that an accepted wake is remembered by
the flag while a dispatch is in flight and by a timer without delay otherwise: `OneCycle` alone is
not inductive, because which of the two holds decides what a late timer, a stop and a start may do.
`DispatchInv` ties the items of the table to the dispatch under way. From them follow
`LoopHasOneCycle`, `StopWaitsForItems`, and `LoopImplementsOutbox`: every step of the loop is a step
of `Outbox` with this one worker, or leaves its variables alone. `LoopKeepsTheTable` carries the
theorems of `OutboxProofs` over, by instantiating that module, without proving any of them again.

`RunProofs` (any events, runs, items, times and resources; V2 and V3 together). `Inv` relates
the four tables in which the code writes one transaction: `FactsKept` (a fact and its receipt agree),
`Numbered` (the facts of a run bear the revisions from one to its own, each once), `Chained` (each
fact was folded into what the receipt before it says), `LeftByLast` (the last one left the run as it
stands), `RunsTimed`, `OneRunEach` (run, request and cancellation), `Announced` and `Measured` (the
blocked time is a sum over the facts, and never exceeds the time that has passed).
`ReceiptsCanBeRebuilt` then follows by induction over the revisions, `RunsAreTheirFacts` reads the
run off its facts. `RecorderKeepsRunsDisjoint` needs that a run that is open bounds no later start.

The same module proves the queue (any number of tabs, own and foreign events, any crashes and failed
writes) over this `Inv`. `NothingLost` is inductive only with knowledge of both sides, so `QueueInv`
adds: `CommandsKept` and `FactsCounted` (what the server has of an event is the command recorded,
and its number is one more than its client had seen), `SeenBefore` (what a tab last saw of the
server is the past of a run that has not gone back since), `PriorFirst` and `RunsContinued` (what an
event was recorded after is applied or ahead of it in the queue), `TabsStand` and `VerdictsStand`
(what a tab is in the middle of, and what is stored as final, is something the server stands by) and
that every request left behind was sent in turn (`InTurn`). The verdicts need one idea: a refused
event is `Doomed`, which names every reason for a refusal that no later step can undo. Server steps
only let the tables grow (`Grows`), so what is doomed stays so, and a late request cannot apply what
the kiosk already shows in conflict. Theorems: `QueueTypesHold`, `ConfirmedEventsAreNotLost`,
`EventsArriveInOrder`, `FinalVerdictsAreTrue`.

`SchedulingProofs` has two halves. The first is about pure functions, for every input: `FirstSlotIs`
(the walk over the busy intervals finds the first room that a window has, or none), `SlotsAre`,
`BestIs` (what the ranking picks), `PlaceOneIs`, `GenerateIs` (the answer of the scheduler: each
session as long as its order says, inside the windows, apart from the others and from what is in the
way, none earlier), `BusinessWindowsAre` (windows lie apart, in their day), `NextRoomIs` and, for the
day that gives way, `DayAfterIs`. The second half is the invariant of the tables:

- `TableInv`: `Stored` (types, and what the schema and the contracts demand of each row), `Related`
  (how rows refer to each other) and `Remembered` (a draft, or a generation between its two
  transactions, holds an input that could once be planned). Nothing about drafts would be inductive
  without the last: acceptance compares the remembered input with the present one and then runs the
  scheduler on it.
- `PlanInv`: `DraftsCurrent`, `CardTellsTime`, `NoOverlap` and `CalendarKept` together, since a draft
  that is current is what makes placing it free of overlaps, and the calendar is what
  makes an activation harmless.
- `CallInv`: `Boundaries`, `Commanded` (a delegated command was once acceptable) and `OneAttempt` (an
  attempt is on record before anything is sent, at most one process sends for a source).

The steps fall into three kinds, which is what keeps the proof finite: `Quiet` ones leave the
sessions alone (`QuietWrites` lists what they may write), `Placing` ones add sessions that the
scheduler has answered, `Moving` ones move or end sessions one by one or push the rest of a day. The
theorems are `ScheduleInvariant`, `DraftsAreCurrent`, `CardsTellTheTime`, `SessionsNeverOverlap`,
`CalendarIsKept`, `SchedulerPlacesEarliest`, `TablesCanBePlanned`, the two action properties
`SessionsAreAdoptedAsOrdered` and `RevisionsNameSnapshots`, `ViewsTellOneStory`, which follows from
the relations of `TableInv` without an induction of its own, and `DelegationsKeepTheirPromise`: with
`withdrawn` and `dispatched` as `Delegation` maps them, every step is one of `Permit!KeptNext` or a
stutter. The same lemma gives `OneAssistantKeepsDocumentation`, since an attempt of anybody is then one
of the assistant named. `TablesCanBePlanned` states `PlannableButForOrders`; `RevisionsNameSnapshots`
says that a step which changes the snapshot moves the projection revision, and that the result can
be projected.

`CleanupControlProofs` (any set of processes). `Inv` adds to `TypeOK`: `RunsOnRecord` (the run files
are those of admitted processes), `ConfirmedStands` (a confirmed disable has its marker, and no
run file) and `ChecksStand` (what enable has checked still holds while it removes the marker,
because it holds the lock). Theorems: `Invariance`, `TypeCorrect`, `DisableHolds`,
`ReopensOwnEpoch`, `ImplementsGate`.

`UploadsProofs` (any processes, uploads, operations, contents and tombstones). `UploadsKept` is not
inductive: a tombstone that a committed cleanup is about to delete is no copy to count on. `Kept`
asks for a safe one (`SafeCopy`), and `InProgress` says what each call inside the transaction relies
on: `Staging` (whatever is moved aside is named by rows that this cleanup selected, and by no other),
`Inserting` (a file this call made is nobody else's, should it have to be taken back) and `Restoring`
(every row has its file, or the recovery has still to come to its tombstone, or has failed on it).
`StepKeeps` is the argument about interleaving, made once: rows and files change only under the
lock, so what others rely on inside a transaction stays. Theorems: `UploadsInvariant`,
`UploadsTyped`, `UploadsAreKept`, `SubmittedStayInPlace` and the action properties `ClaimsAreForGood`
and `ClosedGateDeletesNothing`.

`OfflineProofs` (any servers, coordinators and packets). `Fenced` (the fence is held by who works
under it, and by nobody while a server lives), `Served` (a server without a record is off the
production path, an active one has an ACTIVE record, a prepared one serves what was approved until
there is one and never writes) and `Truthful`: what a live coordinator remembers, what its helper
has said and it has not read yet, and what it has reported are true. `ReportsAreTrue` needs all of
it, because what makes a refusal true is that the helper was never permitted or has already left,
whatever is still in the pipe. `EmptyDatabaseIsMaintained` holds because a server that writes is
alive, and none is while a transaction of a helper is open: what the helper looked at when it began
(`Checked`) stays. Theorems: `MaintenanceInvariant`, `AccessIsExclusive`, `ReportsStayTrue`,
`BaselineIsServed`, `EmptyDatabaseIsMaintained`.

For the migration (any processes, invocations, contents and writes) the same module proves
`MigrationInv`. `Numbered` and `CommitsKnown` say that a committed target bears the number of the
invocation that committed it, and that this one knows: from this `FailuresAreHonest` follows.
`VerifiedMeansExact` needs, beyond it, what the stamps compared in the last step say of the source.
Durability is the harder part. `CopiesDurable` holds because a complete copy was synced before it
was called complete. A target is synced by the one who made it (`Syncs`), so what has to be shown is
that whoever vouches for a target made it (`OwnTarget`). It is a matter of counting: two invocations
can have made the same three files only if each file was removed in between, so what they have both
made bounds the removals from below (`RemovalsCounted`), and a target that is another's takes three.
`SealedDurable` carries this over to later invocations that find the seal. Theorems:
`MigrationInvariant`, `VerifiedMeansExact`, `FailuresAreHonest`, `VerifiedUnlessRemade`,
`VerifiedMeansDurable`.

`IsolatedNeverAsked` and `RevisionNamesSnapshot` are proved but in no run: the first is a matter of
one transaction, the second of one step (`IsolationIsKept`, `RevisionsNameSnapshots`).

Induction. The library's induction theorems that take an operator as a parameter cannot be used by
the installed provers, those about sets can: `RunProofs!Induct` and
`OrderedFolds!FiniteSubsets` state induction over a set of numbers and over a set of finite
sets. `OrderedFolds` uses the second to show once what a fold over a set in an order computes, with
step and order as constants of the module; every sorted loop of the scheduler is an instance.

Assumptions on constants that say more than a type: calendars, rules, sessions and resources are
finitely many (`CalendarsAssumption`, `RulesAssumption`, `FiniteAssumption`), as rows of a database
are, and so are the events of a device (`OwnAssumption`); a day has at most as many slots as the
longest buffer (`SlotAssumption`); what is there when the model begins obeys the invariants
(`StartsAssumption`), as it was written by the same commands or imported through the same contract;
nobody is named like "nobody" (`NoneAssumption`, `NobodyAssumption`, `OwnersAssumption`); delays
double, which the provers have to be told because they know nothing of powers (`PowersAssumption`, a
fact of arithmetic); an intent has a row id (`DispatcherAssumption`, `IntentsAssumption`).
`SlotAssumption` is where the proofs met the code: `normalizeBufferRule`
(`src/scheduling-admin-contract-v1.mjs:490`) does not bound a rule's buffer, while rows
(`src/sqlite-schema-v2.mjs:163`) and proposals (`src/scheduling-contract-v1.mjs:702`) admit 1440
minutes at most. A longer buffer does no harm, since a session with it fits no window of a single
day, which is what the proof of `GenerateIs` shows.

Only model-checked: liveness (`EventuallyResolved`, `EventuallySettled`, `FenceReturned`), which
needs ENABLED and fairness and is out of the prover's reach, and the findings of section 4, which
are violations. Every other property of a run is stated by a theorem.

## 6. Not modelled

- *Agent API without conversations*: its grants come from configuration and are claimed per
  command instead of per source.
- *Content of uploaded files*: a file torn by a crash counts as present. The code notices it only when
  the image of an order is shown (`src/http-app.mjs:244-253` compares size and digest and answers
  404); nothing repairs it, since uploading the same content again finds the file in its place
  (hazard at `src/store.mjs:694`).
- *Kiosk control lock*: `KioskQueue` lets every tab act, so nothing it checks depends on the lock.
- *Production authority, manifests, attachment copy*: authority and manifest compare large
  documents with constants of the source. The copy needs a capability that no production code
  creates; every production call ends with `ATTACHMENT_PARITY_PROVIDER_AUTH_REQUIRED`
  (`src/production-attachment-copy-v1.mjs:182`).
- *Evaluation and shadow reports*: pure comparisons without state or caller.
- *Callback admission*: its replay store has no production implementation and no action is wired.
- *HTTP routing, sessions, authorization, device identity*: wiring and credentials; the switch
  of write admission is in `ServerRuntime`.
- *Contract validators*: what they admit is in the models where it decides something
  (`SchedulingContract`, `Projectable`); formats and limits of text are not.
- *Pages without protocol state*.
