# Formal model of inventory-autopilot

The program keeps the quantities of an Amazon seller account in step with a vendor's
stock files. This directory holds TLA+ modules of its core, the TLC configurations that
check them on small instances, and proofs, checked by TLAPS, of the safety properties for
every value of the constants that satisfies the assumptions named in the modules. `PROJECT.json` maps every definition to the lines of code it stands for.

    tlc -config push_undo.cfg MCPushLifecycle.tla     one run
    tlapm PushLifecycle_proofs.tla                    one module of proofs

Paths below are relative to `src/`.

## 1. The system

One process runs a web application and, in a thread, a scheduler; further web processes
without a scheduler are allowed. All of them share one PostgreSQL database. Amazon and
the vendor's server are outside.

| Component | State | Operations |
|---|---|---|
| Run (`app/engine/pipeline.py`) | `runs` | `execute_run`: recover, confirm, ingest, decide, gate, record, send, verify |
| Feed ingest (`pipeline._ingest`, `app/vendor/`) | `feed_files`, `vendor_products` | list, download, verify, parse, gate, upsert, count what is missing |
| Decisions (`app/engine/decision.py`) | none | `desired_quantity`, `decide`, `decide_dropped`, `apply_change_limit` |
| Guardrails (`app/engine/guardrails.py`) | none | the gates of a feed and of a batch |
| Matching (`app/engine/mapping.py`) | `sku_overrides`, index of the listings | `CatalogIndex`, `Mapper.match` |
| Sending (`app/engine/pusher.py`) | `push_batches`, `push_items` | `create_batch`, `send_batch`, `verify_batch`, `confirm_from_catalogue` |
| Undo (`app/engine/rollback.py`) | the same rows | `plan_rollback`, `execute_rollback`, `rollback_last_n` |
| Operator (`app/routers/actions.py`) | settings, batches | run now, approve, reject, undo, pause, change mode |
| Scheduler (`app/scheduler.py`) | triggers | `job_sync`, `job_catalog_refresh`, `job_daily_digest`, `apply_schedule_settings` |
| Database access (`app/db.py`) | advisory lock, sessions | `session_scope`, `checkpoint`, `run_lock` |
| Amazon client (`app/amazon/client.py`, `lwa.py`) | token, token bucket | `request`: guard, practice mode, rate limit, retries |
| Amazon calls (`app/amazon/listings.py`, `feeds.py`, `reports.py`) | none | PATCH of one SKU, one feed document, the catalogue report |
| Run records (`pipeline.execute_run`, `close_interrupted_runs`) | `runs`, process start-up | open, end, fail, recover the session, close what a dead process left |
| Notifications (`app/notifier.py`) | `notifications` | queue, flush by a run, by the hourly sweep, by the digest |
| Files on disk (`pipeline._ingest`, `pipeline._housekeeping`, `app/engine/report_builder.py`) | quarantine directory, report directories, `report_files` | download, set aside, write reports, delete what is old |
| Settings (`app/core/settings_store.py`, `app/routers/settings_page.py`) | `settings` | read one by one, save a form |
| Login (`app/security/auth.py`, `app/routers/auth.py`) | failures, lock time, sessions | log in, lock out, second factor |

How they interact:

* Every job that touches Amazon or batches (run, refresh, approval, undo) holds the one
  advisory lock while it works. The web handlers check the batch and the pause switch
  *before* they take it; rejecting a batch, pausing and changing the mode take no lock.
* A job works in one session. What it flushes is invisible to others and lost when the
  job dies; `checkpoint` commits in the middle. The lock is held on another connection.
* Ingest and decision speak through `vendor_products`, decision and sending through the
  batch, sending and refresh through `amazon_listings` and the items of old batches.

What is hard: a crash at every point between a call to Amazon and a commit; checks made
before the lock; settings read at two moments; Amazon applying an accepted change later,
so that a read-back may be early; a catalogue cache that lags; undo from several batches
of one SKU; files that are met half uploaded, renamed, refused, retried or late; a change
limit that leaves a backlog which is stored nowhere; tokens that age while their thread
waits; buckets that know nothing of repeated calls; an error that aborts the very
transaction its own record belongs to; rows and files, or mails and rows, of which one
survives a failure and the other does not; settings that two threads apply at once.

What makes each component correct:

* Sending: whatever reached Amazon is on record with the quantity before it; an item is
  verified only by evidence; a failure is not declared too early; every interrupted send is
  settled in the end, and so is every accepted item of a batch whose status is read back.
* Recovery: nothing is sent while the outcome of an earlier send is unknown.
* Undo: its plan holds every change that went out; its own items are complete.
* Ingest: no content is read twice; a complete file is read in the end; only accepted
  full feeds move the dropped-product counter.
* Decision: a product comes off sale as dropped only on an accepted full feed's word; a
  quantity is covered by the vendor's stock; urgent changes go first; the backlog clears.
* Matching: only listings of ours that may be changed are changed, each at most once, and
  a twin that may not be changed hides none that may; a product that is served is not
  taken for dropped.
* Client: a first attempt never exceeds Amazon's allowance, unless attempts were repeated
  since it was last full; no expired access token is offered, nor one that was answered with
  401; practice mode sends no PATCH and no feed; a wait for a rate-limit token ends without
  one only if another thread took it or the operation earns too slowly; every conversation ends.
* Run records: a failure on record has its alert; a row that says RUNNING has a cause.
* Outbox: an alert on record that names a recipient is mailed in the end, unless the mail
  server refuses it, and is not called sent before; one that names nobody is put aside.
* Disk: an archive that was read stays for the days it is kept; a digest is known only of
  what was read; what is old goes, and a full disk clears itself.
* Timetable: checks stay on their grid, and saved settings take effect.

## 2. Modules

| Module | Content |
|---|---|
| `PushData` | rows of batches, items and listings; the pure parts of sending, verifying and planning an undo |
| `PushLifecycle` | one state machine of all jobs that work on batches, the operator, crashes and Amazon |
| `PushInvariant` | the inductive invariant of `PushLifecycle` |
| `PushClaims` | a statement of the code's comments that it does not keep |
| `ChangeLedger` | abstract: what the push machinery promises of one change |
| `PushRefinement` | `PushLifecycle` as an implementation of `ChangeLedger` |
| `PushLifecycle_proofs` | its safety for any SKUs, quantities, batches, web processes and modes |
| `PushRefinement_proofs` | the refinement, for one web process |
| `MCPushLifecycle` | the instance for TLC |
| `Decision` | the rules for quantities, the change limit and the gate |
| `VendorSync` | from the vendor's files to the changes of a run |
| `VendorSync_proofs` | what `Decision` and `VendorSync` promise for all rules, files and faults |
| `VendorClaims` | a statement about refused files that the code does not keep |
| `MCVendorSync` | the instance for TLC |
| `Matching` | from the vendor's barcodes to the listings a run decides on |
| `Matching_proofs` | what `Matching` promises for every account |
| `MCMatching` | the instance for TLC |
| `ApiCall` | calls to Amazon: buckets, attempts, tokens, practice mode, polling |
| `ApiCall_proofs` | its safety for any threads, buckets and limits |
| `MCApiCall` | the instance for TLC |
| `RunRecords` | how runs end on record, across crashes and starts, and how alerts are mailed |
| `RunRecords_proofs` | its safety for any processes, runs and crashes |
| `FeedArchive` | archives, report files and the rows that tell of them, on a finite disk |
| `FeedArchive_proofs` | its safety for any files, disk, retention and faults |
| `Timetable` | the triggers of the scheduler, and how saved settings reach them |
| `Timetable_proofs` | its safety for any day, hours and settings |
| `MCTimetable` | the instance for TLC |

A formula marked *a mutant of X* states a plausible mistake in place of X. Nothing uses
it in the specifications: it shows that a property would notice the mistake.

### PushLifecycle

| Variable | Code |
|---|---|
| `batch`, `item` | committed rows of `push_batches` and `push_items` |
| `listing` | committed rows of `amazon_listings` |
| `mode`, `paused` | the settings `sync_mode` and `paused` |
| `lock` | the advisory lock, by the process that holds it |
| `job` | program and session of the holder: kind, phase, the mode and the client it was given, its batch, what it flushed |
| `asked` | the batch a web process has checked but not yet sent |
| `amazon`, `queued` | what Amazon shows, and the change it has accepted but not shown |
| `reached` | history: which changes reached Amazon |

Each phase of a run is an action ended by a commit or a call: `RunStart` (the scheduler
reads the mode and builds the client), `RunOpen` (pause and mode are read again),
`RunRecover`, `RunConfirm`, `RunRecord` (`create_batch` and its checkpoint), `RunHold`
(ask-first), `RunSend` (SENDING is committed), then one `PatchItem` per SKU or one
`SendFeed`, `RunAccount` (results are committed), `RunVerify`. `PatchRaises` and
`FeedRaises` are the errors that escape the client; the first ends the send as FAILED,
the second leaves SENDING behind. `ApproveCheck`, `ApproveSend` and `ApproveGivesUp`
divide an approval where the code takes the lock. `RefreshStart` and `RefreshStore`
divide a refresh at the report, which may be minutes old. `Abort` is an exception that
rolls the session back, `Crash` a dead process; either frees the lock. What a run decides
is any choice of new quantities: `VendorSync` says which.

`ChangeLedger` knows of a change only its stage, its terms (the quantity before and the
new one) and whether it reached Amazon. `PushRefinement` reads these off the committed
rows: an item of a batch nobody began to send is *proposed*, a PENDING item of any other
batch *released*, an accepted one *open*, the rest *closed*; `outside` is `reached`. What
a session has flushed but not committed is not on record, so a crash maps to a stutter.
The items of a declined batch count as released: the declining takes no lock and may
cross a send that has begun.

### Decision and VendorSync

| Variable | Code |
|---|---|
| `server`, `feed` | the vendor's files: absent, partly uploaded, complete, taken down; and what they hold |
| `status`, `hashes` | `feed_files`: latest status by name, and the digests on record |
| `stock`, `source`, `inFull`, `missing` | columns of `vendor_products` |
| `db` | the committed values of these six |
| `job` | the run that holds the lock |
| `listing`, `amazon` | the cached and the real quantities |
| `faults` | how often something went wrong |

`RunStart` lists the server and passes over names that are PARSED or SKIPPED_DUPLICATE.
`Fetch` downloads the oldest candidate: a known digest makes it a duplicate; else the
digest is recorded, *then* the archive is verified. `FetchBreaks` is a lost connection,
which ends the loop. `HangUp` closes the connection. `ParseFile` stores the rows and then
judges the file. `Stored` is the checkpoint, and ends a halted run. `DecideRun` computes
the decisions over the whole catalogue, applies limit and gate. `SendAll`, `SendAllShown`
and `SendSome` say how much of a batch Amazon took and the run read back.

Files are numbers in the order of `sort_key`, which puts a day's full feed before its
deltas; `Publish` may bring them in any order. That a name is no longer today's has the
same effect on the next run as the file being taken down. Digests are pairs of text and
completeness: the same text under two names has the same digest, a half uploaded file
has a digest of its own, which does not change until the upload is complete. The median
is over all earlier full feeds; the code's window of ten is never filled.

### Matching

| Variable | Code |
|---|---|
| `row`, `gone` | `vendor_products`: the stock by barcode, and the barcodes absent from enough full feeds |
| `listing`, `flagged` | `amazon_listings`: presence, status, quantity; the column `blacklisted` |
| `neverTouch`, `override` | the setting `blacklisted_skus`, active rows of `sku_overrides` |
| `unmatched` | barcodes in `unmapped_barcodes` |
| `job`, `decisions` | the run's phase and the settings it began with; what the last step decided |

A run is `Ingest` (any effect the vendor's files can have, which `VendorSync` details) and
`DecideRun`; between and before them the operator's `AddOverride`, `DeleteOverride` and
`SaveNeverTouch` change what it will meet. `Refresh` renews listings and flags, and is
kept out of a run by the lock. `DecideRun` sends any subset of what it decided. SKUs are
numbers in the order of their names; a barcode is a product and a width, 13 or 14 digits,
since `normalise` pads everything shorter to 13. `Variants` are the forms of
`match_candidates` that a listing can have. Both flags `skip_fba_listings` and
`skip_inactive_listings` are display: `decide` excludes those listings in any case.

### ApiCall

| Variable | Code |
|---|---|
| `credit` | `_Bucket._tokens` of each operation, in ticks of earning |
| `meter` | external: what is left of Amazon's own allowance |
| `client` | the `SpApiClient` of a thread: `dry_run`, and the `AccessToken` in its `TokenProvider` |
| `call` | where the thread is in `request`, its attempt, and in the conversation around it |
| `repeated` | history: a repeated attempt since Amazon's allowance was last full |

A conversation is a sequence of calls (`Script`): a batch of patches, a feed document, the
connection test, the catalogue report. One call is `TakeToken` or `GiveUp` (`_Bucket.take`
and its `TimeoutError`), `Send` (the token is fetched or renewed, the request leaves) or
`NoExchange`, then one of `Troubled` (no answer, 429 or 5xx: backoff and `TryAgain`),
`Unauthorised` (401: the token is refused), `Refused`, `Answered`. `Reauthorise` follows a 401:
the token is dropped, and another attempt made at once, or after the last one the conversation
ends, as `patch_quantity` passes a 401 on. `Refused` is 403 or another 4xx: it ends the conversation,
but for a patch answered with 400 or 404, which is a rejected item and lets the batch go on. `Answered`
moves on to the next call, or for a poll to `StillWaits` and `LookAgain`. `Transfer` is
upload or download through Amazon's storage, which takes neither token nor retry. `Tick`
lets everything age; a request cannot stay open beyond its timeout.

### RunRecords

| Variable | Code |
|---|---|
| `run`, `alert` | committed rows of `runs` (status) and `notifications` |
| `job` | the run under the lock: where it is in `execute_run` or its caller, and what its session holds |
| `flush` | the calls of `flush_queue` in progress: by `job_sync`, by the sweep or digest |
| `state`, `leftover` | a process, and the rows `close_interrupted_runs` has read |
| `mailed`, `closed`, `broken` | history |

`Open` is `execute_run` up to its checkpoint. `Return` and `Raise` end its body, `Handle`
is the handlers (`_recover_session`, status, alert), `HandleInVain` the same on a
connection that is lost, `Tidy` the `finally` clause. `Summarise`, `JobFlush`, `MailOne`
and `Commit` are `job_sync` after the run; a run from the page commits at once. `MailOne` is
what a flush does with one alert: one that names nobody (`Unaddressed`) is marked as sent
without a mail, one the server refuses (`Undeliverable`) stays unsent, any other is mailed and
marked. All alerts of a run are one row, and whom it names is a constant. The sweep's actions interleave with all of these, since it takes no lock.

### FeedArchive

| Variable | Code |
|---|---|
| `disk`, `part` | files and `.part` files under the quarantine directory |
| `report` | the report directories, by age |
| `rows`, `db` | `feed_files` and `report_files` as the session sees them, and as committed |
| `job` | the phase of the run |
| `server` | external: the vendor's files |

`DownloadStart`, `DownloadEnd` and `DownloadBreaks` are one `download`; `Check` is digest
and archive test, with the `unlink` of what is refused; `Parse`, `Stored`, `WriteReports`,
`RecordReports`, `Housekeeping`, `Commit` are the rest of a run. `Fail` is an exception: the
session is rolled back, files stay as they are, the run still tidies up. `Crash` leaves
even `.part` files. `Prune` is the hourly `prune_old_reports`.

### Timetable

| Variable | Code |
|---|---|
| `cfg` | the settings of the schedule |
| `sync`, `catalog`, `digest` | triggers of the APScheduler jobs; `sync.due` is its next time |
| `pass` | how far each thread is in `apply_schedule_settings` |
| `up`, `clock` | the process and the time of day |

The settings are read in several calls, so a `Save` may fall between `ReadInterval`,
`Compare`, `SetSync`, `ReadDaily`, `SetCatalog` and `SetDigest`, and a second thread between
any two of them.

## 3. Runs

| Run | Question | Instance |
|---|---|---|
| `push_undo` | Is what was sent on record, undoable, and never sent over? | one SKU, three batches, undo of one or two |
| `push_modes` | Does the inductive invariant hold under mode changes, pauses and edits by others? | one SKU, three quantities, three modes |
| `push_settles` | Are interruptions and accepted items settled, and does sampling over a feed document verify or fail too early? | two SKUs, one batch, one SKU read back, fairness |
| `sync` | Are files read once, counted right, and products dropped on good grounds? | two files, two products, one fault, limit 1 |
| `sync_settles` | Is a complete file read and a backlog cleared? | one file, two products, two faults, limit 1, fairness |
| `matching` | Which listings does a run touch, and how often? | one product under two barcodes, twin listings, a listing of another supplier, mappings and a never-touch list that change |
| `client` | Do calls stay within Amazon's allowance, use good tokens, keep practice mode silent, and end? | the job's thread and the page's, all four conversations, two attempts, `reports.get` and `feeds.create` metered, fairness |
| `jobs` | Has every failure its alert and every RUNNING row a cause, and are alerts mailed? | two processes, three runs, two crashes, flushes of two, one mail always refused, one alert that names nobody, fairness |
| `archive` | Do rows and files agree where they must, and does what is old go? | two archives of size 2 on a disk of 3, kept a day, two faults, fairness |
| `timetable` | Do checks stay on the grid and settings take effect? | a day of four hours of two ticks, four settings, fairness |

`push_modes` also checks, step by step, that `PushLifecycle` implements `ChangeLedger`
(`LedgerIsKept`).

The smallest instance in which each question is not empty needs: two batches of one SKU
for an undo of several, a third for the undo itself; two SKUs for a sample smaller than
the batch and for a send that stops half-way; two files for a duplicate, for a median and
for a full feed that leaves something out; two products and a limit of one for a backlog.
Quantities are compared for equality and order with zero only, so two or three suffice.
We expect larger instances to add repetitions rather than situations. For safety the proofs
in section 5 do without that expectation; for liveness it is all there is, and there
`sync_settles` has one file only, met half uploaded, whole, set aside or cut off in any order.
Files that queue behind a broken one or have each other's bytes are only in `sync`, that is for
safety: a second file, beside the bad headers, forced runs and two faults that `sync_settles`
has and `sync` has not, makes too many states for TLC to finish within minutes. `MaxBatch`, `MaxFile` and `MaxFaults` are the only bounds on
behaviour in the first three machines; `matching` and `timetable` have none. The rules of `matching` have a buffer of two, so that a stock of one
shows as none. `sync` is symmetric in the products, `MCPushLifecycle` declares the symmetry
of SKUs but the runs do without it. Deadlock checking is off because a bounded system
really stops: when all batches, runs or faults are spent and no job is due.

In `client` two buckets are metered: that of `reports.get`, which both threads use, and that of
`feeds.create`, whose token takes longer than the patience, as in the code, so that the second
such call of one document may be refused. A bucket of one token, a patience of one tick, a
token life of three ticks with a margin of two against a timeout of one keep the code's order
(120 s of patience, 60 minutes of life, 5 of margin, 60 s of timeout). The allowances are no
larger than `AmazonAssumption` demands. For `listings.patch` and the other operations, with
their bursts, the proof of `RoomAtAmazon` stands alone. In `jobs` a third run is needed for a flush limit of two to
leave something out. In `archive` the disk holds one archive and one report, or none and
three, so that each kind can crowd out the other. In `timetable` one interval does not
divide the day, one zone differs, and one hour is 0, which the code reads as unset.

Safety runs use the plain `Spec`; runs with a liveness property use `FairSpec`. The type
invariants of `Matching`, `RunRecords` and `Timetable` are not among the runs; all three are
proved.

## 4. Fairness

* A job that has begun goes on (`WF` on the steps of the lock holder). The code has
  timeouts on every call, and a process that dies is `Crash`, not a job that hangs.
* The scheduler starts runs and refreshes again and again (`SF`): its triggers fire
  periodically, and one that finds the lock taken returns and comes back. Strong, because
  the lock is taken and released in between; assumed is that it is not *always* taken at
  those moments.
* In `PushLifecycle` a run's recovery and a report's storing are strongly fair: they
  happen if attempts do not all crash. The ageing of a batch past the confirmation
  deadline is weakly fair: time passes.
* `ApiCall`: time passes and each thread goes on (`WF`). Nothing is assumed of answers: they
  may all be lost or refused, which is why `ConversationEnds` rests on the attempts and on
  the waiting limits alone.
* `RunRecords`: jobs and sweeps go on, a stopped process is started again (`WF`): the service
  manager restarts it. A sweep finds the mail server now and then; a job's flush need not.
* `FeedArchive`: a run goes on until it ends and the hourly job fires (`WF`); days end and
  runs start again and again, each finding the lock free now and then (`SF`).
* `Timetable`: time passes, threads go on, the process is restarted (`WF`); now and then a
  check finds the lock free and runs to its end (`SF`), which is when the job applies the
  settings. `SettingsReachTimetable` speaks only of settings that are left alone.
* Nothing is assumed of operators, of Amazon (it may show an accepted change late or
  never), or of the vendor. Faults in `VendorSync` are finite in number.

## 5. What is proved

For every number of SKUs, quantities, batches, web processes and modes, from the named
assumptions on constants in `PushData` and `PushLifecycle` (`PushLifecycle_proofs`):

| Theorem | Statement |
|---|---|
| `Invariance` | `Spec => []IInv` |
| `TypeCorrect` | `Spec => []TypeOK` |
| `EverySendIsOnRecord` | `Spec => []SentIsOnRecord` |
| `VerifiedIsClosed` | `Spec => []VerifiedBatchIsClosed` |
| `RecoveryComesFirst` | `Spec => []NoSendOverWreckage` |
| `EverySentChangeIsUndoable` | `Spec => []SentIsUndoable` |
| `ConfirmationIsEvidence` | `Spec => ConfirmedWasShown` |
| `FailureIsNotHasty` | `Spec => NoHastyFailure` |

The argument. `SentIsOnRecord` alone is not inductive: that a PATCH finds a committed row
with a previous quantity follows only from knowing which batch the sending job works on.
`IInv` adds, per phase, what the job knows of its batch (`JobFitsBatch`), that sessions
end with their lock, that every row of an item is complete, that a batch nobody began to
send is clean and reached nobody, that practice batches stay proposals, that a web
process only asks for what was held, and that past its recovery step a run sees no other
SENDING batch. The last one needs the lock: no other job sends meanwhile, and rejecting
never makes a batch SENDING. The proof has one step per action, and lemmas per conjunct
where the action rewrites rows; the first part of the module states what `Judge`, `Promotes` and the
plan of an undo return. Action properties follow from `IInv` and the two or three actions
that change an item's result.

`PushRefinement_proofs`, for any SKUs, quantities, batches and modes, from the same
assumptions and `Web = {Main}`: `LedgerIsImplemented` says that every behaviour of
`PushLifecycle` is one of `ChangeLedger` (`LedgerIsKept`). The hypothesis is the deployment of
`docs/DEPLOYMENT.md:447` and `scripts/run.bat:60`: one web process, whose handlers run one
after another. With the further instances that `docs/DEPLOYMENT.md:471` allows for the
dashboard, two may check one held batch and both send it, so that a closed change goes out
again; the theorem would then be false, while everything else proved about the push part
allows any number of web processes. To `IInv` the proof adds `LInv`: a web process that has
asked for a batch finds it still held (`AskedIsHeld`, which is where the hypothesis is used),
a send has no answer on record before it is over (`SendsUnanswered`), so that what it puts
out was open in the ledger, and no item is older than its batch (`AbsentIsEmpty`).
`AnswersSettle`, `BatchReleased`, `BatchRecorded` and `UnansweredReach` each map one way of
changing rows to `Settle`, `Release`, `Record` or `Reach` of the ledger, and each action is
shown to be one of them, or to leave stage and terms alone (`QuietSettles`): among these are
crashes and aborts, which end a send and keep its rows.

`VendorSync_proofs`, first about `Decision`, for all inputs: a quantity is covered by stock minus buffer and capped
(`DesiredIsCovered`); it grows with stock (`DesiredGrowsWithStock`); a change that went
through is not proposed again (`DecidedIsSettled`); while a product that must come off
sale waits for the limit nothing else is sent (`ZerosGoFirst`), and while one must go down
nothing goes up (`DownGoesBeforeUp`); what is sent was decided on, and is within the limit
(`LimitIsKept`).

Then about `VendorSync`, for any products, number of files, stocks, rules, limits and faults:
`TypeCorrect`, `BytesAreReadOnce` (`NothingReadTwice`), `OnlyFullFeedsCount`
(`MissingIsCounted`) and `DropsAreJustified` (`DropHasFullFeed`). A crash or a failed
transaction brings the committed rows back in any state of the run, so the invariant says of
the session *and* of what is committed that it is `Sound`: the digest of a file that was read
is on record, no two files that were read have the same bytes, the products of a file that was
read have a row, and a product's counter is at most the number of accepted full feeds without
it. The job carries the rest: what is queued has not been read (`Queued`), and what is fetched
has its digest on record and shares its bytes with no other file fetched or read (`Fetched`),
which is how reading it keeps `Sound`. The counter grows by one exactly when one more feed
enters the set it is compared with, so its proof is about cardinalities and not about the
order of files. `DropHasFullFeed` follows at the decision, where a counter of at least one
needs a feed in that set.

`Matching_proofs`, for every account, vendor and set of mappings: `TypeCorrect`,
`OnlyOursAreTouched`, `OneDecisionEach` and `FitTwinsArePicked` state the invariants of
the run; `NothingIsQueued` says that `unmatched` stays empty. They rest on `PickIsBest`
(the least of a set of numbers exists, by well-foundedness), `PickedIsFit` (a listing
that may be changed has the least weight) and `CandidateMatches` (the barcode of a
listing is matched to a listing of that very barcode, unless a mapping leads elsewhere).
From the last, two barcodes cannot decide on one SKU, and no candidate is unmatched.

`ApiCall_proofs`, for any threads, metered operations, rates, bursts, patience, attempts,
pauses, timeout and token life that satisfy the assumptions of `ApiCall`: `TypeCorrect`,
`AllowanceSuffices`, `TokensAreFresh`, `RefusedTokensAreDropped`, `PracticeChangesNothing`
and `PatienceSuffices` state the safety properties of the run. The assumptions that carry
weight are that the margin exceeds the timeout, as 5 minutes exceed 60 seconds, and that
Amazon's allowance admits our burst twice, and also our burst and one request per thread. That
is a statement about Amazon: the second burst is what a restart spends, and the requests are
those whose tokens are taken while our bucket fills again. `listings.patch` satisfies it with 5 against 10
(`app/amazon/client.py:122`); for the other operations the code names no limit. The invariant says what
the properties leave out: how old a token may be after the time its request is under way
(`Aging`); that Amazon's allowance covers the tokens already taken *and* those still in our
bucket (`Fits`), which is what a step of another thread preserves; that a bucket nobody
else drew from has earned for as long as a call has waited (`Earned`); that no
practice-mode client is in a conversation that begins with a write (`Rehearses`); and that a
token known to be refused is found only between the 401 and `invalidate` (`Drops`). Most steps
only move a thread on (`Onward`), and are one case of the proof.

`FeedArchive_proofs`, for any number of files, any disk, any retention and any number of
faults: `TypeCorrect`, `ParsedStaysKept` (`ParsedIsKept`) and `KnownFilesWereRead`
(`KnownWasRead`). Both properties speak of what is committed, and a run deletes files before
it commits; so the invariant states them of the session too (`Kept(rows)`,
`Known(rows, job.fetched)`), with what connects the two: what is committed as read the
session has as read and as old (`Agree`), so that tidying up deletes only what both have as
too old, and a rollback brings back rows that the disk still bears out (`RollBackKeeps`).
`Pending` says that a run fetches only what it has not read, so that neither a download nor a
lost connection overwrites an archive that is kept.

`RunRecords_proofs`, for any processes, runs, flush size, crashes, and undeliverable and
unaddressed alerts:
`TypeCorrect`, `FailuresAreAlerted` (`FailureIsAlerted`), `CorpsesHaveCause`
(`CorpseHasCause`) and `SentWereMailed` (`SentWasMailed`). `CorpseHasCause` asks for a process
that is not up, and is not inductive: one that is starting closes only the rows it has read.
`CorpseIsSeen` asks for one that will close the row, as it is down or has read the row and not
yet written (`WillClose`), unless the row is that of a session that broke. `JobInv` says what
verdict and alert a run has at each step of its end; `DoneWasMailed` says of a flush under way
what `SentWasMailed` says once it has committed; both leave out alerts that name nobody, which
are marked as sent and never mailed.

`Timetable_proofs`, for any length of the day and the hour, any time zones and any set of
settings: `TypeCorrect`, `ChecksStayOnTheGrid` (`OnTheGrid`) and `OnlyCrossingIsLate`
(`LateOnlyAfterCrossing`). The first property is arithmetic: it rests on lemmas about remainders
(`MultipleIsZero`, `Quotient` and what follows from them), as the next check lies a multiple of
the interval after midnight plus offset, and still does when the day wraps and the interval
divides it. For the second, `Alone` says how far a pass that met no other has come (`Progress`):
what it read is what is saved, and the triggers it has passed by agree with that. `DownIsIdle`
says that a pass dies with its process, after which `start` sets all triggers.

Each inductive invariant was checked by TLC before it was proved. Every invariant, action
property and refinement that a run checks is stated by a theorem. Only model-checked is
liveness (`InterruptedSendSettles`, `AcceptedItemSettles`, `WholeFileIsRead`, `BacklogClears`,
`ConversationEnds`, `AlertIsMailed`, `ExpiredIsDeleted`, `OldReportGoes`, `FullDiskClears`,
`SettingsReachTimetable`), which is out of reach of the prover.

## 6. Where code and documents disagree

Runs that end in a counterexample:

* `claim_interrupted_undoable`: a change that was sent before a crash is PENDING in the
  database, recovery makes it SKIPPED, and undo skips SKIPPED items, against the promise
  of `_recover_interrupted_batches`.
* `claim_untrusted`: the rows of a full feed refused for its size stay in
  `vendor_products`, and the next run sends what they say.

Seen while modelling, kept in the model as the code has it, without a run:

* A read-back that came too early leaves an accepted item whose reading equals its
  previous quantity, and undo leaves it out (`app/engine/rollback.py:160`).
* The undone batches are ROLLED_BACK even if the send that was to restore them failed
  (`app/engine/rollback.py:350`).
* A batch can be declined after it was sent (`app/routers/actions.py:389`), and approved
  twice by two processes (`app/routers/actions.py:293`).
* A held batch is sent with the previous quantities of the day it was proposed
  (`app/routers/actions.py:345`), and undo restores those.
* The mode is read twice by one run (`app/services.py:117`, `app/engine/pipeline.py:244`);
  a practice client may serve an automatic run.
* A pause does not stop a run that has passed its start (`app/engine/pipeline.py:266`).
* Accepted items of a FAILED batch are read back by nobody (`app/engine/pusher.py:575`).
* A sampled batch is VERIFIED by a clean pass after one that found a change that did not
  stick (`app/engine/pusher.py:510`).
* An unreadable processing report rejects changes that Amazon applied
  (`app/amazon/feeds.py:400`).
* A file retried later, or a full feed that comes after the day's deltas, overwrites
  newer figures (`app/vendor/filename.py:120`).
* "Reconcile everything" before any full feed takes every product off sale that no file
  has mentioned (`app/engine/pipeline.py:1452`).
* The queue of unmatched products (`docs/ARCHITECTURE.md:251`) receives nothing: runs ask
  only for barcodes of listings, and those are always matched (`NothingIsQueued`).
* For the same reason a manual mapping of a barcode that no listing carries has no effect
  (`app/engine/pipeline.py:1411`). A mapping is consulted first, and not after the
  automatic tiers as `app/models.py:862` says.
* A SKU put on the never-touch list is still taken off sale as dropped until the next
  refresh (`app/engine/decision.py:460`), and still picked before a twin that may be
  changed (`app/engine/mapping.py:388`), against `app/core/settings_store.py:324`.
* Undoing several batches restores the quantity before the *newest* of them
  (`app/engine/rollback.py:214`), where the comment above says "the state the account was in
  before this whole group of changes".
* A dropped product keeps its last stock figure, so the next run without a full feed puts
  it back on sale (`app/engine/pipeline.py:1422`); `docs/CLIENT-GUIDE.md:132` says "the
  instant the vendor restocks".
* A file met twice while it is uploaded is on record as a duplicate, because its digest was
  kept when it was set aside (`app/engine/pipeline.py:1002`), and is never looked at again
  under that name; `app/vendor/parser.py:246` says "It will be retried next cycle".
* A listing under the wider form of a barcode is taken off sale as dropped while the vendor
  has the product in stock under the other form (`app/engine/pipeline.py:1452`).
* Two barcodes mapped to one SKU decide on it twice in one batch.
* A second document within two minutes gives up: a token of `feeds.create` takes 120.48 s
  and `take` waits 120 (`app/amazon/client.py:108`), although `reserve` and `submit` of one
  document both take one (`app/amazon/feeds.py:222`, `:260`); `NotRefusedAlone` names this.
* `preflight` is not "called at the start of every run" (`app/amazon/client.py:675`): only
  the settings page calls it.
* Rejected archives are not "always kept, however old" (`app/core/settings_store.py:618`):
  they are unlinked as soon as they are refused (`app/engine/pipeline.py:1004`, `:1027`,
  `:1041`), or overwritten by the next attempt; archives and `.part` files without a row are
  deleted by nobody.
* Snapshots are pruned in one directory (`app/engine/pipeline.py:629`) and saved in another
  (`app/scheduler.py:178`), so they are kept for ever.
* The reports of a run that met a full disk are not made later.
* The flush at the end of a failed run does not see that run's own alert, which is added
  but not flushed (`app/db.py:78`); it waits for the next flush. Runs closed by a starting
  process get no alert at all.
* A second process that starts closes the row of a run that is alive in the first
  (`app/engine/pipeline.py:139`): every process does, whether or not it has a scheduler.
* Two flushes that overlap mail an alert twice (`app/notifier.py:88`), and fifty alerts that
  cannot be delivered keep newer ones from being tried.
* A catalogue hour of 0 means 3 (`app/scheduler.py:409`, `:424`).
* An interval that does not divide the day starts from a new anchor on every restart,
  though `_sync_trigger` says any interval stays on its grid (`app/scheduler.py:372`);
  `OnTheGrid` is stated for those that do.
* A check that finds the lock taken is skipped (`app/scheduler.py:90`), where the help text
  says it "will wait for it" (`app/core/settings_store.py:235`).
* A product can be in one batch twice, dropped and raised; the raise is sent last.

## 7. Not modelled

Pure I/O and forms (the vendor connection, pages, JSON API, CSV reports, set-up), single
value transformations that unit tests exhaust (check digits, the price guard, encryption),
wording and layout. Undo from a snapshot file has the execution of any other undo and
only another plan. Display columns (counters, retry flags, acknowledgements) are left
out, and so is the history table, which is written and never read back.

Login, lockout and the second factor are left out: the counter of failures is one
read-modify-write on one row. The digest's content is wording; its flush is a sweep. A job
the operator starts by `trigger_now` is one of the jobs of `PushLifecycle`. Inside
`ApiCall`, the other API quotas, the header that adjusts a rate, and the length of a backoff
beyond its bound make no difference to the properties. `FeedArchive` and `VendorSync` divide
the ingest between them: the first has the disk and no rows of products, the second has
products and keeps files where they are.

Not composed: `ApiCall`, `RunRecords`, `FeedArchive` and `Timetable` share with the push part
only the run lock, which each models as a run that is the only one, or as a check that finds
it free. What the client's outcomes mean for a batch (`PatchRaises`, `FeedRaises`) is in
`PushLifecycle` as every possible answer, of which those of `ApiCall` are some.

## 8. Plan

Done: all modules of section 2; safety is proved for each component.

1. A weaker ledger, kept with several web processes as well: a change may go out again, with
   the terms on record.
2. An abstract specification of the ingest (a file is pending, then read once or refused) for
   `VendorSync`, and of the outbox (queued, mailed, sent) for `RunRecords`, with their refinements.
