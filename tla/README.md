# video-go: a TLA+ model of the server

video-go is an aggregation platform for generative models: a user submits a generation task
(an image, a video, a piece of text), a worker sends it to an upstream provider, polls the
provider until the job has ended, stores the products as assets and settles the cost.  One Go
binary, `aigcd`, runs the HTTP API and the workers; several instances share one MySQL database,
which is the only thing they have in common.

The modules of this directory model the parts of the program in which things can go wrong that a
unit test hardly reaches: what goroutines of several processes, callbacks, cancellations,
administrators, crashes and restarts do to a task, to its lease, and to the user's money; what
two publishers and a broken connection do to the events a browser sees; what tabs, chat requests and
results do to one canvas; what requests that run side by side do to a limit, a token, a
password or a page; and what becomes of a value on its way from a form through a configuration that
changes to the request of a provider, and of the provider's answer on its way back.
TLC checks them on small instances.  TLAPS proves for every instance the safety properties of all of
them but the last: of the pipeline and the money that follows it, of the storage, of the event stream, of the
canvas with its chat requests, of the handlers and of the drivers.

    tlc -config CreditLedger.cfg MCCreditLedger
    tlapm CreditLedgerProofs.tla

## 1. Inventory

| Component | Code | State | Operations | Correct when |
|---|---|---|---|---|
| credit ledger | `store/mysql/billing.go`, `ledger.go` | `users.credits`, `users.credits_held`, `credit_ledger` | Hold, Charge, Refund, Topup, Recompute | rows explain the balance, a hold is settled once, nobody is overdrawn |
| task execution | `executor/runner.go`, `poller.go`, `service.go`, `store/mysql/task.go` | `tasks` row, goroutines, upstream job | Run, finish, fail, Cancel, Schedule, Advance, poll, Stop | a task ends, its status is final, the money follows it |
| task handlers | `httpapi/handlers_tasks.go`, `handlers_admin_ops.go`, `handlers_webhook.go` | – | submit, cancel, requeue, callback | as above |
| circuit breakers | `executor/breakers.go` | per provider: state, failures, probes | Allow, Success, Failure, State | a bad provider is left alone, a recovered one is used again |
| task queue | `store/mysql/queue.go` | `lease_owner`, `lease_expires_at`, `next_poll_at` | Claim, ClaimPoll, Renew, Release | one worker per task, no task is forgotten |
| event stream | `stream/hub.go`, `sse.go`, `store/mysql/event.go` | subscriptions, buffers, `task_events` | Subscribe, Publish, Close | a browser sees every event, in order |
| asset transfer and quota | `asset/transferor.go`, `store/mysql/quota.go`, `asset.go`, `upload.go` | blobs, `assets`, `uploads`, `storage_used_bytes` | TransferAll, Promote, Reserve, Commit, Release, Delete, cleanup | an asset has its bytes, the usage is the sum of the assets |
| canvas | `store/mysql/canvas.go`, `httpapi/handlers_canvas.go` | cards, revision, `canvas_ops` | ApplyOps, SetCardResult | the log of operations replays to the cards |
| chat generation | `httpapi/chatbill.go`, `chatcall.go`, `storyboard.go`, `script.go`, `shot.go` | `tasks` row with a step | hold, call, charge or refund | charged exactly for what was delivered |
| retry policy | `executor/retry_policy.go` | – | Delay, ShouldRetry | retries end |
| lineage | `asset/lineage_recorder.go` | `asset_lineage` | Record, Graph | the graph asked for, no deeper |
| submission | `httpapi/handlers_tasks.go`, `compose.go` | rows by client token, holds, the canvas | look-up, limit, snapshot, balance, card, row, hold | a token is held once, the limit is exceeded by races only, one card for a composition |
| model catalogue | `store/mysql/model.go`, `provider.go`, `skill.go`, `httpapi/handlers_models.go` | configuration rows, `config_versions` | write with version, list under ETag | a 304 means the same list |
| accounts | `store/mysql/user.go`, `httpapi/handlers_auth.go`, `handlers_admin_ops.go`, `middleware.go` | role, status, password hash | administer, log in, change the password | somebody can administer, the password is the one set last |
| paged lists | `store/mysql/cursor.go` and the List statements | – | page after a cursor | nothing twice, nothing left out |
| capability schema | `capability/*.go` | – | Eval, Validate, Estimate, ValidateSchema | what the browser lets through is accepted at the price it showed |
| form | `frontend/src/schema/*.ts`, `stores/generator.ts` | the values of the controls | show, edit, check, quote, keep for another model | as above |
| request mapping | `adapter/mapping/*.go` | – | Render | a value the user chose arrives at the provider |
| upstream adapters | `adapter/*` | – | Submit, Invoke, Poll, FetchArtifact | a task ends as its job did; a refused prompt is not sent again |
| the rest | HTTP plumbing, start-up, migrations, thumbnails, lineage, ffmpeg, pages of the browser | | | |

How they interact: handlers and workers never call each other.  They meet in MySQL: a handler
inserts a row with status `queued`, a worker finds it with Claim; a cancellation moves the row
under a worker's feet, and the worker notices when its `UPDATE ... WHERE status = ?` finds no row
(`TaskRepo.UpdateStatus`).  The breakers, the `advancing` set and the subscriptions of the hub live
in the memory of one process.  Callbacks of an upstream only make a process look at the task
(`Advance`), the answer always comes from a poll.  Chat requests and compositions use the same rows and the same
ledger; a chat request holds, calls, writes to the canvas and settles within one HTTP request,
outside the executor.  Results reach the canvas through `SetCardResult`, edits through `ApplyOps`, and both lock the
row of the project.  Events are rows of `task_events` first and are then sent to the connections of the
process that wrote them; what other processes wrote reaches a browser only by replay.

What is hard: the status and its settlement are two transactions; leases expire; Stop cancels a
context under which a goroutine is between two statements; the same task is ended by four kinds
of actors; a result that arrives late reports to a breaker that has changed its mind since; a
unique key is all that stands between two settlements; the id of an event is given before it is sent; handlers
read, decide and write in statements of their own; and two programs, one in Go and one in TypeScript, interpret
the same configuration.

## 2. The modules

| Module | Models | Checked by | Proved in |
|---|---|---|---|
| `CreditLedger` | the ledger, transaction by transaction | `MCCreditLedger`, `CreditLedger.cfg` | `CreditLedgerProofs` |
| `CreditAccounts` | abstract: an amount is frozen once and closed once | refined by `CreditLedger` and by `TaskExec` | `CreditLedgerProofs`, `TaskExecProofs` |
| `TaskExec` | the life of a task | `MCTaskExec`, `TaskExec*.cfg` | `TaskExecProofs` |
| `Breaker` | breakers and those who report to them | `MCBreaker`, `Breaker.cfg` | `BreakerProofs` |
| `LeaseQueue` | the queue's statements, deadlines, renewals | `MCLeaseQueue`, `LeaseQueue.cfg` | `LeaseQueueProofs` |
| `Leases` | abstract: taken when free, given up by the holder | refined by `LeaseQueue` | `LeaseQueueProofs` |
| `Storage` | objects, rows and used bytes of one user | `MCStorage`, `Storage.cfg` | `StorageProofs` |
| `Hub` | the event stream, from the row to the browser | `MCHub`, `Hub.cfg` | `HubProofs` |
| `CanvasOps` | operations on a canvas, as operators | used by `Canvas` | `CanvasProofs` (lemmas) |
| `Canvas` | one project, its log, tabs and results | extended by `CanvasChat` | `CanvasProofs` |
| `CanvasChat` | the chat requests on it and their bills | `MCCanvas`, `Canvas.cfg` | `CanvasProofs` |
| `Submission` | submitting generations and compositions | `MCServer`, `Server.cfg` | `ServerProofs` |
| `Catalogue` | the list of models under its ETag | `MCServer`, `Server.cfg` | `ServerProofs` |
| `Accounts` | administrators and passwords | `MCServer`, `Server.cfg` | `ServerProofs` |
| `Pages` | paging through a list that changes | `MCServer`, `Server.cfg` | `ServerProofs` |
| `Capability` | conditions, validation and price on the server, as operators | used by `Form`, `Mapping`, `Offer` | `ServerProofs` |
| `Form` | the same in the browser, as operators | used by `Offer` | `ServerProofs` |
| `Mapping` | rendering a request, as operators | used by `Offer` | `ServerProofs` |
| `Offer` | configuration, form, submission and rendering composed | `MCOffer`, `Server.cfg`, `OfferQuote.cfg` | `ServerProofs` |
| `Upstream` | the drivers and what providers answer | `MCServer`, `Server.cfg` | `ServerProofs` |

An `MC` module fixes the model values and the functions on them; a `.cfg` sets the bounds.
Operators named as "Mutant" in a comment are plausible bugs of the definition they stand before;
they are used by no specification and serve to see that a property notices.

### CreditLedger

State: `credits`, `held` are the two columns of `users`, `ledger` the rows of `credit_ledger` in the
order of their ids, `txn[s]` what the settlement transaction of session `s` has read.  `Hold` and
`Topup` are one step each: they lock the user's row first, so nothing comes between their
statements.  A settlement reads the hold with `taskHoldTx` before it locks anything
(`BeginCharge`, `BeginRefund`) and books later (`Settle`), or finds the unique key
`settle:<task>` taken (`AlreadySettled`), or is rolled back (`Abort`).  `Post` is
`appendLedgerTx`, including the clamp of `held` at 0.

`CreditAccounts` is what the rest of the program relies on: deposit, freeze once, close once
returning at most what was frozen.  Its `available[u]` is what `u` may still spend, `frozen[t]` the amount of the hold of `t`,
`returned[t]` what came back of it.  `ImplementsAccounts` is the refinement: `available` is the column `credits`, the others are what the rows say.
`HeldExplained` counts the column `credits_held` the other way: the units of holds that no settlement has released (`StillFrozen`).

### TaskExec

State: of the row `status`, `lease` (its owner; an expired lease is no lease), `ref` (is
`upstream_ref` set?), `due` (is `next_poll_at` set?), `attempt`; `money[t]` is what the ledger's rows say of
the task; `stored`: are there assets?; `jobs` and `upstream`: what the provider has; `run[g]`: at which
statement goroutine `g` stands and which status it works from; `stopping`: processes in Stop.

One action is one statement on the database or one upstream call, with the in-memory code up to
the next one.  `UpdateStatus(t, expect, next)` is the compare-and-set, including its success when the
row is already there.  Submit workers go through `Claim`, `Prepare` (UPDATE to running) or
`Unprepared`, `Submit`, `SubmitAgain` or `SubmitFails`, `Record`, `Schedule`; pollers and callbacks through
`ClaimPoll` or `Webhook`, `Ask`, `AskFails` or `Unanswerable`; all of them end in `Transfer`, `Succeed`, `Fail` or
`CancelTask`, then `Settle` and `Release`.  A cancel handler is `BeginCancel`, `CancelGet` and, like the code,
its own UPDATE and refund after the executor's (`CancelOuter`, `CancelOuterRefund`).  `Create`, `Hold`,
`HoldFails` and `Requeue` are the handlers.  `Interrupt` is what a canceled context does to the statement
a goroutine is about to issue, `Stop`, `GiveUp` and `Restart` a graceful stop with and without its timeout, `Crash`
the end without one, `Expire` the passing of a lease.

Whether a model answers with a reference or with products is chosen at each submission: an
administrator may change the model between two of them.

`MovesMoneyAsAccounts` maps `money` onto `CreditAccounts`, with a purse of one unit for each task and nothing but the money of
that task in it, so the two halves of the model meet in the same abstract accounts: the executor uses the ledger as the
accounts allow, and the ledger implements them.

### Breaker

State: `state`, `failures`, `probes` of each entry; `ripe`: has `nextProbeAt` passed?; `run[g]`: a worker
between Allow and its report, or a poller between question and report.  `probing` and `streak` are
history: the workers let through since the breaker last changed, and the failures in a row.
`Claim` takes tasks only of providers that are not open (`AvailableProviders`), `AskLeave` is Allow,
`Withdraw` the early returns of Run after Allow, `PollAnswers` the Success that `advance` reports for
every answer and `JobFails` the Failure that may follow it.

### LeaseQueue

State: the columns of the row that the statements of `queue.go` test, with deadlines counted down
in units of a third of a lease (the period of `keepAlive`); `sub[g]` a submit worker with the deadline it has
just written, `loop[p]` the poll loop of a process with its batch, `polling` the goroutines it started.
`Claim` is the UPDATE, `ReadBack` the SELECT that finds the row again.  `Leases` is the abstract
promise, `ImplementsLeases` the refinement.

### Storage

State: `used` is `users.storage_used_bytes`; `row`, `size` are of `assets`, `upload`, `promoted` of `uploads`; `blobs`, `files`
are the objects of the two in the blob store; `job[w]` is where a worker stands in TransferAll or Promote, with its
reservation (`reserved`) and the products it has (`made`, the variable `out`); `sweep` is a clean-up with the list it has read.
The rest is history: bytes reserved that nobody will give back (`lost`), what crashes and failed deletions
leave behind (`orphans`), the products of failed transfers (`failed`).

A product is `Reserve`, `Put`, `Create`, `ReadBack`, `Commit`; a step that fails goes to `Unput` (delete the object),
`Release` (give the reservation back) and, in TransferAll, `Rollback` of the products before it.  `ReadBack` is
the Get with which AssetRepo.Create ends after it has committed: it does not find an asset that its owner has deleted
in between (`Delete`), and the worker then undoes what is no longer there.  `Promote` goes the same way and ends with
`MarkPromoted`.  The clean-up lists first (`ListExpired`, `ListSoftDeleted`) and then removes object (`RemoveUploadFile`,
`RemoveBlob`) and row (`RemoveUploadRow`, `HardDelete`) one after the other; after each asset it writes the used bytes
anew (`Recompute`).  Where an error is only logged the action has a branch for it, limited by `MaxFaults`; a crash
(`Crash`) counts as such a fault.  `erased` says what `Recompute` has done to reservations: `never` overwritten one, or overwrites one
`now` that is still to be given back, or did so `once` and has put `used` right since.  After that the workers that were
under way give back what is no longer counted, `used` is too low and Reserve lets too much through: `WithinQuota` is therefore about `never`.
Not in the model: an upload that fails half way, thumbnails, two clean-ups at once.

### Hub

State: `ev[e]` is a row of `task_events` (its user, the process that wrote it, whether it is stored, sent, or was overtaken),
`pub[w]` a publisher between its INSERT and the last of its sends, `subs[p]` the map `h.subs` of a process, `conn[c]` a connection: its
buffer, the rows of its replay, how far its handler has read, and `tab[t]` the browser with the `Last-Event-ID` it will resume
with.  `AppendEvent` and `Commit` are two steps because ids are given out before rows can be seen; `Fanout` copies the targets
under `h.mu`, `Send` sends to one of them under `s.mu` (and drops the event, and counts it, when the buffer is full); `Subscribe`
registers, `ListAfter` reads the replay (`past`), `Offer` puts its
least id into the buffer, `Serve` ends it.  `Remove` and `Shut` are the two
halves of `remove`, `Close` is `Broker.Close`.  `Break`, `Crash` and `AppendFails` are faults.

`NothingFallsBetween` is what registering before reading is for: once the replay is complete, an event after
`Last-Event-ID` has been offered, is in the replay still to come, or was dropped by a full buffer.  `HolesExplained` says when
a browser can be past an event it never saw, and lists every reason the code has for it: its Publish did not send it, or sent it when a later
one was in the database already, or one of the adapter's connections (`tab[t].conns`) that was to bring it did not (`NotBroughtBy`).

### CanvasOps, Canvas, CanvasChat

`CanvasOps` says what one operation and a batch do to a canvas (`applyOp`, `insertCard`, `updateCard`, `scriptVersionSet`), and when they
are refused.  In `Canvas`, `canvas`, `revision`, `log` and `trashed` are the rows of a project, `tab[t]` is `useCanvasSync`: the operations
on the screen, the PATCH under way, the snapshot being fetched.  `Flush` sends, `Patch` is the handler with ApplyOps,
`Lose` a lost answer, `Answered`, `Invalidate`, `Fetch`, `Arrive` what the browser does next.  `CommitResult` is the transaction of SetCardResult.
`ReplayRebuilds` replays the rows of the log (`Replay`) and compares; `EveryTextKept` collects from the log the texts a script was given (`TextsGiven`: an operation
adds one when it gives the card a text it does not have) and says what the card must hold of them.

`CanvasChat` adds the four chat handlers: `Ask` (the user's message), `Read` (snapshot and source card), `CreateTask` and `Hold`, `Invoke` or
`InvokeFails`, `Apply` (the batch with the answer, refused when the canvas has moved on), `Charge` and `Settle`, or `Fail` and `Refund`;
`Cancel` and `CancelRefund` are the cancellation of the task under the bill, `Die` the end of the process.

### Submission, Catalogue, Accounts, Pages

Four parts of the server with no variable in common.  `Submission`: one action for each statement of `submitTask` and
`handleCanvasCompose`: `Lookup`, `Count` (the limit), `Snapshot`, `Balance`, `CreateCard`, `Create`, `Hold`, `Compensate`; rows are taken, ended and requeued meanwhile,
and `Edit` is the browser at the canvas.  `Catalogue`: `tx[a]` is a transaction of an administrator; `Bump` is
`bumpConfigVersion`, its last statement; the fingerprint and the list are two reads (`Check`, `ListModels`).  `Accounts`: auth (`Authorize`), the decision (`Decide`) and
the write (`UpdateProfile`) of an administrator; logging in with the new hash (`Rehash`) and changing the password.  `Pages`: the
walk through a list under a cursor while rows appear late, are hidden, revealed or touched; `expected` are the rows that were
listed all along and not touched.

### Capability, Form, Mapping, Offer

Pure algorithms over JSON values, one module for each program that has them: `Capability` the server, `Form` the browser,
`Mapping` the renderer.  What is nested in JSON is listed flat here, in the order a walk through it begins or ends: a condition is the sequence of all conditions in it, each after
those it is made of (`of` has their places); the parameters of a schema are listed with compounds and fields, each field with the places of the compounds it is `within`;
a path is the sequence of its names, and the bodies along it are the sequence of steps of a walk (`Walk`).  So no operator recurses over a tree, and
each of them can be reasoned about.  `Offer` is what happens to them: `StoreModel` checks and stores a configuration, `SelectModel`, `SetValue`, `SetFiles` are the form
(values of another model are migrated), `SendForm` sends it, checked and priced by the configuration of that moment, `RenderBody` renders with that of a later one.
`MCOffer` has 60-odd configurations: every control, conditions on shown and hidden controls and on files, every kind of price and slot.

### Upstream

For each protocol its words, its tables of error codes and the texts it looks for (`classify` for the end of a job, `reclassify` for an HTTP
error), its products and how they are fetched.  `served` is the model with its protocol, `job` what the provider really has, `answer` what
the driver made of it, `stage` where the executor is.  One action for each operation of each driver.

## 3. What the runs show

| Run | Instance | Properties | Result |
|---|---|---|---|
| `CreditLedger` | 2 users, 2 tasks of one of them, 2 sessions, holds of 1 or 2, a top-up of 3 under 2 keys | `HeldExplained`, `NoOverdraft`, refinement of `CreditAccounts` | pass, 40 k states |
| `TaskExec` | 1 task, 2 processes, 2 submit workers, 1 poller, 1 callback, 1 cancellation | `NothingStaysFrozen`, `RunningIsTended`, `EveryTaskEnds` | pass, 95 k |
| `TaskExecFaults` | the same with failing statements and one crash or stop | `SettledAsShown`, `PaidOnce` | pass, 85 k |
| `TaskExecRequeue` | 1 worker, callback, cancellation, poller; leases may expire under them, slow hold, 1 requeue | `SucceededHasProducts`, `MovesMoneyAsAccounts` | pass, 2 M |
| `Breaker` | 2 providers (one with withdrawals and failing jobs), 3 workers, 1 poller, 2 probes | `ProbeIsOut`, `TripsOnStreak`, `Recovers` | pass, 489 k |
| `LeaseQueue` | 2 tasks, 2 processes, 3 submit workers, batches of 2, 1 crash | `OneWorker`, refinement of `Leases`, `QueuedIsServed` | pass, 27 k |
| `Storage` | 2 assets, 1 upload, 2 workers, 2 products each, a quota of 3, products of 2 with 1 or 3 reserved, 1 fault | `AssetHasBytes`, `NoOrphans`, `UsageAddsUp`, `WithinQuota` | pass, 4.0 M |
| `Hub` | 1 tab and 1 other user, 2 processes with a publisher each, 2 connections, buffers of 1, replays of 1, 2 events, 1 fault | `NothingFallsBetween`, `HolesExplained`, `ClosedTakesNothing` | pass, 1.9 M |
| `Canvas` | 2 cards (a script and a shot), 1 tab, 1 chat request, results, 2 revisions, 1 fault | `ReplayRebuilds`, `EveryTextKept`, `BillFollowsCanvas`, `NoHoldLeft`, `NoBlindWrite` | pass, 3.1 M |
| `Server` | six parts side by side (below) | `OvershootBounded`, `TokenHeldOnce`, `OneComposedCard`; `FingerprintHonest`; `SomeAdminLeft`, `PasswordAsAnswered`; `PagesComplete`; `FormAccepted`, `QuotedIsCharged`, `NothingSwallowed`; `OutcomeIsReal`, `RejectedIsNotRepeated` | pass, 1.35 M |
| `TaskExecStop` | a stop during a submission | `RunningIsTended` | violated |
| `OfferQuote` | the configurations of `Server` | `QuotedIsAlwaysCharged` | violated |

The violated ones are places where the code does something else than a comment or a document next
to it says; `PROJECT.json` quotes them under "findings".

`Server` explores `Submission` (2 requests, 3 tokens, limit 1, 2 credits, 1 requeue), `Catalogue` (2 administrators, 1 model, 1 browser, 3 versions),
`Accounts` (2 users, both administrators, 2 handlers, 2 changes), `Pages` (4 rows, pages of 2, 3 times), `Offer` and
`Upstream` (10 models; any set of a driver's products) one at a time: a behaviour chooses a part at the start and moves only it.  No two parts share a variable, so no step of one
enables, disables or disturbs anything of another, and their product would show nothing more.

### Bounds, and why they are enough

* Tasks share nothing in `TaskExec` but processes and workers, so one task meets every interleaving that
  matters to it; two submit workers and a poller, a callback and a cancellation are every kind of actor
  that can hold it, the submitters twice because they race for the same claim.
* `SubmitMax`, `PollMax` (2 or 1): one retry is enough to see what a retry does; `MaxAttempt` only caps the counter.
* `MaxRestarts` = 1: after one crash or stop the process starts anew, and everything it could do
  to the row it has done.
* `MaxRequeues` = 1: the second life of a task starts from the states the first one can leave it in.
* The ledger's rows are bounded by the keys: a task has one hold and one settlement, and a top-up needs a key.
* `MaxFailures` caps the counter at `FailureThreshold`; only the comparison with the threshold is ever made.
* `Storage`: with two assets two workers race for the quota, one of them makes both of its products or has its first one deleted
  while it makes the second; a product bigger and one smaller than what was reserved for it; `MaxFaults` = 1
  because the properties say of each fault what it may leave behind.
* `Hub`: a buffer and a replay limit of 1 overflow with the second event; two publishers are what it takes to send
  in another order than the ids, one in each process so that a browser also misses what the other process sends; the second user is there so that ids of one user have gaps.
* `Canvas`: the second revision is the first that can be written blindly; `MaxVersions` = 1 so that the history is full
  after two changes; positions, sizes and zooms have two values, one of them refused.
* `Submission`: three tokens, so that one request repeats another and one does not; a limit of 1 is exceeded by the second.
  `Pages`: four rows on pages of two, two of which may have the same time.
* `Offer`: each configuration is about one feature or a pair that meets (a condition on a hidden control, a price on a condition);
  numbers are counted in halves so that off-grid values exist.  `Upstream`: the products of a
  driver differ in what FetchArtifact can open and in their type, which is all the executor looks at.
* `TTL` = 2 periods instead of the 3 of the code: renewals fall before, at and after the deadline all the same.

`CHECK_DEADLOCK FALSE` everywhere: when all tasks have ended, or all requests have been answered, nothing is left to do.

### Fairness

`TaskExec`: weak fairness of what each goroutine and handler does next (the Go scheduler), of the passing of a
lease, of the upstream ending its job (without it no poll ever has a result; the code has no timeout for
jobs), and of the restart of a process; strong fairness of Claim and ClaimPoll of each task,
because the statements serve the oldest `created_at` or `next_poll_at` first.  `Breaker`: the same for
workers and pollers, weak fairness of the passing of OpenDuration, strong fairness of claiming tasks of a provider that
may be claimed from.  `LeaseQueue`: weak fairness of workers, loops and the clock.
The other modules claim no liveness: the server owes a browser an answer only while its process lives.

## 4. What is proved

All proofs are for every value of the constants under the assumptions named in the modules
(`LedgerAssumption`, `ExecAssumption`, `BreakerAssumption`, `QueueAssumption`, `StorageAssumption`, `HubAssumption`,
`CanvasOpsAssumption`, `CanvasAssumption`, `SubmissionAssumption`, `AccountsAssumption`, `CatalogueAssumption`, `PagesAssumption`,
`UpstreamAssumption`, `OfferAssumption`): any number of users, tasks, sessions, processes, goroutines, providers, requests, administrators,
browsers, cards, rows and configurations, any thresholds, buffers, limits and page sizes.

* **CreditLedgerProofs**: `IInv` joins the types, the chain of balances, one row per key, and what a session
  has read in `taskHoldTx`: the hold it saw is still there, because rows are only appended, and
  whether it is settled by now is decided by the unique key.  From it follow
  `SettledOnce`, `ReturnsWithinHold` and `NoOverdraft`, the last one for the model's `Topup`
  with positive amounts.  That a task is held once (`HoldsOnce`) makes each step of the ledger one of `CreditAccounts` or none
  (`LedgerImplementsAccounts`).  `HeldExplained` is a sum over the tasks of a user; it is stated as the number of units frozen, and with
  that a booking adds units of one task or takes them away (`FrozenCounted`), and no induction over the tasks is needed.  It rests on `ReleasesWhole`: a settlement
  releases the whole hold or has seen none, so the clamp at 0 in `appendLedgerTx` never bites.
* **TaskExecProofs**: the inductive invariant says for each point a goroutine may stand at what that
  implies: at `charge` the task is succeeded or was requeued, at `refund` it is failed or canceled,
  at `succeed` the products are stored; and that a settled task stays where it is.  `SettledAsShown` and
  `SucceededHasProducts` follow for all constants, that is, with crashes, failing statements, expired leases and slow holds at the same
  time, which no run has.  `TerminalIsFinal` is an action property: every action but `Requeue` leaves a terminal row alone.
  `PaidOnce` needs that a queued task is in the hands of one submit worker, who leases it (`OneJob`), as long as no lease expires under the living.
  `RunningIsTended` needs that what is running has a worker at it, or a schedule and a reference (`Tended`); it is proved for instances without
  expiring leases, failing statements, restarts and requeues (`Quiet`), each of which the known limits below break it with.  `NothingStaysFrozen` needs
  that somebody who will pay is on the way wherever a task has ended and its hold is open (`Owed`); it is proved for instances in which the hold precedes everything else and no
  process dies at work (`Orderly`), with stops, failing statements, expiring leases and requeues.
  `MovesMoneyAsAccounts` is proved without a condition: no task has money before it exists (`Opened`), and every step moves the money of one task at most, in a way `CreditAccounts` allows.
* **BreakerProofs**: the count `probes` equals the number of workers that were let through and have not
  reported, as long as none withdraws; the count of failures is at least the streak.  `ProbesLimited`, `ProbeIsOut`
  and `TripsOnStreak` follow, the last two for the providers the condition is about.
* **LeaseQueueProofs**: the refinement of `Leases` needs only types.  `OneWorker` is proved under
  `DistinctDeadlines` (no two claims of a process in the same millisecond; section 5 says what happens otherwise) and without `Stalls`
  (a living worker renews in time): a worker's lease is not lapsed, its row has the deadline it wrote or a later one,
  and two workers of one process never wait for the same row.
* **StorageProofs**: `Inv` says that no two workers have the same asset in hand (`Alone`); what is true of that asset
  at each point (`Handed`: no row before Create, a row after it, out of sight when its object is deleted); that what a job has inserted
  is on its list or in its hand as long as it is in sight (`Undone`); that a listed asset was deleted and loses its object before its row (`Swept`);
  and how objects and rows belong together (`Stored`).  `AssetHasBytes`, `NoOrphans`, `AllOrNothing` and `PromotedOnce` follow, for any number
  of faults.  Sums of bytes are numbers of units (`Units`, `Total`), so that a step adds and removes the units of one asset or one
  worker; `Counted` then says that `used` is what lives, what is reserved and what was lost (`UsageAddsUp`), and that what lives and what is pledged for bytes to come stays
  within the quota but for the overshoot of single products (`Bounded`, from which `WithinQuota` follows).
* **HubProofs**: `IInv` says that a publisher has the row of its id to itself (`OwnRows`); that subscriptions, connections and tabs agree about each other
  (`Belong`); that only who resumes has a replay (`Replayed`); that what has reached a channel or a tab is in the database (`OnlyStored`); that what was sent to an open
  connection is in its channel, its replay, or dropped (`Arrived`); that an event behind a later one in a channel is there too, or has its reason (`InOrder`);
  and that what lies behind a cursor was seen or has its reason (`HolesHaveReasons`).  `NothingFallsBetween` follows from `Arrived`, `HolesExplained` from the
  last two: a cursor moves when an event is written, and what that event overtakes was in order in the channel.  `ClosedTakesNothing` is an action property from `Belong`.
* **CanvasProofs**: the bill by the point each handler stands at (`Bills`: `BillFollowsCanvas`, `NoHoldLeft`); the optimistic lock by views
  (`Views`: between what a tab or handler has seen and the revision it claims lie only its own rows, hence `NoBlindWrite`).  `TablesMatch` says that the tables and the replayed log are
  the same canvas but for the lists of results (`Paired`); an operation that is allowed on one of two such canvases is allowed on the other and leaves two such
  canvases, which is proved of each kind of operation and then of batches and logs (`LogRebuildsCanvas`).  `ScriptsTell` says that a script shows the last of the texts
  the log gives it and keeps those before, cut to `MaxVersions` (`TextsAreKept`).
* **ServerProofs**, Submission: a row is inserted once per token, because of the unique key, so of all requests with
  one token at most one is between the row and the hold (`HeldByOne`: `TokenHeldOnce`); and a snapshot in which no composed card was
  found stays true as long as the canvas has the revision it was read at (`SnapshotTrue`: `OneComposedCard`, an action property).
  For the limit, a row counts against it, or was let through by a request that is still under way: when the row is inserted it takes the place of that request
  (`OvershootBounded`).
  Accounts: a request that is not robbed has an administrator as its caller and leaves that caller one (`CallersAdminister`), so its write
  cannot remove the last administrator (`SomeAdminLeft`); of a password nobody has crossed at most one request is under way, and the hash it may
  store is that of the password in the row (`AloneOnPassword`: `PasswordAsAnswered`).  Catalogue: the ids of open transactions are distinct and
  in no committed row (`IdsOnce`), no fingerprint is ahead of the table (`EtagsBehind`), so a commit in order is ahead of every fingerprint, and a browser whose
  fingerprint is not behind has seen every commit (`FingerprintHonest`).  That the ids have a maximum is part of the invariant (`VersionsGrow`), which spares an induction.
  Pages: a row that was shown lies behind the cursor (`ShownOnce`), one that is expected was shown or lies ahead of it (`ShownOrAhead`), and a page is a piece
  of the list without a hole (`PagesComplete`).  Upstream: wherever the executor asks again there is a job and a driver to ask (`Asking`), and every answer of every driver
  reports an end only when the job has that end, a success only with products that can be stored, and a code that follows from what the provider spoke of (`Answered`:
  `OutcomeIsReal`, `RejectedIsNotRepeated`).

  Offer: the verdict of a condition is one of three words, by induction over the conditions it is made of, and where a condition is `ReadAlike` the browser's truth
  is the server's verdict (`ReadAlikeAgrees`), because what such a condition asks for is shown, hence submitted, hence the same on both sides.  So both show the same
  controls and what passes `ValidateForm` passes `Validate` (`FormsAreAccepted`), and both reach the same subtotal after each modifier, a fraction that is never an error
  (`QuotesAreCharged`).  For a mapping: values, templates and literals have lists that are lists, all the way down (`Tidy`), and every rule leaves a body so (`RuleIsTidy`).
  What `Put` writes is found along its path (`PutFound`), what is found along a path that parts from it is as it was (`PutElsewhere`), and a list only
  grows at its end (`EndStays`); so what a rule put stays to the end of the mapping (`RenderKeeps`, `NothingIsSwallowed`).
  `OfferAssumption` says how a configuration is written down, not which it is: JSON values where values go, places in a condition that come before it, integers for prices and counts,
  and a set `Literals` that has all values mappings are written with and whatever is in them.  The schemas an administrator may try to store are otherwise arbitrary; that a stored
  one is well-formed comes from `ValidateSchema` in `StoreModel`.

Functions that recurse over a log, a batch or a sequence (`Replay`, `AfterBatch`, `TextsOfFirst`, `Verdicts`, `Subtotals`, `Walk`, `Put`, `Render`) are defined on the naturals or on an interval of them.  What holds of
each of their values is proved by the least number of which it does not hold (`LeastNumber`, from the well-foundedness of the naturals), and that such a function has
a value at all by `Recursion`, or, where no set of results is known beforehand, step by step in the same way (`WalkSteps`, `PutSteps`, `DropSteps`, `RenderSteps`).

Only proved, in no run any more: the type invariants of the proved modules, `BalanceChain`, `SettledOnce`, `ReturnsWithinHold`, `TerminalIsFinal`, `ProbesLimited`,
`AllOrNothing`, `PromotedOnce`.

Only model-checked: liveness (`EveryTaskEnds`, `Recovers`, `QueuedIsServed`), which is out of the prover's reach.  Every invariant and every action property of the
passing runs is proved.

## 5. Known limits of the code

None of these is repeated by a run; each was met while a module was written, and most are the reason for a condition in a property.

The pipeline:

* The settlement is a transaction of its own after the status: a crash between the two leaves the hold frozen;
  nothing in the code looks for such tasks.  `NothingStaysFrozen` is therefore checked without crashes.
* Create makes a task claimable before Hold is booked.  A worker that fails it in between books a refund of 0 under the settlement key; the
  hold then succeeds and stays frozen for good, although `store/mysql/billing.go` says that a hold happens long before any
  settlement.  `NothingStaysFrozen` is therefore checked with `PromptHold`.
* A requeue makes no new hold, because "the old one was never returned" (`handleAdminRetryTask`); for a task that failed it was, and the second
  life of the task is free.
* A stale callback can advance a requeued task from queued to running before any worker has it; no poll is
  scheduled then.  `EveryTaskEnds` is therefore checked without requeues.
* `UpdateStatus` succeeds when the row is already where it should go, so of two goroutines that fail a task both go
  on to refund; the settlement key keeps the second refund out, the second event is published.
* When SetUpstreamRef fails the error is only logged: the task is polled without a reference, released and polled
  again until somebody cancels it.
* keepAlive ends when its context does, so a goroutine that finishes a transfer during Stop is no longer renewed.
* A requeue keeps `attempt`, so a requeued task has fewer retries than a new one.
* Run takes a probe with Allow and returns without a report when the inputs cannot be resolved or the UPDATE to running is lost: the breaker stays half open
  and waits for a probe nobody makes.  `ProbeIsOut` is about providers whose workers do not withdraw.
* `advance` reports Success for every poll that got an answer, before it reads from the answer that the job failed and reports Failure: of a
  provider that accepts jobs and fails them the count never gets past 1, so its breaker stays closed.
* While a half-open breaker waits for its probe, further tasks of that provider are claimed and failed at once.
* All submit workers of a process share one owner, and Claim finds its row by owner and deadline in milliseconds: two that claim in
  the same millisecond read back the same row.  One task is run twice, the other by nobody until its lease expires.
* AssetRepo.Create commits and then reads the row back.  If only the reading fails, the caller deletes the object of a live asset, the
  card that opens to nothing which the order of Transfer is meant to exclude.  `AssetHasBytes` is therefore about runs without
  such a failure (`ReadBackFails`).
* An upload whose asset was deleted for good stays `promoted` without an asset: each further use of it makes a new copy.
* Recompute erases reservations that are given back later all the same: from then on `used` may be too low, never too high.

The event stream:

* Ids are given before rows commit, and events are sent after that: on one connection they need not ascend, although the comment at Subscribe says
  they do, and a browser that resumes after the later id never gets the earlier one.
* A dropped event is never sent again on that connection, and the next one moves `Last-Event-ID` past it.
* After a spell of polling the browser starts a new adapter without a cursor; reconciling fetches only the tasks that are still active.
* Nothing calls `hub.Close` at shutdown, so a graceful shutdown with a browser connected runs into its timeout; nothing calls DeleteBefore either,
  and `task_events` grows.

The canvas:

* A `card.move` or `card.update` that changes no column touches no row and fails the whole batch.
* The id of a card is a primary key over all projects, and `card.create` overwrites an existing row, its history included.
* A snapshot requested while a PATCH is under way may arrive after it: the tab then shows the new revision without its own edits.
* Canceling the task of a chat request that is under way refunds it, and the answer still lands on the card.  A cancellation
  between Create and Hold leaves the hold.  A process that dies, and a failing UpdateStatus, leave the task running and the hold in place.
* AppendMessage checks and inserts in two statements.

The other handlers:

* Requests that are counted at the same time pass the limit together (`OvershootBounded` says by how many); requeued tasks and compositions are not counted.
* Transactions of administrators may commit in another order than they took their version numbers, and the ETag can be older than the list it
  is sent with: `FingerprintHonest` needs `~disorder`.
* Two administrators can demote each other: `SomeAdminLeft` needs `~late`.
* A login that computes the new hash of a password while it is being changed brings the old one back: `PasswordAsAnswered` needs
  users that have not `crossed`.  UpdateProfile writes every column it has read.
* A row that is touched while somebody pages through the list may be shown on no page.

Forms and prices:

* The browser prices with the values of hidden controls too (`OfferQuote`).
* Files of slots the new model does not have are sent and refused; leaves of a hidden compound control are required by the server;
  a stepper's "+" reaches a maximum that is not on its grid; a seed that was cleared is refused where random seeds are not
  allowed; migrated values may be off the steps of the new model; optional slots with too few files pass the browser.
* The browser and the server read a `not` condition in two shapes.  The check of a schema does not look whether the keys
  of a condition exist, lets a control depend on itself, and allows negative prices.  ValidateParamCoverage is called by tests only.
* The dry run of a provider answers without rendering.

Providers:

* A product of google_lro under an https address ends as a success that no FetchArtifact can open; words that a driver does not know
  (ark's "cancelled") are taken as running until the polls run out.
* The synchronous predictions driver that times out or is canceled reports an internal error, and the prompt is submitted again while the first job still runs.
* `reclassify` looks for fewer words than `classify`, and only in the first 512 characters of a body.

## 6. What is not modelled, and the plan

Not modelled for good: headers, credentials and field names of the upstream protocols, what ffmpeg is told, thumbnails and posters, prompts and the parsing of a
chat model's prose, start-up, migrations, rendering in the browser, the scripts that drive a running server.  Lineage is a bounded search over
rows that never change; it is left to a module of its own should it grow.  Registration, favourites, titles and other single-statement updates have
no interleaving that matters.

Of the modelled parts: one project, one user and one model at a time in `Canvas` and `Submission`; visibility filters and foreign keys of the lists; `assertInputRefs`;
reads of the balance that fail (the request is let through).

Next:

* The bounded search of the lineage and the delays of the retry policy.
