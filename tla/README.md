# Verification of django-sendparcel

TLA+ models of the parts of `sendparcel_django/` in which several actors meet in
the database, the TLC configurations that check them, and TLAPS proofs of the
results that hold for every size. `PROJECT.json` is the index: components, runs,
mutants, the lines each definition models, findings, hazards and theorems.

    tlc -workers 2 -config CallbackPipeline_faults.cfg MC_CallbackPipeline.tla
    tlapm CallbackPipelineProofs.tla

## The system

django-sendparcel puts the core library `sendparcel` (state machine, flow,
providers) on Django. Its own logic is what happens around the core: who may
touch a shipment row when, and what is remembered about a webhook.

| part | state | operations | interacts with |
| --- | --- | --- | --- |
| webhook endpoint (`views.py`) and `CallbackProcessor` (`callback.py`) | none of its own; an open transaction with a row lock | one callback: checks, dedup claim, locked transaction, release, retry row, response | dedup store, shipment rows, retry queue, core flow |
| dedup store (`dedup.py`, command, task) | table of claims, unique on shipment and payload hash | claim, release, cleanup of old claims | the processor; a scheduler |
| retry queue (`retry.py`, command, task) | table of failed callbacks: status, attempts, next retry | store, fetch due rows, replay, mark succeeded, failed or exhausted | the view, the core flow, shipment rows |
| pollers (`tasks.py`) | attempts of one poll | poll one shipment with retries; poll a batch | core flow, shipment rows |
| admin (`admin.py`) | the snapshot of a bulk action; an open form | mark in transit, mark delivered, cancel; the change form | shipment rows |
| repository (`repository.py`, `models.py`) | shipment rows, unique on provider and reference | get (locked or not), create, keyed create, save, update_status, update_fields, delete | everybody |
| client IP (`ip_resolution.py`) | none | the address a request comes from, out of headers and trusted proxies | the endpoint, which hands it to provider and retry row |
| middleware, health check, settings, forms, template tags | none | pure functions and reads | - |

Handlers are coroutines on several server processes, tasks and commands run in
processes of their own, and the only thing they share is the database. What is
hard here: claims that commit before the work they stand for, errors caught at
one level and not at another, row locks that only callbacks take, snapshots
used after they are stale, loops that several processes run at once, and workers
that die between two statements. Every such place is listed with its line under
"hazards" in `PROJECT.json`, with the properties that cover it.

What makes each part correct, in a sentence:

* endpoint and dedup: callbacks of a shipment are serialized, a payload takes
  effect once while it is remembered, a failed one can be delivered again or
  waits in the retry queue, and every request is answered;
* retry queue: success is never reported without a replay that worked, nothing
  is given up early, everything settles;
* shipment rows: callbacks move a status along the state machine whoever writes,
  the other writers that check their moves do not leave it either, and a deleted row
  stays deleted unless somebody still holds an instance to save;
* creation: one shipment per reference;
* pollers: one bad shipment does not keep the others from being polled, and the
  poll repairs what lost webhooks and stale writers leave behind, as far as the state
  machine has a move from the row to the provider's answer;
* client IP: the source of a request is the host the outermost trusted proxy got
  it from, whatever header the client sends.

## Modules

| module | models | its state in the code |
| --- | --- | --- |
| `CallbackPipeline` | `views.callback`, `CallbackProcessor`, `DjangoWebhookDedupStore`, cleanup | `row` status column, and (history) the delivery that wrote it; `lock` the `FOR UPDATE` lock; `seen` the row as the open transaction loaded it; `claim` the dedup row and who inserted it; `aged` its `created_at` against the window; `pc`, `outcome` the handler; `queued` the retry rows; `forgotten` history |
| `OnceOnlyCallbacks` | what that pipeline promises, as atomic steps | `status`, `verdict`, `remembered` |
| `RetryQueue` | `DjangoCallbackRetryStore`, `process_due_retries`, command and task | `status`, `attempts`, `due` the table; `pc`, `todo`, `snap`, `held` a run's loop, its snapshot and the record `mark_failed` read; `applied`, `failures`, `tries` history |
| `RetryLedger` | what the queue promises while its runs do not overlap | `verdict`, `effects`, `recorded` failures |
| `ShipmentWriters` | callback, replay, single poll, bulk actions, change form, `update_status` and `delete` on the same rows | `status`, `report` the columns, `None` in a deleted row; `lock`; `copy` the instances a writer loaded; `origin` history, the statuses it read; `todo` rows left; `attempt` of a poll |
| `AtomicCallbacks` | the rows as the writers without a lock see them: a callback is one step | `status`, `report`; `pending` rows and what was `read` of them |
| `StatusPoller` | `poll_all_pending_statuses_task`, and around it parcels, callbacks, late writers (replays, second polls, bulk actions, the change form, `update_status`), deletions | `row` status columns; `parcel`, `reported` what the provider says now and has said; `batch` what is left of the selection, `copy`, `report`, `attempt` the poll of one shipment; `late` a writer that has loaded a row; `selected`, `polled`, `stopped` history |
| `ShipmentCreation` | `create`, `create_with_idempotency_key`, `delete` | `rows`; `pc`, `answer` of each call; `removed`, `rejected` history |
| `GetOrCreate` | what keyed creation promises, as atomic steps | `registered`, `answer` |
| `ClientIp` | `resolve_client_ip`, and what proxies append to a header | none: operators |
| `MC_*` | instances for TLC (`MC_WebhookView`: the pipeline and the address of its requests) | |
| `*Proofs` | theorems and proofs | |

An action is the code between two database statements: that is where another
process can step in. The locked transaction of a callback is cut in four (load
with the lock, the provider's decision, the `UPDATE`, the commit), because the
provider may do I/O while the transaction is open, and because much may still raise
after the write: reading the row back (`repository.py:127`), the rest of the flow,
the commit. The write is then undone (`Undo`), and so it is when the worker dies;
nobody outside sees it before (`Committed`).

`repository.py:101-127` updates the columns it is given, and a report may leave
status or tracking data out (`views.py:154-166`): `Reports` in `ShipmentWriters` has
all four combinations. `transition_shipment` moves the instance before anything is
written (`admin.py:34-36`), and the poll hands the same instance to its next attempt
(`tasks.py:102-104`): `FlowRaises` and `RaisesMoved` leave the copy moved, with the
row written or not.

`CallbackPipeline`, `ShipmentWriters` and `StatusPoller` model the callback
transaction at three levels: the first with everything around it, the second
reduced to load, write and rollback, but beside the writers that take no lock, the
third as one step.  That the second implements a module in which it is one step
(`ImplementsAtomicCallbacks`) justifies the third. `RetryQueue`
leaves open what a replay does to the shipment; `ShipmentWriters` says it. The poll
of one shipment is in both `ShipmentWriters`, where the row lock and the other
writers count, and `StatusPoller`, where the batch around it does; there a late
writer is one that loads a row and writes it later, a replay or a second poll
(`LateUpdate`), or the staff (`StaffSave`), who may set any status.

### Assumptions about what is outside

* The database has row locks and unique constraints as PostgreSQL has them: a
  plain `SELECT` never waits, an `UPDATE` and a `SELECT ... FOR UPDATE` wait for a
  lock, an aborted transaction leaves nothing behind. On SQLite
  `select_for_update` does nothing; the models do not speak of that.
* The core library checks a move with `transition_shipment` against the instance
  it is given and writes the result with one `update_fields` (CHANGELOG 0.3.0).
  `Edge` is that state machine, and a parameter: the proofs hold for any. The runs
  have only edges that tests show to be allowed: label_ready to in_transit, in_transit
  to delivered (`tests/test_fsm_integration.py:28-29`, `tests/test_admin.py:112-130`),
  and staying (`test_same_status_transition_is_allowed`).
* Django's `save()` of a loaded instance updates every column of its row and
  inserts the row when it is gone; a `DELETE` waits for a row lock. The change form
  loads the instance when it is shown and again when it is posted; what it posts is
  the status and other editable columns, and the second load supplies those that
  are read-only. `report` stands for the latter.
* Each trusted proxy appends the address of its peer to `X-Forwarded-For`, and the
  last one's own address is `REMOTE_ADDR` (`ClientIp`).
* A provider may accept or raise; `ctx.dedup_hash` tells payloads apart.
* A handler whose task is cancelled (the client disconnects) runs neither
  `except Exception` nor what follows. The thread that is in the transaction may
  still commit, which is the same as being cancelled right after the commit.

### Faults and bounds

`Faults` in `CallbackPipeline` names what may go wrong: `crash` (a worker dies, at
any step), `dedup_error` (OperationalError at the claim, which the code answers by
going on without one), `dedup_raises` (any other database error of the store),
`release_error` (OperationalError at the release), `store_error` (the retry row
cannot be written), `slow` (a handler outlives the dedup window). What the
provider, the `UPDATE`, the flow after it and the commit may raise is always possible. A run, or a theorem, that
needs fewer faults says so.

| run | instance | why it is enough |
| --- | --- | --- |
| `pipeline_faults` | two deliveries of one payload, one of another, one shipment, all faults | two handlers compete for the claim and a third for the row; faults meet in any order |
| `pipeline_dedup` | two deliveries of one payload, one for a shipment without a row; `crash`, `dedup_raises`, `release_error` | once-only needs two deliveries; claims are per key, so other keys do not interfere. For `SourceIsTheClient`: headers of up to 2 entries, some no address, up to 2 proxies, two networks and a malformed one |
| `pipeline_progress` | as the first, faults `crash`, `dedup_error`, fairness | |
| `pipeline_release`, `pipeline_duplicate` | two deliveries of one payload | counterexamples |
| `retry_single` | 3 rows, `limit` 2, `max_attempts` 2, one run at a time, two of them cut short | `limit` leaves a row out, a row fails twice, a run dies at each step |
| `retry_overlap` | 2 rows, `limit` 1, two runs at once | all interleavings of marks and lost updates on a row |
| `retry_tries` | 1 row, two runs | counterexample |
| `writers` | a callback, a poll with 2 attempts, a change form and a deletion about one row, a bulk action on it and another | each kind of writer meets each other one; a replay is a poll with one attempt, `update_status` a form posted at once |
| `writers_admin` | two callbacks, which report in_transit and delivered, and the bulk action mark_in_transit | counterexample |
| `creation` | 3 keyed calls and a plain one with one reference, 2 keyed and a plain one without; any row may be deleted | get, insert and second get of three rivals, a delete between any two, and inserts that another constraint rejects |
| `poller_batch` | 3 shipments, `limit` 2, 2 attempts, the oldest shipment silent, one late writer of any kind, one batch cut short by an error at a load or the death of the worker; any row may be deleted | the batch leaves one out, one fails all its attempts, and a stale save can undo any move |

`MaxAborts` bounds the retry runs cut short, `MaxCuts` the batches cut short,
`MaxLate` the late writers around a batch; `MaxRetries` is the poll's own
parameter. No other counter needs a bound, because each delivery, call, writer and
row occurs once. A poller that is scheduled for ever needs `MaxLate` and
`MaxCuts` also for `LeavesPending`: with a stale save or a failed load in every round
nothing would ever settle. Deadlock is not checked: requests, calls and writers
end, and queue and poller are quiet when nothing is due or pending.

## What the runs show

**Endpoint and dedup.** With every fault enabled at once (`pipeline_faults`)
callbacks of a shipment are serialized and decide on what the row holds
(`DecidesOnCurrentRow`), shipments move only along edges (`LegalTransitions`), and
a delivery takes effect as a whole or not at all (`OnlyAppliedShows`): whatever
raises after the write, or whoever dies there, a shipment shows nothing of a
delivery that failed or waits for its replay. Dedup needs more (`pipeline_dedup`): if every handler really
claims and none outlives the window, then one handler at a time processes a payload
(`OneProcessorPerPayload`), what took effect stays remembered until the cleanup
(`SuccessRemembered`), a communication error leaves a retry row
(`TransientFailureQueued`, when that row can be written), nobody deletes the claim
of a delivery that took effect before the window is over (`CommittedClaimSurvives`),
and the whole is a refinement of `OnceOnlyCallbacks` (`ImplementsOnceOnly`). A
delivery that is answered as a duplicate has an original
(`DuplicateHasOriginal`): another one of the payload that took effect, was
decided for good, waits in the retry queue, died, or is still at work. Under fairness
(`pipeline_progress`) each delivery is answered unless its worker dies, claims
belong to requests that run, took effect or died (`ClaimAccountedFor`), and the
last sort expires (`AbandonedClaimExpires`).

**Retry queue.** One run at a time (`retry_single`) replays a row at most
`max_attempts` times and leaves settled rows alone; with its snapshots, lost marks
and aborted runs it implements `RetryLedger`, in which a row takes effect or fails
only while it is pending and is settled once, for a reason that stands in the
ledger (`ImplementsLedger`). Overlapping runs
(`retry_overlap`) do neither, but never report success that was not
(`SucceededWasApplied`) and never give up early (`NotGivenUpEarly`): lost updates of
`attempts` only delay the end. Every row settles (`EveryRowSettles`) in both,
despite `limit`.

**Writers.** The row lock protects callbacks also from writers that take none
(`CallbackIsIsolated`, `CallbackMovesAreLegal`), because their `UPDATE`, `INSERT`
or `DELETE` has to wait. To everybody else a callback is one atomic step on the row
as it stands (`ImplementsAtomicCallbacks`).

The others check a move against the instance they hold, and that may be stale, or
moved by an attempt that failed. What is left of the check then is
`CheckedWritesFollowMoves`: a replay, a poll or a bulk action sets no status that
legal moves, one or several, do not lead to from the one it read. (That the single
step is legal on the row as it is by now is false, `writers_admin`.)

A deleted row comes back only from an instance a saver holds when it is gone
(`DeletionIsFinal`): a bulk action with its snapshot, a posted form or
`update_status` with their load. Once no saver holds one it is gone for good,
however late the callbacks, replays and polls are, for `update_fields` is one
statement that finds its row or raises, and an open form that is posted looks for
the row again. Nobody waits for
ever (`WritersFinish`).

**Batch poll.** However often the polls of a shipment fail, that does not cost the
others their turn: a batch that has ended asked about all it selected, or stopped at
the load of a shipment and asked about exactly the older ones
(`BatchStopsOnlyAtALoad`). It does stop there, for `discover()` and `get_by_id` are
outside the `try` of the poll (`tasks.py:87-90`): at any error of the database,
and at a shipment deleted after the selection (see below).

The polls repair what goes wrong around them (`LeavesPending`): after lost webhooks,
stale saves, staff edits, a batch cut short and deletions, a shipment leaves the
pending statuses for good, although the batch is limited and the oldest shipment
never moves. There are two exceptions, and the property names them. Polls of a
shipment are of no use when the provider gives no answer for it, or when the state
machine has no move from its row to the answer: a row still label_ready when the
parcel is delivered is polled in vain for ever, for no line shows such a move to be
allowed. And when `limit` older shipments are in that state, the batch is full of
them. What the property rests on is that every selection takes the oldest pending
shipment that is not silent (`OldestAnsweringIsSelected`); with one fewer selected
(the mutant) TLC shows the starvation.

**Client IP.** `SourceIsTheClient`, for all headers and routes of the instance: no
entry of the client's own is taken for its address.

**Creation.** `SameShipment`, `LosersGetTheShipment` and `ImplementsGetOrCreate`:
get, insert and second get act as one atomic get-or-create. Losing the race is no
error: a keyed call with a reference fails with the database, or as DoesNotExist, and
that only when the rival's row was deleted meanwhile, or when another constraint
rejected its own insert, since `repository.py:187` takes every IntegrityError for
that of a rival.

**Findings.** Four runs show the code doing what a test, comment or help text
says it does not; each is quoted in `PROJECT.json`.

1. `pipeline_release`: a handler that went on without a claim deletes, when it
   fails, the claim of a delivery that took effect. This is all that can delete
   it: the same property is a theorem when no claim is skipped and no handler
   outlives the window (`CommittedClaimsSurvive`).
2. `pipeline_duplicate`: a redelivery is acknowledged while the first delivery is
   in flight; when that one fails with anything but a communication error, nobody
   processes the payload. How far the loss can go is the theorem
   `DuplicatesHaveOriginals`: behind a duplicate there is always a first delivery, and
   it is lost only if that one died or ended in an unexpected error.
3. `retry_tries`: overlapping runs replay a row more often than `max_attempts`.
4. `writers_admin`: mark_in_transit saves in_transit over the delivered that
   callbacks committed after the action had loaded its rows, the very change that
   `tests/test_admin.py:165` says is invalid.

Two more disagreements are in the models, without a run of their own.
`tasks.py:91-93` and `tests/test_celery.py:76-102` ("Polling a non-existent shipment
returns None") have a repository that returns None for a missing row; the real
`get_by_id` raises (`repository.py:61-62`), so the poll raises and a batch ends
(`LoadRaises`, `BatchStopsOnlyAtALoad`). And the comment at `repository.py:188`
("Race: another request created the record") is not true of other
IntegrityErrors (`InsertRejected`).

### Fairness

`Handle(r)` is weakly fair: the event loop resumes a coroutine whose statement has
returned. This is also why a request that has not begun is served in the end; a
request that is never read is not a property of this code. `Age` and `Cleanup` are
weakly fair because time passes and the cleanup is scheduled (task or command,
both documented for a scheduler). In `RetryQueue` a run is weakly fair, and so is
the passing of `next_retry_at`. In `ShipmentWriters` only the whole is weakly fair:
as long as some writer can go on, one does (an open form is posted or left). Since
every step brings its writer nearer to its end, `WritersFinish` then says that no
group of them waits for each other. In `StatusPoller` the task is weakly fair: it is
scheduled again and again, and its loop goes on. The rest is assumed of the world
outside and no claim about the code: parcels move on, and for shipments that are
not silent the provider answers and the database saves infinitely often if it is
asked infinitely often (strong fairness, for each may also fail any number
of times in between).

## What is proved

All six proof modules are checked by TLAPS from the assumptions named
`ConstantsAssumption` or `ClientIpAssumption`, for any number of requests, runs,
writers, calls, rows and payloads and any state machine.

**`CallbackPipelineProofs`.** `TypeOK` has that a held lock belongs to an open
transaction on the row; `LockInv` adds the converse, that an open transaction
holds its lock and has seen what the row holds. Together they are inductive and
give `DecisionsAreCurrent` and `TransitionsAreLegal`, with all faults. The dedup
theorems assume that `dedup_error` and `slow` do not occur; their invariant
relates a claim to the one handler that may still use it, and gives
`SuccessIsRemembered`, `ProcessedByOne` and, step by step, the refinement
`PipelineImplementsOnceOnly`. Three more say what is left behind. `OnlyAppliedShow`
needs no assumption on faults: what a row shows to the outside is that of a delivery
that is through, since whoever raises or dies after its write puts back what its
transaction had loaded, which `LockInv` makes the row as it was.
`TransientFailuresAreQueued` needs that the retry row can be written, and
`ClaimsAreAccountedFor` that the release does its work (`release_error` and
`dedup_raises` do not occur). `CommittedClaimsSurvive` is the converse of a finding:
under the assumption of the dedup theorems only the cleanup deletes a claim whose
handler committed. `DuplicatesHaveOriginals` is inductive with two more facts
(`OriginalInv`): a claim belongs to a delivery that left a trace, and traces stay
(`TraceStays`).

**`RetryQueueProofs`.** `SuccessIsReal` and `GivenUpInTime` hold for any number of
overlapping runs. The second needs that no snapshot and no record read by
`mark_failed` counts more attempts than there were failures. `SettledStays` and
`TriesAreBounded` assume at most one run at a time and need the invariant that
its snapshot agrees with the table. Under the same assumption
`QueueImplementsLedger` maps every step to a step of `RetryLedger` or to a stutter;
`CountedInv`, that the table counts the failures of a row exactly, is what lets
the failure a run records be the next one, and the last one end the row.

**`ShipmentWritersProofs`.** `IsolationInv` says that a loaded callback holds the
lock of its row and that the row is what it loaded; every other writer must have
found the lock free. It gives `CallbacksAreIsolated` and `CallbacksMoveLegally`.
`ChecksFollowMoves` needs that the status of every instance is one that legal moves
lead to from the one its writer read: a failed attempt may have moved it, along an
edge each time, and `Leads` is transitive. `DeletionsAreFinal` goes by the kinds of
steps: what writes to a row that is gone is the save of a writer that holds it, and
what makes a writer hold it has found it.
`CallbacksAreAtomic` shows that `AtomicCallbacks` is implemented. The abstract copies
(`View`) are those of the writers without a lock that still have to deal with the
row; a callback that has loaded its row looks as if it had not begun, its rollback
is a callback that comes to nothing, and its commit is the one step: `IsolationInv`
makes the move it decided on a move of the current row. One lemma per kind of
writer (`CallbackRefines`, `LoadRefines`, `SnapshotRefines`, `FlowRefines`,
`SaverRefines`, `GoneRefines`) rests on `CopiesAlone` and `ViewsChange`: a step
changes what one writer knows of one row.

**`StatusPollerProofs`.** `BatchesStopOnlyAtLoads` needs that the loop goes by age:
what it is through with is the older part of the selection, all of it asked about,
and nothing of what is to come is (`BatchInv`). `SilentDoNotStarve` is about the select with
`ORDER BY created_at LIMIT n`: the shipments older than the oldest one that
answers are all silent, so there are fewer than `limit` of them. Its lemmas,
on finite sets of rows (`RowsAreFinite`, `OldestTakesIn`, `YoungestExists`,
`OldestWithinLimit`), say what `Oldest` takes and how much. It assumes fewer silent
shipments than `limit`; with as many, the mutant's counterexample is the code's.

**`ClientIpProofs`.** `SourceIsAlwaysTheClient`, for headers and routes of any
length: the client's address stands right after its own entries, is not trusted,
and all that follows is, so the walk stops there (`WhatProxiesAppend`,
`WalkStops`).

**`ShipmentCreationProofs`.** `CreationInv`: the constraint holds, an answer names an
existing row unless a row of its reference was deleted, and a call before its
second lookup has a row to find, or one was deleted, or another constraint rejected
its insert. It gives
`OneShipmentPerReference`, `RaceIsResolved` and the refinement
`CreationImplementsGetOrCreate`.

**Progress.** What holds under fairness is beyond the prover and only
model-checked: `RequestAnswered`, `AbandonedClaimExpires`, `EveryRowSettles`,
`WritersFinish`, `LeavesPending`. Proved is what single steps show of them, for every
size. Each process has a measure of the steps it may still take, `StepsLeft`, under
the set of rows it is not through with, where it has one. Every step of the
process lowers the measure and no step of another raises it (`HandlersDoAdvance`,
`RunsDoAdvance`, `WritersDoAdvance`, `BatchesDoAdvance`), so that none goes on for
ever and nobody is thrown back; a run or batch gets a new measure only when it
fetches new rows. And whoever waits for a row lock waits for somebody who waits for
nothing (`NobodyWaitsForAWaiter`, `LockHoldersGoOn`), so there is no circle. What is
left to fairness is that a step that can be taken is taken, and for the queue and
the poller that rounds repeat.

Every invariant, action property and refinement of a passing run is also proved.

## Mutants

Each module has a short section of plausible bugs (a constraint missing, a row
loaded without the lock, an off-by-one) that its specification does not use.
`PROJECT.json` pairs each property with one: put in place of the operator it
names, it must break the property.

## Not modelled

* The middleware's table: the first class that an exception is an instance of
  decides the response, so the answer depends on the class hierarchy of the core
  library, which is not in the repository.
* The health check, which reads and reports and has no state; settings, migrations,
  forms and template tags.
* `compute_next_retry_at`: `due` leaves open when a row is due again, so the queue's
  properties hold for any backoff.
* Response bodies and stored payloads. `retry.py:151` and `tasks.py:165` (hazards)
  are about such data: what a replay hands to the core differs from what the
  endpoint handed it.
* One payload followed through endpoint, queue and rows in a single module. The
  parts are joined by what each leaves open: a retry row stands for a callback
  without effect (`OnlyAppliedShows`), the queue replays it until it settles
  (`EveryRowSettles`), a replay is a writer without a lock (`ShipmentWriters`). Such
  a composition could say little on once-only: a replay takes no claim.

## Where the development stands

Modelled, checked and proved: endpoint and dedup, retry queue, all writers of
shipment rows, creation, the batch poll, client IP. Left, should the code grow
there: the composition just named, and the middleware's table once the
exceptions of the core are at hand.
