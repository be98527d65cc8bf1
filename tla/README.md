# Verification of dispatcher-sdk

dispatcher-sdk runs handlers durably. A *Kernel* keeps executions, their effects
and their results in SQLite; *runtimes* claim executions, run handlers in threads
or processes and write the results back; an *orchestrator*, with a database of
its own, turns workflow commands into executions and their results into workflow
state. Everything that makes this hard sits between two transactions: a handler
that has changed the outside world and not said so yet, a lease that expired
while its holder was working, an answer that never arrived, an operator's
decision about a state that is gone.

This directory models those parts in TLA+, checks the models with TLC and proves
the most important of their properties with TLAPS.

    tlc -workers 4 -config Kernel.cfg MCKernel.tla
    tlapm RunDisposal_proofs.tla

The proof modules are `ExecutionKernel_proofs`, `KernelClock_proofs`, `ResultDelivery_proofs`,
`Workflow_proofs`, `RunControl_proofs`, `RunRecovery_proofs`, `SettlementJournal_proofs` and
`RunDisposal_proofs`.

## Inventory

Paths are relative to `src/dispatcher_sdk/`.

| Component | State it keeps | Operations | Interacts with | What makes it correct |
|---|---|---|---|---|
| **Executions** `execution_kernel/_sqlite_execution.py`, `_sqlite_completion.py` | `kernel_executions`: state, attempt, fence, revision, lease, retry time, recovery target, result | submit, cancel_before_accept, claim, start, renew, complete, settle, dead_letter, cancel, reap | runtimes (leases), operators, result outbox (same transaction) | one verdict, kept; attempts bounded; an expired lease changes nothing |
| **Effects** `_sqlite_effects.py`, `_sqlite_recovery.py`, `context.py` | `kernel_effects`: state, fence, claim, revision | prepare, claim, verify, perform (outside), commit, mark indeterminate, park, resolve | handlers, operators | never performed twice unless an operator said it had not happened; none forgotten |
| **Cleanup obligations** `_sqlite_execution.py`, `runtime.py` | `kernel_supervisor_obligations` | register, resolve (by completion, by the host) | process runtime, claim, reap | one process tree per execution |
| **Clock and transactions** `_sqlite_base.py` | `kernel_clock.watermark` | advance, savepoint, rollback that keeps the watermark, pre-commit sample | every mutating operation | time never goes back for leases and budgets |
| **Result outbox** `_sqlite_outbox.py` | `kernel_result_outbox` | insert, claim, ack, renew, release, reap, manual retry | pumps | no result lost, delivered is final |
| **Result delivery** `orchestrator/results.py` | `sdk_results`, its own clock | pump, claim, acknowledge, reap, manual retry | kernel outbox, application | stored before the kernel forgets it |
| **Runtime** `runtime.py` | the invocation in memory, settlement receipts | run_next, invoke in thread or process, settle, recover receipts | kernel, handler, host | settles what it ran or leaves it to the reaper |
| **Settlement journal** `settlement.py`, `pending_settlements.py`, `cancellation.py` | durable receipts, bounded admission | record, replay, finish | runtime | an unsettled outcome is never dropped, admission stops before the journal overflows |
| **Lifecycle outbox** `_sqlite_execution.py`, `event.py` | producers, slots, events | reserve, append, peek, acknowledge, retire, prune, recover | runtimes, host | a started producer can always append its last event; order kept |
| **Managed run control** `_sqlite_execution.py`, `control_takeover.py` | control epochs, pause barrier, permits | pause, resume, cancel fence, take over, dispatch permits | orchestrator, claims, starts | nothing starts behind the barrier |
| **Orchestrator** `orchestrator/engine.py`, `store.py`, `reducer.py` | runs, tasks, command receipts, events, subscriptions | apply_operations, observe, acknowledge_events | application | commands apply once, in revision order |
| **Transport** `orchestrator/transport.py` | `sdk_outbox` intents, task projection | flush (dispatch, cancel), sync_execution | kernel | intents are delivered at least once, projection never goes back |
| **Inbox, notifications** `orchestrator/inbox.py`, `notifications.py` | inbox rows, watch cursor, `sdk_notifications` | accept, claim, consume; collect, deliver | kernel events, application | a notice does not outrun the projection; at-least-once |
| **Managed revisions, recovery** `orchestrator/managed.py`, `recovery.py` | revision documents, recovery lease | install, replan, reopen_run | both databases | a run is reopened by one owner |
| **Host** `execution_kernel/host.py`, `orchestrator/host.py` | coordinator, pool, stop phases | start, request_stop, stop, join | runtimes, bridge, notification callback | closes after its workers, and tells the truth about it |
| **Children** `children.py`, `child_factual_read.py` | requests in the journal, parent/child rows | run, wait_for, serve, close | kernel, host | no wait cycle, one owner of a child, no orphan |
| **Budgets** `budget*.py`, `supervision.py`, `completion_clock.py` | samples, cutoffs, guards, in memory and in three databases | arm, capture, acknowledge, receive, claim, prepare, confirm, complete | runtime, kernel, journal | elapsed time once observed is never given back |
| **Process handlers** `_process_runtime.py`, `_process_supervisor.py`, `_process_cleanup.py` | three processes and their packets | start, wait, revoke, contain, hand over | runtime, settlement journal | nothing is claimed of a tree that may be alive |
| **Stall episodes** `observability/supervision.py`, `supervision.py` | windows, episodes, policies, dispositions | sample, register, deliver, cancel | kernel, journal, bridge | what is cancelled as stalled was silent |
| **Stall supervisor** `observability/managed_supervisor.py` | slots, enrollment, cleanup proofs | claim, run, settle, close | inbox, kernel, process handlers | a slot is charged as long as a process may live |
| **Hand-over of storage** `storage*.py`, `maintenance.py` | files, locks, markers, reservations | lease, snapshot, restore, activate | every reader and writer | one successor, no cut-over under a writer |
| **Retention and disposal** `retention.py`, `run_history.py`, `provenance.py` | history rows, plans, registry | plan, apply, compact; register, dispose | subscriptions, recoveries, other Runs | nothing that is still needed is removed |
| Projections, diagnostics, schema, adapters, facade | — | reading, formatting, I/O | — | not protocol logic |

The hazards behind these rows, each at its line, are in `PROJECT.json`.

## Modules

| Module | Models |
|---|---|
| `ExecutionKernel` | kernel rows, effects, obligations and outbox facts, with the runtimes, handlers, operators and cancelling clients that race on them |
| `ExecutionPromise` | what that promises a caller, without leases, attempts or processes; `ExecutionKernel` implements it (`KeepsPromise`) |
| `KernelView` | the snapshots the kernel shows its clients, and how they may follow each other; `ExecutionKernel` implements it (`KeepsView`) and `Workflow` builds on it |
| `ExecutionKernel_proofs` | theorems about `ExecutionKernel`: types, ownership of effects, the recovery pointer, verdicts, what the world sees of an effect, attempts, processes, and the refinements of `ExecutionPromise` and `KernelView` |
| `KernelClock`, `KernelClock_proofs` | the watermark and the savepoint protocol of one mutating transaction |
| `DeliveryQueue` | one row of a fenced delivery queue, as operators |
| `ResultDelivery`, `ResultDelivery_proofs` | two such queues in two databases, joined by pumps |
| `Workflow`, `Workflow_proofs` | one unmanaged Run in the orchestrator's database, its commands, and the flushers that carry intents to the kernel and snapshots back |
| `RunControl`, `RunControl_proofs` | the two control gates of a managed Run: pause, revision, resume, takeover, cancellation |
| `RunDispatch` | the work that passes through these gates: dispatch permits, registration, claims, the drain set; extends `RunControl` |
| `RunRecovery`, `RunRecovery_proofs` | reopening a finished Run across both databases |
| `NotificationDelivery` | from a kernel event to a mutation of the application's database, over two `DeliveryQueue`s |
| `SettlementJournal`, `SettlementJournal_proofs` | outcomes between a handler and the kernel: slots, receipts, maintenance |
| `LifecycleOutbox` | producers, events and notes between the kernel and the journal |
| `HandlerChildren` | handlers that run or wait for other executions, and the services that carry this out |
| `ProcessHandler` | one call of a handler in a process tree of its own |
| `RuntimeHost` | start and shutdown of the host that drives all of this |
| `StallEpisodes` | windows, episodes and dispositions of a stalled execution |
| `StallSupervisor` | the reserved supervisor that handles notices of stalls |
| `StorageHandoff` | snapshots, restores and activations of a group of stores |
| `HistoryRetention` | history, events and content of Runs, and what a retention may remove |
| `RunDisposal`, `RunDisposal_proofs` | the permanent removal of a Run from its store and the provenance registry |
| `MCKernel`, `MCMessages`, `MCWorkflow`, `MCControl`, `MCWork`, `MCSupervision`, `MCStorage`, `MCProcess` | instances for TLC, safety |
| `MCProgressStores`, `MCProgressWork`, `MCProgressWatch`, `MCProgressCalls` | instances for TLC, liveness under fairness |

The modules meet where the components do. `ExecutionKernel` has the kernel's rows in detail
and `KernelView` what its clients can see of them; `Workflow` is composed with `KernelView`,
`RunDispatch` with `RunControl`, the two deliveries and the stall supervisor with `DeliveryQueue`.
The other modules keep of the kernel only the state, the fence and the lease of the rows
their protocol reads, with the moves `ExecutionKernel` allows.

### ExecutionKernel

`execution[e]` is a row of `kernel_executions`, `effect[f]` of `kernel_effects`,
`obligation[e]` the newest row of `kernel_supervisor_obligations`, `outbox[e]` the
fact in `kernel_result_outbox`. `worker[w]` is the invocation a runtime drives:
its `pc` says between which two transactions it is, and `attempt`, `fence`,
`revision` are the lease it holds, which may be out of date. `orders` are the
decisions operators wrote; an order stays in the set and can be delivered at any
time and any number of times. `detached` counts the calls that go on in threads
nobody waits for. `ledger` is history: permissions granted, times the world saw
the effect, decisions that it did not happen.

Every public kernel method runs in one `BEGIN IMMEDIATE` transaction and is one
action. What is not atomic is split: `execute_once` takes the steps
`PrepareEffect`, `ClaimEffect`, `VerifyClaim`, `Perform`, `CommitEffect`, with
`Interrupt`, `Crash`, `Reap`, `Cancel`, another runtime's claim and the clock
possible between any two; `_invoke_process` takes `Register` and `Spawn`.
`Start`, `Renew` and `Complete` may lose their answer. A durable settlement receipt
is a worker that is still at `done` or `recover`: it may complete with
`settlement` long after its lease expired.

Abstractions. Time is what is left: `ttl` of a lease, `wait` of a queued row,
counted down by `Tick`; `KernelClock` shows why it cannot go up. A lease id is
the fence it was issued with and a claim id the revision it was written with,
because both are unique to the claim. `failed` stands for `timed_out` too.
Requests, responses and payloads are left out, so conflicts between different
contents are not seen. The model covers unmanaged root executions: the managed
gate, the lifecycle producer a claim may have to reserve and the budget sample a
settlement may have to acknowledge are absent. One reaping takes every expired
row, where the code takes the first 256 by age: the others are taken by the next.

### KernelClock

One writer at a time: `Begin` advances the watermark and opens the savepoint,
`Grant` and `Use` are operations with and without success, `Raise` any other failure,
`Commit` re-samples the clock for a budgeted admission, `Fail` rolls back to the
savepoint and keeps the watermark before the caller sees the error, and `Lose` is a
failed commit, a failed cleanup or a crash. `WallMoves` sets the host's clock to
any value. `refused` is history: leases some caller was told had expired.

### ResultDelivery

`kernel[r]` and `sdk[r]` are the two rows of one result, `pump[p]` where a caller of
`pump_results` is, `claims[c][r]` the fence under which an application worker holds
a result, `handled` history, `orders` the manual retries operators wrote. `Handle`
and `Forget` are the application and are external. Each database counts its own
time.

### Workflow and KernelView

`run` is the Run as `sdk_runs` and `sdk_run_items` keep it, `cursor` its subscriptions,
`receipts` the accepted commands, `outbox` the intents, `view` the kernel, `flusher[f]`
a caller of `flush`, `sync` or `get_execution`, `sent` the commands applications sent. Each of
them may be delivered any number of times and in any order, so a replay, a lost answer and a
late delivery are all one action taken again. `refused` is history: commands
some sender was told were refused.

`_apply_operations` is one transaction over a list of operations. It is modelled by
`Begin`, one `Reduce` for each operation on the private copy `draft.run`, and `Commit`,
`Rollback` (an operation that raises) or `Abort` (crash or failure of the commit). While
there is a draft the write lock of `BEGIN IMMEDIATE` is held: actions that write this
database wait (`Unlocked`), the kernel and readers go on. `Allowed` and `Reduced` are
`reduce_operation`. `acknowledge_events` is `Acknowledge`.

`flush` selects its batch in one read (`Select`), then takes message by message: `Look`
(`kernel.get`), `Submit` or the rounds of `_cancel_execution` (`CancelBeforeAccept`,
`CancelExecution`, `LookAgain`), `Read` and `Write` of `sync_execution`, `Mark`. `Fail` is a
failure the state calls for and `Trouble` any other, both by `_delivery_failed`; `Crash` is possible
at every step. `Poll` is `sync_execution` without a delivery.

The kernel is `KernelView`: a phase, a revision and, while effects await decisions, the
target of the recovery. The calls made here change it as `submit`, `cancel_before_accept` and `cancel`
do; everything else a runtime, a reaper or an operator may do is `KernelMoves`, any
step `KernelView` allows. That `ExecutionKernel` takes no other steps is checked (`KeepsView`).

Abstractions. With one Run and no retention the sequence number of the last event is
the Run's revision plus one. Execution `<<t, i>>` is attempt `i` of task `t`; a command that
reuses an execution id is refused by `_register_executions` and not modelled. Results,
reasons, application state and signals are data; a signal is a wait that is never
released. Generations stay 0 (no recovery), and a managed Run is out of scope.
`Broken` names executions whose command `runtime.submit` always refuses.

### RunControl and RunDispatch

`kc` and `oc` are the gates of the kernel and of the orchestrator, `kop[o]` and `op[o]` what each
has recorded of operation `o`, `kfence` and `cf` the cancellation fences, `ktaken`, `otaken` and `claim`
the takeovers. No transaction spans the two, so each call of `managed.py` is two or
three actions: the kernel's transaction (names with `K`), the orchestrator's that records its
receipt, and for a resume the check in between. `seen` is what some call has read of the
other store: it only grows, so a caller may be as slow as it likes and any call can be made again.
One identity `o` stands for a pause, its revision, its activation and its resume, because each
is bound to the one before.

`RunDispatch` adds the orchestrator's dispatches with their permits (`flush`, `reconcile_dispatch_permits`)
and the kernel's managed rows. A flush is permit, kernel call, permit receipt and outbox
receipt, and dies or fails between any two. The contents of a revision document and the variant
with both stores in one database are left out.

### RunRecovery

`rec[c]` is the row of a reopen command, `run[r]` and `task[r][g]` the Run and its one task of each
generation, `turn` what the host has read before it advances recovery by recovery, `flush` what a
flush has read. A recovery is prepared, committed and activated in transactions of their own;
the facts of the kernel are read inside the workflow's transaction. A flush reads the blocked
Runs and the messages in two snapshots, so that an intent whose recovery is committed but not
activated may go out early: a committed recovery only rolls forward, and no property calls it
wrong. The host advances the oldest recoveries, `Limit` in a turn: one that is prepared and whose commit
is refused (`Stuck`) stays among them, and enough of them keep it from what comes after (`Crowded`).
Waiters and inspections are left out.

### NotificationDelivery

`watch[w]` with its `cursor` into the kernel's `log`, `queue` and `inbox` the two delivery queues, `coll`, `courier`
and `consumer` the threads between them. A collector reads a page of events, projects the
execution and only then writes the notices and the cursor, in a transaction of its own;
a courier hands a notice to the callback, whose `accept` is the application's transaction; a
consumer mutates and acknowledges in one. Both queues share one `MaxAttempts` and `LeaseTicks`. The
correlation of requests with results and the state of the Run at registration are left out.

### SettlementJournal

A key is an execution and a fence. `pend` and `inuse` are the slots of a process, `j` and `rows` the journal
with its cursor, `drv` a driver in `run_once`, `mnt` the maintenance (`recover_completions`). What
a driver leaves at any step the maintenance of any process finishes; `Oversized` receipts cannot be
read within the recovery's limit. `mnt` holds the record as it was read, with its revision and its result: who resolves a
time by a record that was written since loses the comparison of revisions and publishes nothing. Diagnostic notes and copies between schema versions are
left out.

### LifecycleOutbox

`open` and `closed` are the producers, `outbox` the events by sequence, `receipts` and `log` the journal, `mem`
what a runtime keeps in memory (pending notes, finished tokens, cursor). A reservation, an
append, a delivery and its acknowledgement are separate, with crashes and lost answers
between them; the host retires and prunes generations and recovers producers of dead
processes. `lost` is history: evidence that was not retained. The host's verifier of a dead
owner is trusted. The delivery offers the first undelivered event of each execution; it is the cursor in memory,
moved past what was refused, that lets the others through when as many executions as the
limit are refused.

### HandlerChildren

`req[r]` is a request in the journal, `call[r][f]` the handler of generation `f` that made it, `exe[s][r]` the worker of
service `s`, `row` and `parent` the kernel. Handler and service poll two databases; each action is
one transaction of one, or one read and what it decides. A service that closes, dies or
stalls leaves its requests to others. `late` is the work window of the request, which ends for
both sides. The budgets of children, checkpoint notes and the pruning of closed requests are left out.

### ProcessHandler

`worker`, `sup` (supervisor) and `par` (parent) are where the three processes are, `kids` the descendants alive, `toSup` and
`toPar` the packets, `killer` who holds the handle's lock. `clock` is the entry's time: within the work
deadline, past it, past the hard one. Anything may die at any step; a descendant is
adopted by the supervisor where the system has a subreaper and lost from sight where not. The parent's
own budget clock may fail while it waits (`ClockFails`, `unclocked`), which tears the call down. `noted` is what
`on_phase` is told at the end, of the tree and of the result: the two together are what the runtime takes
for a completed supervision (`CompletionIsProven`). `Outcome` is a set where the code decides by
what it finds in memory and in the channel at that moment. Budget envelopes, the Windows runtime, sandboxes and
script adapters are left out.

### RuntimeHost

`coord` is the coordinator's place in its turn, `futures` the pool, `calls[c]` a caller of `stop`, `shutting` and `shutAt` who is in the
shared shutdown and where, `notifier` the notification thread. Threads that cannot be started are modelled
with the other failures. Wake-ups, backoff times and health contents are left out. A second
`stop` of a host that never started resets the state from "stopped" to "stopping"; no property
of the shutdown depends on it.

### StallEpisodes and StallSupervisor

`StallEpisodes`: `sup` is the kernel's supervision row, `pol`, `ep`, `out` the journal, `ev[s]` and `cour[s]` a service's sampler and
courier. Times are ages that every `Tick` raises, up to `Cap`, past which no comparison changes;
revisions of rows are renumbered where only their equality matters (`Bumped`). `Lag` bounds
how long a sample takes from its clock to its transaction, and `late` remembers it: the code dates a window
by the clock it read before the progress, so `CancelledWasQuiet` counts the delay in. A lease runs out
(`Lapses`) before somebody takes the row; from then on nothing is registered or confirmed, but
a disposition is still accepted, because `_assert_stall_disposition` does not look at the lease. Who registers a policy
has seen the execution in some state before (`Authorities`), so a new version may be registered for an attempt
that is over; until a policy of the current attempt is active, the kernel takes dispositions of superseded
episodes, and `Closed` says so. A version is registered once; a cancellation acts where its second
transaction does, and with effects under way it parks the execution.

`StallSupervisor`: `slot[s][n]` is the slot of a notice and the place of its thread, `native` its process, `exec` its row in the
kernel, `note` and `proofs` the evidence that nothing of it is alive, `inbox` a `DeliveryQueue`. `over` stands for the
elapsed budget of the notice, `seen` in a slot for the snapshot of the execution its thread holds: it decides by
that, and what another supervisor did since shows only when it reads again. After a death before the containment note the slot of a replayed
notice stays charged and `close` keeps failing, which is the code's conservative choice. The same
happens without a death (`Refused`): between the admission of the handler and the spawn the runtime
may refuse (the note of the intent, the obligation, the startup window) without a note that says that nothing was started,
and the slot stays charged for good; `SlotsReturn` leaves these slots out. Memory limits are taken to be enforceable;
status reports are left out.

### StorageHandoff, HistoryRetention, RunDisposal

`StorageHandoff`: `data[s]` is a store as a version that a write moves, `lock`, `retired`, `reserved` and `dir` the locks and
files beside it, `snap`, `act` and `conn` the operations and connections under way. A lock dies with its holder, a
file does not. Leases are taken in the order of the paths (`Order`), copies and retirements are made in the order of
the names (`Named`). A snapshot can be verified by others as soon as its manifest is linked, while its maker still
verifies it (`verifying`) and may withdraw it (`SnapshotRemoved`): an activation that has begun by then
and has no restored copy cannot be finished. Nor can one that has retired an original while somebody writes to
another: the retry finds the other changed. `HandoffEnds` makes both its hypothesis. `Losses` is what may
disappear. `Prepared` is an assumption on the environment and not something the code enforces: directories
nobody opens before an activation has set them up; the scenario `losses` does without it.
Signatures, paths and deployments are valid; fences of leases are left out.

`HistoryRetention`: `history` has the rows of changes, `items` the current values, `events` and `sequence` the event log,
`objects` the shared content, `plan[o]` what an operator planned, with the store's mutation clock `writes`.
`was` and `emitted` are history. `CompactDatabase` puts the compacted copy in the store's place. Scan limits,
blocked plans and streamed projections are left out, and with them how a subscription
without a row gets past an expiry.

`RunDisposal`: store and provenance registry, an operator's plan from two read snapshots, and the three commits
of a disposal. A retry plans nothing anew, so that a write of the registry between the marker and the deletion leaves
the disposal with a plan no retry accepts (`Overtaken`). Authentication and the contents of the cold archive are left out.

## Runs

The 12 runs share their behaviours out over *scenarios*. A scenario is a module with
constants of its own: an `MC` module declares the variables of several modules, instantiates
each of them once for every scenario, and lets `scenario` choose in the initial state
which of the instances takes the steps; the variables of the others stay as they are. A
property of such a run says of each of its scenarios what the module of the same name
says (`scenario = "ring" => Ring!CallsSafe`), in its states and, where the module has a formula of
steps, in its steps. Where a module has theorems (`kernel`, `messages`, `control`, `work`,
`supervision`, `storage`, `progress_stores`), its `MC` module extends that module and one scenario is the module itself, with the
constants of the `.cfg`; `MCWorkflow` extends `Workflow`, whose properties every one of its scenarios
is checked for as they stand. So one search answers one question for a whole family of bounds, and
no scenario is multiplied by another.

Ids that a module treats alike are symmetric: workers, flushers, users, operators, operations, and the executions of a
scenario that treats them alike. Runs of progress use no symmetry.

All runs use deadlock checking off: executions end, and a system in which
everything ended stops.

| Run, property | Scenario | Bounds | What is shown |
|---|---|---|---|
| `kernel` | `thread` | 1 execution, 1 effect, 2 runtimes (symmetric), thread isolation, 2 attempts, 1 order, renewals up to revision 3 | types (in `InstancesSound`), and every property on its own: unfinished effects are owned, a parked execution asks about an effect that can be decided, the outbox tells what the row tells, no effect is forgotten or done again without a decision; verdicts are final, cancellations stick, `ExecutionPromise` and `KernelView` are implemented |
| `InstancesSound` | `effects` | 1 execution, 2 effects, 1 runtime, 1 attempt, 2 orders | `KernelSound` where the recovery pointer has somewhere to go |
| | `process` | 1 execution, 1 effect, 2 runtimes, process isolation, 2 attempts, 1 order | `KernelSound`, of which here above all that there is one process tree at a time |
| `messages` | `results` | 1 result, 2 pumps, 2 consumers (symmetric), 2 attempts per queue, delays 0 and 1, 1 retry, renewals up to revision 3 | stored before forgotten, late acknowledgements settle nothing, delivered for good |
| `NoticesSafe` | `collect` | 2 executions, 1 watch, 2 collectors, pages of 2, 4 events, 1 death | nothing skipped, no notice before the projection |
| | `deliver` | 1 notice, 2 couriers, 2 consumers, 2 attempts, 2 failures, 1 retry | acknowledged is accepted, applied once |
| `CallsSafe` | `answers` | 2 executions, the parent claimed twice, 2 services, 1 fault | answers, replays and late readers agree with the kernel; children start under their parent |
| | `owners` | 3 executions, 2 waits for one, 1 fault | one adopts it, for good |
| | `ring` | 3 executions that wait in a ring | the last wait is refused |
| `workflow` | `cancel` | 1 task with 1 attempt, 2 flushers (symmetric) with batches of 2, 2 commands, 2 rounds of a cancellation, kernel revisions to 3 | `WorkInOrder`, of which here: settled means quiet, a delivered cancellation holds; projections never go back |
| | `attempts` | 1 task with 2 attempts, 1 flusher, 3 commands, kernel revisions to 2 | of the attempts of a task only the last can still run |
| | `tasks` | 2 tasks, 1 wait, 1 flusher, 3 commands out of 5 lists of operations | `CommandsHold`: all or nothing; dependencies first, a finished Run leaves nothing behind |
| | `commands` | 1 task, 3 commands of which 2 are under way, ids used again | a refusal is final |
| | `consumer` | 1 task, 1 subscription, 2 commands at once, ids used again | each event is consumed once |
| `control` | `cycle` | 2 pauses, 1 cancellation, 2 leases, an adopted Run | `GatesAgree`: local open only behind the kernel's, generations one apart, reopened only uncancelled |
| `InstancesAgree` | `cancels` | 1 pause, 2 cancellations, 2 leases | a fence is final, both stores agree on it, no former holder opens a gate |
| | `dispatch` | 1 execution, 1 pause, 1 cancellation, 2 leases | nothing registers or starts while suspended, an accepted permit is registered |
| | `drain` | 2 executions, 2 pauses | a prepared pause knows all dispatches, the drain ends, starts pass both gates |
| | `recovery` | 1 Run, 2 commands, 2 owners, 1 notification | `RunRecovery!RecoverySafe`: work of an old generation is over, a prepared Run is frozen, a generation is one decision |
| `work` | `receipts` | 1 execution with 2 claims, 2 processes, 3 writes of a receipt | `SettlementSafe`: receipts are true, published is persisted, an outcome is in memory, journal or kernel; `OneResultEach`: what was accepted and settled stays |
| `InstancesSafe` | `slots` | 2 executions, 1 process with 2 drivers and 2 slots | the same, of which here: slots are exact, however the outcomes compete for them |
| | `evidence` | 1 execution with 2 claims, 3 notes, 5 slots, 2 faults | evidence, or a marker that it may be missing, comes before the next claim |
| | `journals` | 1 execution, 2 runtimes, 2 notes, 4 slots, 2 faults | journal in order, acknowledged is journaled, pruned stays pruned |
| | `capacity` | 2 slots, 1 note, a claim and a cancellation | reservations never exceed the outbox |
| `supervision` | `clock` | 2 leases of length 1, wall clock 0..4, renewals up to watermark 2 | an expiry is final, leases count down, budgeted admissions are in time |
| `HostSafe` | `stops` | 2 workers, 2 callers with 2 stops, 1 failure | closed after its workers, answers and report are true, verdicts are final |
| | `faults` | 1 worker, 2 callers, 3 failures of 6 kinds | the same |
| `SupervisorsSafe` | `slots` | 1 supervisor, 2 notices, 1 slot, 1 fault | a live process holds a slot, closed is clean |
| | `retried` | 1 supervisor, 1 notice, 2 attempts, 1 retry, 2 faults | the same after an operator's retry |
| | `shared` | 2 supervisors, 1 notice, 2 attempts, 1 fault | invoked once, consumed is succeeded |
| `EpisodesSafe` | `sampler` | 1 service, windows of 2, lag 1 | cancelled as stalled was quiet |
| | `policies` | 2 versions, 2 attempts, 1 fault | journal and kernel agree, closed is stale |
| | `competing` | 2 services (symmetric), 2 episodes (symmetric), windows of 1 | one episode at a time, cancelled was quiet, journal and kernel agree; not `ClosedIsStale`, which fails here |
| `storage` | `races` | 2 stores, 1 snapshot, 2 activations, 2 users (symmetric), 2 interruptions | `HandoffSafe`: one owner, one successor, nothing left behind, retired is frozen |
| | `snapshots` | 2 stores, 2 snapshots, 1 activation, 1 user | a snapshot is a consistent cut |
| | `losses` | 1 store, 2 activations of one directory, losses, 3 interruptions | a committed successor is never made again |
| `RetentionSafe` | `history` | 1 Run, 2 fields that change once, policies that keep one and two revisions, one after another in any order, 3 revisions, 5 writes | what can be loaded is what was, receipts answer, only what was planned |
| | `changes` | 1 Run, 1 field that changes and changes back, 3 revisions, 5 writes | the same |
| | `events` | 1 Run, 1 subscription, 2 policies, 5 writes | no event skipped, no number used again |
| | `content` | 2 Runs, 3 values that share objects, 4 writes | content that is needed is there |
| `DisposalSafe` | `disposals` | 2 Runs, 2 operators (symmetric), 4 writes, 1 death | no dangling reference, registry agrees, only free Runs go |
| `process` | `tree` | 1 descendant at a time, subreaper, the parent's clock may fail | `ProcessSafe`: a receipt is a proof, accepted in time, a completion is proven, evidence kept, answered is over; `CallReturns` |
| | `no_adoption` | 1 descendant, no subreaper | the same without a claim of containment |
| `progress_stores` | `control` | 1 pause, 1 cancellation, 3 leases | `OperationsEnd`: a pause is finalized, a resume reaches the local gate |
| `RecoverySafe` | `recovery` | 1 Run, 1 command, 2 owners | the host finishes what a caller left, and its intents go out; meanwhile `RecoverySafe` (two commands compete in the run `control`; the theorem is about any number) |
| | `crowded` | 2 Runs, 2 commands of which one is prepared and cannot be committed, a turn of 1 | the other is finished, unless it is behind as many that are stuck as a turn has |
| | `handoff` | 2 stores, 1 user who writes to originals and successor, 3 interruptions or losses of the successor | a retried hand-over ends, where the originals it has yet to retire are as the snapshot has them |
| | `disposal` | 2 Runs of which one refers to the other, 4 writes, 2 deaths | a disposal ends, unless the registry has moved past its plan before the deletion |
| | `host` | 1 worker and 1 callback that may hang | a bounded stop returns, revocation closes |
| `progress_work` | `settlement` | 2 executions of which 1 is oversized, 1 slot | `WorkSettles`: every outcome that can be read is settled |
| | `lifecycle` | 2 executions of which 1 is refused, delivery one at a time | the others' events are delivered |
| | `closing` | 1 execution, 2 notes, 1 fault | a finished producer gives its slots back |
| | `kernel` | 1 execution, 1 effect, 1 runtime, process isolation, 2 attempts, a retry delay | an accepted execution ends or asks an operator |
| | `results` | 1 result, 1 pump, 1 consumer | every result is delivered or dead-lettered |
| `progress_watch` | `watches` | 2 executions, 2 watches, 1 collector, 3 events | `EndsAreKnown`: each end that is watched is noticed |
| | `notices` | 1 execution, 1 watch, 1 thread of each kind, 3 events, 1 failure | each end reaches the application or a dead row |
| | `stall` | 1 supervisor, 1 notice, 2 faults | notices settle, slots return |
| | `episodes` | 1 service, 2 episodes, 1 fault | silence is told of, episodes register |
| `progress_calls` | `waits` | 2 executions, the parent claimed twice, 1 service, 1 fault | `CallsEnd`: requests close, the child of a revoked attempt is stopped |
| | `nested` | 3 nested calls, capacity 2 | admitted calls return, the third is refused |
| | `observed` | 2 nested calls and an observer, capacity 2 | no deadlock over the capacity |
| | `workflow` | 2 tasks, 1 flusher with batches of 1, 2 commands, failures | `IntentsDelivered` |

Why these bounds are enough. The kernel's rules relate one execution to its own
effects and to the runtimes that hold or held it; no rule relates two executions,
except that one reaping takes several, which the proofs cover for any number.
Two runtimes give a holder and a successor, and each can become the zombie of
the other again and again. Two attempts give one retry and the last attempt. One
order delivered repeatedly gives a decision that arrives in time, late, and twice.
Two effects are needed for the recovery pointer to have somewhere to go. The
orders are the only source of further attempts, so `MaxOrders` makes the model
finite; every renewal and every order moves a revision, and nothing else is
unbounded. `LeaseTicks = 1` distinguishes a live lease, one that expires now (a
result completed at that instant is still timely) and one that has expired.

For the workflow, two flushers give a delivery that overtakes another, at every pair of steps;
the second writes what the first read before it, marks what it has failed, or
cancels what it is submitting. A second attempt needs the first to settle, so it is
a scenario of its own with one flusher and a `Poll` between any two deliveries. Two
tasks give a dependency and independent intents, three commands give set-up, change and
finish. `MaxRetries` is 8 in the code and 1 or 2 here: the last round and one before it.
`MaxRevision` stops the kernel from moving an execution that has not ended for ever;
`MaxFailures` is where the count of failures (and the Run's revision with it) stops
growing, and `MaxTrouble`, smaller in the scenario of `IntentsDelivered`, how many of these need no reason.

For the other modules the same two rules give the bounds. An actor needs one rival: two
operations, holders, services, couriers, operators, and a third only where the property is
about the third (the ring of waits, the nested calls beyond the capacity). What is repeated
is repeated once: a second claim, a second window, a second pause after the first, a
second delivery. Faults are counted (`MaxFaults`, `MaxCrashes`, `MaxFailures`): one is
enough where the property is violated by one death at the worst step, two or three where it
takes a death during the clean-up after another. `MaxVersion`, `MaxWrites`, `MaxRevision`,
`MaxEvents`, `MaxNotes`, `MaxRev`, `MaxFence`, `MaxLease`, `MaxOrders`, `MaxProgress` and `MaxOutput` keep counters
finite that the code never bounds.

### Disagreements

At twelve places the code does otherwise than a comment, a document or a name of the
repository says. The models do what the code does, so none of these statements is among
the properties above, although most are written down beside them in the modules
(named in the table); checked with the bounds of its module, each is violated.

| Statement | What the code does |
|---|---|
| a cancellation fences both stores (`RunControl!CancellationFencesBoth`) | a cancellation that meets a pause between its two barriers is fenced in the kernel at an epoch the local gate has taken already: neither the fence nor the pause can be finished |
| the kernel's barrier follows the local one (`RunDispatch!KernelBarrierFollows`) | an execution of the drain set ends before the kernel registers the set: the kernel's barrier is refused for ever |
| a cancelled row is not an acceptance (`RunDispatch!TombstoneIsNotAcceptance`) | a late flush takes the cancelled row of an execution that was never accepted for its acceptance |
| a child whose caller gave up is stopped (`HandlerChildren!EveryChildIsStopped`) | a caller closes its request after a service has admitted the child, which stays queued for good |
| a child that was answered as absent stays absent (`HandlerChildren!AbsentStaysAbsent`) | a closing service answers "not there" for a child that a stalled service then submits |
| a prepared recovery ends (`RunRecovery!PreparedEnds`) | a recovery whose commit is refused after its lease has lapsed can be neither taken over nor aborted |
| the host finishes every recovery that can be (`RunRecovery!GoodAreFinished` without `Crowded`) | recoveries that cannot be committed keep the host from every later one |
| "Retrying the exact operation_id resumes a fail-closed partial activation" (`storage_activation.py:531`; `StorageHandoff!RetryResumes` with two stores) | a write between the retirements of two originals makes every retry fail |
| nobody opens a successor early (`GateHolds` with directories that may be opened before they are set up, `Prepared` empty) | a process that looked for the read-only marker early opens the successor while it is copied |
| an interrupted disposal can be resumed (`RunDisposal!InterruptedDisposalsResume`) | a write of any Run after the registry's marker and before the deletion makes every retry of a disposal stale |
| a host that was told to stop says so (`RuntimeHost!StopIsShown`) | a stop during the startup is shown as "running" |
| a closed episode is stale (`ToldAndClosedIsStale`, with two services) | a service that registers late revives an episode the journal has closed |

Three of these are liveness, and for them the runs check the statement with its exception spelt out, in instances where the
exception occurs: `GoodAreFinished` and `IntentsGoOut` hold unless the recovery is `Crowded` by others
that are `Stuck`, `HandoffEnds` holds with two stores as long as those not yet retired are in the end left as the
snapshot has them, `DisposalsEnd` holds unless the disposal was `Overtaken`. Two are checked in scenarios that leave
out the event they fail for: `GateHolds` with `Prepared` directories (`races`), `ClosedIsStale` with one service
(`policies`, not `competing`). Of the others the runs check what does hold beside them.

### Fairness

The runs of progress take the fairness of a module as the hypothesis of its
properties (`FairHandoff => Handoff!HandoffEnds`), so that each scenario is judged under its own.

`Settles` assumes: the clock advances; some runtime polls (each claim begins with
the reaping, so `Reap` is fair and, when the row is eligible, `ClaimAndStart`); a
runtime drops an authority that is worth nothing; a killed process ends; the
host resolves the obligation of a process that is gone. It does not assume that a
handler returns, that `complete` is called or that an operator answers: an
execution that waits for an operator counts as settled. Without the host the
property fails by design of the code: a row with an unresolved obligation is
never reaped. No renewal takes place in this run because the runtime never
renews; a handler that renewed for ever would keep its execution for ever.

`Delivered` assumes that both clocks advance, that somebody keeps pumping and
claiming and that a pump which has claimed stores, and acknowledges or stops. It
does not assume that anybody handles or acknowledges.

`IntentsDelivered` assumes that `flush` keeps being called and gets on with what it began, that
a command holds the write lock for moments only, and that processes die again and
again but not for ever. `SF` on `Select` keeps polling from displacing delivery, `SF` on
the flusher's steps covers waits for the write lock. It does not assume that any
execution is worked on or ends. With `MaxRevision` an execution is not
renewed for ever, so a cancellation does not meet a new revision in each of its rounds for
ever; the code sets no limit to that race, and delivers once nobody moves the
execution between a read and the call that follows it.

The other live specifications make the same kind of assumption: threads of the SDK that are
alive go on, clocks advance, callers whose protocol tells them to retry do so, and deaths
and failures are finitely many. In detail:

| Property | Assumed | Not assumed |
|---|---|---|
| `PauseCompletes`, `ResumeCompletes` | the operator repeats `advance`, resume and takeover; `SF` for the takeover in the kernel, whose lease may be taken in between | that the local gate meets no cancellation: a cancelled pause counts as over |
| `GoodAreFinished`, `IntentsGoOut` | the host's turn comes again, leases run out, flushes are called again | that a caller returns, or that every recovery can be committed: what is behind too many that cannot is the exception |
| `EndsAreTold`, `EndsAreNoticed` | the three kinds of threads poll, both clocks advance | that the callback succeeds |
| `EverySettled` | the maintenance of a living process runs, leases end, giving up and deaths stop | that a driver ever comes back from a handler |
| `EventsDelivered`, `ProducersClose` | runtimes keep draining; failures other than of refused executions, and deaths, stop; `SF` because a delivery may get in between | that the journal takes everything |
| `WaitsClose`, `CallsReturn`, `RevokedChildrenEnd` | services reopen and poll, leases lapse, handlers return; `SF` for a service's steps, which a stall suspends | that the caller polls to the end |
| `CallReturns` | parent and revoker run, deadlines pass, a killed process dies | anything of worker, descendants and supervisor |
| `StopCloses`, `CallersReturn` | coordinator, closers and callers run; a handler whose authority is revoked returns | that callbacks or other handlers return |
| `SilenceIsTold`, `EpisodesRegister` | sampler and courier run; `SF` on the clock, which stands still while a sample is under way: the sampler sleeps between samples | that the bridge succeeds, that the handler does anything |
| `NoticesSettle`, `SlotsReturn` | the coordinator, the slots' threads and the reaper run | that a handler succeeds |
| `HandoffEnds` | the operator repeats the activation; the snapshot stays, and the originals not yet retired are in the end unused and unchanged since it (its hypothesis) | that nobody writes to the originals or to the successor in between, or that the successor is not lost before the commit |
| `DisposalsEnd` | the operator repeats the disposal; `SF`, since others may hold the registry | that nothing else is written: a disposal whose plan is overtaken before the deletion is the exception |

## Proofs

`ExecutionKernel_proofs` proves for all constants, from the assumptions that
`OwnerOf` maps effects to executions, that `MaxAttempts` and `LeaseTicks` are
positive, and that `None` is none of the ids:

| Theorem | Statement |
|---|---|
| `TypeCorrect` | `Spec => []TypeOK` |
| `EffectsOwned` | `Spec => []UnfinishedIsOwned` |
| `PointerSound` | `Spec => []RecoveryPointerSound` |
| `OutboxSound` | `Spec => []OutboxMatchesRow` |
| `VerdictFinal` | `Spec => TerminalForever` |

None of the last four is inductive alone: that a new claim leaves no effect
behind needs that queued rows have none, which needs that parking turns every
unfinished effect of the row uncertain and that the pointer is one of them when the
last decision queues the row again. The inductive invariant is
`KernelInv == TypeOK /\ \A e \in Executions : Sound(e)`, where `Sound(e)` says of one execution
that its unfinished effects are owned by the running generation (`Owned`), that a
parked row points at an uncertain effect of its own (`Parked`), that the outbox
matches (`Reported`) and that an ended row has nothing left to count down (`AtRest`,
which `VerdictFinal` needs: otherwise the clock would touch it). The proof has a
lemma per row operation (parking, requeueing, ending, deciding), one per group
of actions, and uses that an action touches one execution (`Same` for the others),
so that no proof reasons about all rows at once. The reaping, which touches many,
is done row by row.

Its second part is about the handlers' effects, and `ledger`, the history of what the
world saw of them:

| Theorem | Statement |
|---|---|
| `OncePerDecision` | `Spec => []AtMostOncePerDecision` |
| `EffectsRemembered` | `Spec => []NoForgottenEffect` |
| `PromiseKept` | `Spec => KeepsPromise`, the refinement of `ExecutionPromise` |

First `StepEvolves`: a step leaves an effect where it is, moves it along its own protocol, grants one
permission (`Granting`), or obeys an order of an operator (`Obeying`). The counting is then an
account of permissions. `LedgerInv` adds to `KernelInv`, for each effect, that the calls made, those still
going on in threads and those a worker is about to make are covered by permissions
(`Permitted`), that there is at most one permission more than decisions that an earlier one
came to nothing, and none more while the row is fresh (`Justified`), and that each such decision uses
up an order whose revision has passed (`Ordered`). The cardinalities are over any number of
workers and orders, so the lemmas of `FiniteSetTheorems` are needed. The refinement maps a row and
its effects to a verdict and to what is known of each effect; every step is one step of the promise
or leaves it as it is.

Its last part settles once what one transaction may make of a row:

| Theorem | Statement |
|---|---|
| `AttemptsBounded` | `Spec => []AttemptBudget` |
| `OneProcess` | `Spec => []SingleProcess` |
| `KernelAlwaysSound` | `Spec => []KernelSound`, all the invariants of the module at once |
| `ViewKept` | `Spec => KeepsView`, the refinement of `KernelView` |
| `CancellationKept` | `Spec => CancellationSticks` |

`StepMoves` says that a row rests, is admitted, claimed, goes on, is requeued, parked, released,
waits on or ends (`Moves`, `Claimed`, `Released`), and the theorems read their part off it. `BudgetInv` adds
that a row that waits for a claim has budget left, counted with the orders that were obeyed or are
too old to be (`Spent`): an order, however often delivered, raises the budget once. `GuardInv` adds that
an invocation with a process, or about to spawn one, has the open obligation and the newest fence of its
execution (`Backed`), and that two invocations of one execution differ in their fence (`Apart`). For
`ViewKept`, the target of a recovery is recorded exactly while the row is parked (`Regular`).

`KernelClock_proofs` proves `ClockType`, `RefusalIsFinal`, `LeasesCountDown` and
`AdmissionsInTime`. `ClockInv` adds to the two invariants what the open transaction sees
(`View`): its mark is not below the committed watermark, its leases are the committed
ones except for what it did itself, and a lease it is about to refuse is expired
at its mark. It is what makes a rollback that keeps the watermark sufficient.

`ResultDelivery_proofs` proves `QueuesTyped`, `AckedIsStored`, `DeliveredIsHandled` and
`DeliveredIsFinal`, for any number of results, pumps and consumers. What an operation may
make of a row is settled once per operation (`Evolves`: a row never vanishes, a
delivered row stays as it is), so that an action of either queue only has to say
which operation each row went through. `QueueInv` adds to the two invariants that a
pump past its local commit has a result that is stored, which is why its death
before the acknowledgement loses nothing, and that a delivered row counts nothing
down, without which the clock would change it.

`RunControl_proofs` is about the two gates of a managed Run, for any pauses, cancellations and
number of leases:

| Theorem | Statement |
|---|---|
| `GatesNeverPart` | `Spec => []GatesAgree` |
| `GatesMoveSafely` | `Spec => [][...]_vars`: no resume under a lease that was taken over, the local gate opens only by the resume of its revision, at the kernel's open gate and over no recorded cancellation |

No conjunct of `GatesAgree` is inductive, since each gate moves on what a caller read of the other store
some time ago. `ControlInv` has four parts. `Journal` orders what both stores have recorded of one
operation and `Witnessed` says what a slow caller may have seen of it: what was seen is on record still.
`GatesInv` says where both gates are: at the place the records of the one unfinished operation say
(`AtLocalGate`, `AtKernelGate`), or agreed when there is none. `CancelInv` ties the fences of the kernel to the
epochs the cancellations were recorded at, and `LeaseInv` orders who an activation or a resume was
handed to. A proof step takes one action and one part.

`Workflow_proofs` is about a Run and its flushers, for any tasks, waits, lists of operations,
subscriptions and flushers, and any limits and bounds:

| Theorem | Statement |
|---|---|
| `TasksInOrder` | `Spec => []WorkInOrder` |
| `ProjectionsNeverRegress` | `Spec => NeverRegresses` |
| `CommandsAlwaysHold` | `Spec => []CommandsHold` |

Nothing of `WorkInOrder` is inductive: the Run says what was projected, the kernel has gone on since, and
what a flusher does next depends on what it read before. `WorkInv` says three things. `RunSound(view, outbox, run)`
ties each attempt to the intents for it and to the kernel's row: what has ended in the Run, was superseded or
belongs to a finished Run is at rest (`Rested`), nothing is asked for an attempt that was not dispatched. The
same is said of the private copy of a command under way with the outbox it is *going to* leave, which is
why a commit cannot break what no single operation breaks. And `CallerSound` says that what a flusher has read still
counts: an execution it saw is there still, one it saw ended has ended, one it cancelled will not run.
An action of a flusher touches one caller, one row and one message, each with a lemma of its own; `ReduceSound`
settles the eight operations.

`CommandInv` adds why commands hold. `Carries` relates dispatched attempts and intents one to one.
A refusal is final because a revision never comes back, an accepted id stays taken, a cursor does not go back, and,
for a command that was rolled back (`Doomed`), because its operations fail again on the same Run: `Reached` says that
the private copy is the only one to be reached from the committed Run, so the same operation is impossible
each time until the revision moves. The events consumed by the accepted commands of a subscription are
intervals that meet at the cursors (`EventsConsumedOnce`).

`RunRecovery_proofs` proves `RecoveriesAreSafe`, `Spec => []RecoverySafe`, for any Runs, any finite set of
reopen commands and any owners. `RecoveryAssumption` (a command is for one Run, the host is an owner, the
bounds are natural numbers) is a hypothesis of the theorem, and TLC evaluates it for the instances that are
checked. `RecoveryInv` adds what the parts of `RecoverySafe` need of each other. A flush may hold a batch it
read before the Run was prepared; that it delivers nothing of an older generation needs that a message which
was marked is one the kernel took (`BatchIsOld`), so that the delivery finds its execution and only
marks it. Until the commit, the facts read at the preparation stay settled (`PreparedIsClear`); a settled
task stays settled under every step of a flush, a pump or a runtime (`TaskStep`), which is one lemma for eleven
actions. `OneActive` and `Counted` say `OneDecisionEach` in the form the counting needs: a commit moves
one command into the set of decisions and the Run one generation on, and there is room for it (`RoomForAnother`).

`SettlementJournal_proofs` is about what becomes of an outcome, for any executions, processes and drivers, any
capacity and any bounds:

| Theorem | Statement |
|---|---|
| `OutcomesAreSafe` | `Spec => []SettlementSafe` |
| `OneResultForGood` | `Spec => OneResultEach` |

Four parties write about one generation: its driver, the maintenance of any process, the kernel, and a crash. `SettlementInv`
says what each may rely on without looking again. `KeySound` is about what is on record: nothing before the claim, an
outcome in the memory of at most one process, an accepted result only of a generation that runs no more.
`DriverSound` and `MaintenanceSound` are about what a driver and a maintenance have done or are about to write:
an acceptance that was seen stays the one of that key, a generation that was found ended does not run again.
`DriversApart` says that two drivers never have the same claim, so that what one retains and releases is its own, and
`SlotsSound` is `SlotsExact` with the finiteness that counting needs. `Keeps` is the part of it all that no
step undoes; a step of a driver then has to be judged by its one key (`DriverWrites`), one of a maintenance
by its one receipt (`WriteStep`). A crash makes what was only in memory `lost`, and touches nothing that is on record.
A maintenance holds the record it read, which others may have settled or given a time since; that it publishes no second
result needs that a result once on record never changes, so that the one read, if any, is the one there, and that what
was read without one is outdated as soon as there is one, which the comparison of revisions sees (`Fresh`).
`SettlementAssumption` (drivers have a home, a process is not called `driver`, positive bounds) is a hypothesis of both.

`RunDisposal_proofs` proves `DisposalsAreSafe`, `Spec => DisposalSafe`, for any Runs, operators and bounds; that
references are pairs of Runs (`DisposalAssumption`) is its hypothesis. What a disposal found free when it planned must
be free when it deletes, after a commit in another database and perhaps a crash and a retry. `DisposalInv` says why.
An operator between two commits holds the marker of its Run, under an operation no other has (`OperationIsOne`),
and the Run is as the plan said until that operator deletes it (`Underway`), because it alone holds the store's
write lock (`OneHolder`). From the marker on the registry is closed and nothing refers to the Run
(`Sealed`): a reference is entered between active Runs only, so the other locks of the registry may come and go.
A tombstone the registry does not know of is the one the marker announces (`Agrees`), which is
what makes the settlement by a retry right.

Each strengthened invariant was checked by TLC before it was proved.

Only model-checked: the modules from `RunDispatch` to `HistoryRetention` except `RunRecovery` and `SettlementJournal`, liveness (out of the
prover's reach, as `ENABLED` is), and the counting `DeliveryBudget` of the queues. What `InstancesSound`
and `InstancesAgree` check of further instances of `ExecutionKernel` and `RunControl` is proved of every
instance; of `RunDispatch` it is checked.

## Plan

In order of importance. The invariants marked (P) are meant to be proved.

1. `HistoryRetention`: `NoEventSkipped` (P), `OnlyWhatWasPlanned` (P).
2. `RunDispatch` on top of `ControlInv`: that its steps keep it, then the drain set (P).
3. `SettlementJournal` composed with `ExecutionKernel`; several Runs in `Workflow`.
4. The execution journal (`observability/journal.py`) and the activity log: segments, cursors, loss markers.
5. The schema steps of an upgrade (`storage_migration.py`), crash at each.
6. `managed.py` with both stores in one database; external projections.

## Not modelled

`PROJECT.json` lists every component. Left out entirely: workflow projections and
diagnostics (read-only views), schema and serialization (table definitions and
encodings), the application facade (it delegates). Of components that are modelled in part:

- **execution kernel**: the managed gate, lifecycle reservations and budget samples inside its
  transactions are in `RunDispatch`, `LifecycleOutbox` and not in `ExecutionKernel`;
- **budget clock**: samples, checkpoints, cutoffs and their guards (`budget.py`, `budget_capture.py`,
  `completion_clock.py`); `KernelClock` has the deadline of an admission, `ProcessHandler` the two
  deadlines of an entry;
- **observability**: the journal's segments and the activity log;
- **managed revisions**: the validation of revision documents, streamed content and external projections,
  and the variant in one store;
- **storage**: the schema steps of an upgrade, the measurement of space;
- **platform**: the Windows runtime, sandboxes and script adapters, which cannot run where
  the modelled POSIX supervisor does.

Two hazards have no property. Notes of an execution are appended in order, so one that
cannot get a slot while open producers hold them all keeps the notes of its own producer
behind it (`runtime.py:1142`): nothing in the code promises that this ends, and
`ProducersClose` is checked with slots to spare. A subscription without a row starts at
cursor 0, which a retention may have expired; `observe` and `acknowledge_events` refuse it from
then on (`store.py:475`), which the documentation says of `observe`, and no operation
moves it past the boundary.
