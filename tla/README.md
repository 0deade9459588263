# Verification of atomic's durable workflows

TLA+ models, TLC runs and TLAPS proofs of the part of atomic that has to survive
crashes and races: the journals a workflow run is recorded in, the backend that
writes them, the tool that moves runs between them, the queue from which pooled
child workflows are handed to worker processes, and the coordinator and workers
around that queue. `workflows/` stands for `src/packages/workflows/src/`,
`storage/` for `src/packages/coding-agent/src/core/storage/`.

## The system

atomic is a coding agent in TypeScript with some Rust. Its parts:

- **Agent** (`packages/coding-agent`, `packages/ai`): the CLI, agent sessions,
  compaction, tools, task supervisor, session storage, model providers.
- **Workflows** (`packages/workflows`): an engine runs a user-written workflow,
  records each step durably, and replays the recorded steps on resume.
- **Durable journals** (`workflows/durable/journal`, `storage/`): an event log per
  run, with an epoch lease that says which process may write it; in SQL, in memory,
  or spread over shards that a catalog lists.
- **Worker pool** (`workflows/workers`): a root run places child workflows on worker
  processes. A coordinator owns the pool; a queue in SQL tables holds the children,
  their attempts, operations, results and sessions.
- **Intercom, subagents, MCP, web access, native helpers**: messaging between
  sessions, child agents, adapters and operating-system services.

How the modelled parts interact. A process takes its run's lease (a new *epoch*)
through a backend, which runs the operations on a run one after the other and renews
the lease. The root's coordinator opens the queue under that lease, deals with
children earlier incarnations left leased, and enqueues children for the root.
Workers ask for work through request lanes; a claim takes a place of the pool and
raises the child's *generation*. The attempt commits checkpoints and session
entries, straight into the journal's event table or, when the journal is in another
database, through an outbox, and ends with a result. Attempts that wait give their
place back. Pause and quit reach workers as control revisions. Workers exit, leases
lapse, roots are taken over; the coordinator then reaps process groups and releases
the child for another attempt. Finished runs may be moved between journal files
(consolidation) while resumes and readers use them.

`components` in `PROJECT.json` is the full inventory with what is left out.

## Modules

| Module | Models |
| --- | --- |
| `JournalValues` | leases, events and entries of `storage/run-journal.ts`, and their bounds |
| `FencedLog` | what `interface RunJournal` promises: a log with one writer at a time |
| `RunJournal` | `sql-run-journal.ts`, `lease-expiry.ts` |
| `MemoryJournal` | `memory-run-journal.ts` |
| `JournalPair` | both journals called in lockstep, as `JournalDurableBackend` may use either |
| `JournalBackend` | `journal-backend.ts` over `RunJournal`: two processes, one run |
| `Consolidation` | `storage/journal-adoption.ts`, `journal-catalog.ts`, `sharded-run-journal.ts` |
| `PoolQueue` | `sql-pool-queue.ts` and the sessions of `pool-mutations.ts`, over `RunJournal` |
| `PoolCoordinator` | `pool-coordinator.ts`, over `PoolQueue` |
| `PoolOutbox` | commits to a journal in another database: `pool-remote-journal.ts`, `sql-pool-queue.ts` |
| `PoolPlaces` | `waiting-workers.ts` with the coordinator's and workers' side of it |
| `RequestLanes` | `worker-request-lanes.ts` |
| `PoolControl` | control row, pushes and replies: `worker-control.ts`, `local-worker.ts` |
| `*Proofs` | theorems about the module they are named after (`PoolTablesProofs`: `PoolQueue`) |
| `MC*` | small instances for TLC |

Definitions named "a variant ..." are deliberately wrong forms of a later definition.
No specification uses them; they show that a property can fail.

**RunJournal.** One run: `header` and `status` (the runs row), `log`, `lease` (the
lease row) and `granted`, every lease ever answered. Each method is one transaction
and one action. Any lease in `granted` may call at any time, which covers slow,
retried and superseded holders; a refused call is a stuttering step. `appendMany` has
its two forms, `SavepointBatch` and `RequestBatch`, for batches of two. Time is one
bit: the takeover window has passed.

**MemoryJournal** is the same interface over maps; **JournalPair** makes every call of
both. The backend appends a batch one by one to the in-memory journal (`appendEach`).

**JournalBackend.** A backend's operations wait in one queue per run; an operation
yields at every journal call, so it is several steps: a look at the log, ownership, a
second look, the write. Renewals, releases of retired executions, the pool's appends
under the same lease, journal faults and closing interleave with them. An execution
started while another's release is queued inherits the lease, loses it to that
release, and takes it again with its next operation.

**Consolidation.** Every await of a consolidation is a step: list, fence, copy, check,
repoint, discard, settle, and the recovery of interrupted moves. The two files and the
catalog are separate databases. Consolidations stop anywhere, overlap, or find a shard
unavailable; resumes and readers find the run through the catalog or a cached location.

**PoolQueue.** Rows, results, stored operations with receipts, sessions and usage.
`placing` holds claims a worker host has not handed over, `handed` those it has; a late
call of any attempt comes from `handed`. `Record` is the queue's own insert into the
journal's event table. A session entry is the (generation, operation) that wrote it.

**PoolCoordinator.** The coordinator's memory (lost in `Prepare`) and `groups`: attempts
with processes nobody has reaped or seen gone, which survive a crash. Steps that await
in between are separate: start-up is `Prepare`, `ReleasePrevious`, `Open`; the exit
clean-up `ExitReaped`, `ExitSettles`, `ExitReports`; the release of a retained attempt
`BeginRelease`, `FinishRelease` (or `FailRelease`); recovery decides (`RecoverDecides`)
and acts later. Assumed: a run that completes or reports itself fenced has ended its
processes; reaping ends a group or reports it; the pool is not shared between hosts;
`Close` starts after the clean-ups; a superseded coordinator is left out, because
`authority` refuses each of its calls.

**PoolOutbox.** Every local transaction and every journal call is a step. Coordinators
are numbered by epoch; they overlap or follow a crash; journal calls get lost. The
local tables decide by a copy of the journal's lease that may be old.

**PoolPlaces, RequestLanes, PoolControl.** Places, the reserve of extra workers and the
attempts' side of both; promises of the lanes as the sets of requests they wait for;
control revisions with pushes that overtake replies.

## Runs

`tlc -config <cfg> <module>`; state counts are distinct states. All pass except the last.

| Run | Configuration | Question | States |
| --- | --- | --- | --- |
| `journals` | `MCJournalPair.cfg` | Can old holders, retries, deletion, seeds, batches or counter limits disturb a log, its status or its epochs? Do both journals implement the abstract log, and ever differ? | 72,756 |
| `attempts` | `MCPoolAttempts.cfg` | Are attempts kept apart although a generation can be given back? Is each queue step one the journal allows? | 290,447 |
| `sessions` | `MCPoolSessions.cfg` | With two children and a session both may claim, are entries stored once, in order, by their owner? | 564,472 |
| `coordinator` | `MCPoolCoordinator.cfg` | Is a child replayed beside its old processes, run without being asked for, or its enqueue lost? | 1,220,184 |
| `settles` | `MCPoolSettles.cfg` | Is every child a stable root asked for settled in the end? | 182,256 |
| `places` | `MCPoolPlaces.cfg` | Do attempts run beyond the places, or wait beside a free one? Does a woken attempt get its place? | 98,565 |
| `lanes` | `MCRequestLanes.cfg` | Do barriers run alone and sequences in order, and does every request start? | 98,549 |
| `outbox` | `MCPoolOutbox.cfg` | Is every accepted event recorded, and every receipt and result true, across crashes and lost calls? | 173,214 |
| `control` | `MCPoolControl.cfg` | Is a newer control ever undone? Do workers come to follow the row? | 356,826 |
| `backend` | `MCJournalBackend.cfg` | Does a projection follow the log, is a run given up only when refused, are leases released? | 278,205 |
| `consolidate` | `MCConsolidation.cfg` | Does a move, interrupted or disturbed, lose events, leases, epochs or the run itself? | about 420,000 |
| `failures` | `MCPoolFailures.cfg` | Is a child reported failed never claimable? *(violated)* | |

A property whose name ends in `Sound` conjoins a module's type invariant with
invariants that are also stated one by one in the module.

**Bounds.** `MaxEpoch` and `MaxSeq` stand for the largest safe integer, where the code
refuses the next value, so reaching them is itself a case. Two or three epochs give an
incarnation, its successor and a call late by two. A generation bound of two to four
gives a replaced attempt and its successor in one or two incarnations. Two workers are
enough for "same worker" and "another worker"; in the queue children meet only in the
sessions, hence two children there. The coordinator's runs have one child, so what two
children do to each other there is not model-checked. `AttemptLimit` is 2 where the
code has 3. `places` has one place and three slots; `lanes` four requests; `control`
one worker and two control changes. Some modules choose a *load* at the start, so one
run covers several instances: two overlapping coordinators, or three in a row with a
crash and a lost call (`outbox`); transitions, registrations, faults, or two
executions and a close (`backend`); overlapping consolidations, consolidations in a
row with two resumes and a fault, or one with a reader (`consolidate`). Deadlock is not
checked: at the bounds, and after `close`, nothing need happen.

**Symmetry** is used in runs without fairness only, for workers, payloads, children,
holders, statuses, consolidations and resumes.

**Fairness** is weak and on the program's own steps. `settles`: idle workers ask,
attempts and process groups end, clocks run, clean-ups, reaper and recovery go on;
none for the root, so `AskedIsSettled` is conditional on one incarnation that stays
open and renews in time. `places`: the coordinator handles messages, started workers
become ready, attempts with a place end or wait. `lanes`: a request that may start
starts, and all but detached ones settle. `outbox`: coordinators go on with claims,
recovery and deliveries, attempts with commits. `control`: requests are answered and
pushes arrive. `backend`: journal calls are answered. The code runs these as promise
chains, message handlers and intervals; that workflows end is an assumption.

## Disagreements with the source's comments

Found in the models; none was reproduced by running the program. The first is the run
`failures`. The others are properties of their modules and can be reproduced with the
constants given.

1. `FailedIsNotClaimable`. The exit clean-up stops holding its child
   (`pool-coordinator.ts:2287`) before it settles the row (2316). Recovery may make a
   lapsed row ready in between; the child is then reported failed while its row can be
   claimed. Comment at 2308: "so no worker claims it again".
2. `EnqueueOutlivesFault` (`MCPoolCoordinator.cfg`). `releaseRetained` deletes its record
   before its queue call (1023); if that call fails, recovery releases the attempt as if
   the root had not enqueued the child. Comment at 687: "an enqueue is never lost".
3. `PlacesBelongToWorkers` (`MCPoolPlaces.cfg`). A claim or place message handled after
   its worker's exit (2468, 1272) takes a place nobody frees, so `WokenGetPlace` is about
   pools none of whose workers died. `waiting-workers.ts:83`: "Attempts and claims that
   hold a place now."
4. `AcceptedReachesJournal` (`MCPoolOutbox.cfg`). A claim looks at the outbox before its
   transaction is requested (`sql-pool-queue.ts:780`), so a replacement can record another
   value under the key of an accepted event. Comment at 990: "never has an accepted event
   the journal will not get".
5. `LostOnlyWhenGranted` (`MCPoolOutbox.cfg`). `mirror` writes a lease it read before a
   take-over (`pool-remote-journal.ts:56`), and the new coordinator gives up a lease it
   still has. `sql-pool-queue.ts:364`: "released, or granted to another holder or epoch".
6. `AcknowledgedPauseHolds` (`MCPoolControl.cfg`). A worker starts its child under the
   state of the reply it asked for, not of the newest revision (`local-worker.ts:629`).
   Its stages still wait at their budget check. `worker-control.ts:14`: "a stale reply
   never undoes a newer push".
7. `LosesNothing` with two overlapping consolidations and a resume
   (`Load(2, 1, 0, TRUE, 0, 0)`). The first one's fence expires after it copied, and a
   resume takes and releases the journal's lease. The second finds the first one's copy
   in the shard, leaves it and its lease as they are (`journal-adoption.ts:612`),
   repoints and deletes the journal's copy. The first, which saw the resume, then deletes
   the shard's copy, still its own (1050). Comment at 770: "overlapping consolidations ...
   lose nothing". With overlap, `CatalogHoldsRun` and `EpochsSurviveMoves` also fail,
   hence the condition of the three.
8. `RecoveryShowsAll` (`MCConsolidation.cfg`). A resume takes and releases the expired
   fence of an interrupted move without writing; nothing then marks the shorter copy
   (951). `docs/storage.md:139`: "run it again to finish or undo the move".
9. `FenceIsLifted` (`MCConsolidation.cfg`). After a crash between 817 and 826 no fence is
   left where a rerun looks (975). Comment at 964: "the fence it left there is lifted".
10. `ReadsNeverShort` with two consolidations and a reader. A move undone and made again
    between a page and the catalog look-up ends the read short
    (`sharded-run-journal.ts:646`). Comment at 631: "never a short read".

## Proofs

`tlapm <module>` checks them. They assume only the named assumptions on constants:
marks such as `Unheld` and `None` differ from real values, holders of different kinds have
different names, limits are naturals, event keys are those of children's starts and
checkpoints, and a pool can be set to run.

- **Abstract log** (`FencedLogProofs`): writers in order, keys once.
- **SQL journal** (`RunJournalProofs`). `JournalInv`: types; every granted epoch, and every
  epoch in the log, is at most the lease row's; an epoch has one holder; a held run
  exists; the log is ordered, without repeated keys, and agrees with the status. No
  property is inductive alone: a new epoch is fresh only because the row bounds all
  earlier ones, and deletion keeps the row. Proved: `JournalSound`, the action
  properties, and `Spec => IsFencedLog` step by step.
- **In-memory journal** (`MemoryJournalProofs`): the same refinement from `MemoryInv`.
- **Queue** (`PoolQueueProofs`). `CoreInv` adds `ClaimInv`: placed and handed claims are
  disjoint, their generations are between 1 and their row's, their epochs at most the
  lease's, and a child and a generation name one claim. That is why `releaseUnplaced` is
  harmless. Proved: `AttemptsDistinct`, `RunsItsDescriptor` (with `DescribedInv`), and
  `PoolSpec => JournalSpec`, so the journal's theorems hold of a journal the queue writes
  into.
- **Tables** (`PoolTablesProofs`). `TableInv` adds that a stored operation belongs to a
  handed attempt, a usage row to a checkpoint in the log, and that a session without an
  owner is empty. Proved: `TablesSound`, `SessionsSound`, `ReplacedAttemptsAreFenced`,
  `ResultsStay`.
- **Coordinator** (`PoolCoordinatorProofs`), for any number of children, workers and
  incarnations. First `CoordSpec => PoolSpec`: every step is one the queue allows, so the
  queue's theorems hold under the coordinator. Then `CoordInv`: an attempt with process
  groups is current, is in a slot or a clean-up that has not reaped it, and nobody is about
  to release it (`GroupInv`); a row of the coordinator's epoch was asked for (`RowInv`);
  every row leased by an earlier incarnation has a record that knows of an enqueue, in
  `retained` or in the release in progress (`RetainInv`). None of these is inductive
  alone: recovery releases only what `GroupInv` says has no groups, and an enqueue is kept
  because the record moves to the release before the queue is called. Proved:
  `CoordSound`, `NoReplayAlongside`, `EnqueueNotLost`.
- **Request lanes** (`RequestLanesProofs`). `LaneInv` relates each promise chain to the
  requests behind it: a request waits, directly or through an earlier one, for everything
  its lane must follow. Proved: `LanesSound`, `BarrierRunsAlone`.
- **Consolidation** (`ConsolidationProofs`), for any number of consolidations, resumes and
  reads and any load. `Invariant` holds whatever overlaps: a write lock is held exactly at
  the awaits inside its transaction, a row without a run has no holder, and no resume
  holds the shard's copy once `returnToSource` has looked, because its lock keeps it so.
  That gives `ResumeLeaseKept`. `Alone` says, for each await, what a consolidation that
  runs alone knows when it gets there: where the catalog points, which file holds the
  run, whose fences are left, and, at the awaits before a copy is deleted, that the other
  file has all of it as long as the lease is still the one the code compares (`Covered`).
  `EventsKept` and `CatalogHoldsRun` are not inductive: each step is safe only because of
  what earlier awaits saw and nobody but a resume, which changes the lease, could undo.
  Proved: `EventsKept`, `MovesSound`, `ResumeLeaseKept`.

**Only model-checked.** Liveness (beyond the prover). `JournalsAgree`, whose lockstep is
written with `ENABLED`. `FailedIsNotClaimable`, which does not hold. Of `Consolidation`,
`RecoveryShowsFenced` and `ReadsAreWhole`, which are about whole executions of a rerun and
of a read and would need an invariant for each of their awaits. All of `PoolPlaces`,
`PoolOutbox`, `PoolControl` and `JournalBackend`.

`PoolQueue` shares the journal's variables, so its refinement mapping is the identity;
what is shown is that the queue's own SQL respects the journal's rules. It has no
deletion of the run: its results are about one life of a run.

## Not modelled, and the plan

The modelled files are the durable core. They are a small part of the repository (the
map covers under one percent of all its source lines, most of which are user
interface, model providers, scripts and tests' helpers), and a good part of the core
files themselves. In order of value, the plan is:

1. the usage ledger and its totals; stage inputs, stage leases and worker hosts of a
   shared pool; process permits, quarantine and reconciliation, replacing `groups`;
2. conversion of legacy tables; `AttemptLeaseExtensions`; deletion of a run while it
   moves; batching and pending-stage encoding in the backend;
3. run claims, forks, durable primitives and prompts above the journal;
4. session stores, intercom leases and asks, the task supervisor;
5. the in-process state machines: stage runner, queued messages, quit and resume.

Left out for good: terminal UI, configuration, model providers, adapters, native file
search and terminals (I/O and presentation), and the topology rules of a checkpoint,
whose only effect here is that a request fails and writes nothing.
