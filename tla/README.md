# beads in TLA+

`bd` (beads) is an issue tracker for coding agents.  Many processes, often on
several machines, work on one Dolt database: they claim issues, keep the claims
alive, close, reopen, import and delete issues, and follow what others do
through a journal of events.  What makes this hard is that Dolt has no row
locks.  A write transaction works on the snapshot it began with, and its cells
are merged into whatever has been committed since; the only thing that keeps two
sessions apart is a *conflict*, two different values for one cell.  Correctness
is therefore a matter of which cells each operation writes, which no test of one
operation can see.  These modules model that.

Paths below are relative to `src/`; `issueops/` is `internal/storage/issueops/`.

## 1. Inventory

| part | state | operations | what is hard | what must hold |
|---|---|---|---|---|
| claims and leases (`issueops/claim.go`, `unclaim.go`, `lease.go`, `identity.go`) | `issues.status, assignee, row_lock`; table `leases` | claim, ready-claim, unclaim, conditional unclaim, heartbeat, reclaim, lease restore | a lease lives in another table than its claim; heartbeats write no cell of the issue | a lease never outlives its claim; one winner per claim; a renewed lease is never reclaimed |
| issue lifecycle (`issueops/close.go`, `reopen.go`, `update.go`, `wake_defers.go`, `create.go`, `delete.go`) | the same rows, `closed_at` | close, reopen, wake, update, create/import, delete | cells of one row merged from two sessions; several rows in one transaction | rows are not torn; `row_lock` is a sound row version |
| write transactions (`internal/storage/dolt/store.go`) | snapshot, working set | begin, commit, roll back, replay | replay of what may have landed | concurrent commits equal some serial order |
| events journal (`issueops/journal.go`, `journal_prune.go`, `cmd/bd/events.go`) | `bd_events_journal`, `bd_events_seq` | record, prune, read, two self-heals | equal counter increments merge without conflict; prune under a reader; restored counters | seqs gapless, commit-ordered, never reused; no silent loss |
| automatic retention (`internal/eventsjournal/autoprune.go`, `issueops/journal_autoprune.go`) | the watermark in `local_metadata` | due check, stamp, bound, batches, ticker | several transactions per pass, several processes, broken clocks, death in between | floors are kept, the journal stays a suffix, retention catches up |
| `events:watch` (`internal/httpapi/events_watch.go`, `server.go`) | stream count, slot semaphore, per-stream cursor | admit, read, write, poll, truncate, exit, shut down | reconnects overlap the old handler; saturation; shutdown | in order, each once, everything arrives; counts are exact; shutdown drains |
| blocked state (`issueops/blocked*.go`, `store.go` recheck) | `is_blocked` | recompute in every status change, recheck after commit | derived state written by racing transactions | eventually equals what the dependencies say |
| Dolt publication (`internal/storage/dolt/ephemeral_routing.go`, `issue_operations_tx.go`) | staged and committed roots | `DOLT_ADD`, `DOLT_COMMIT` in or after the transaction | staging an old root reverts newer rows | no committed row is reverted |
| delete fence (`internal/storage/dolt/delete_fence.go`) | a named lock | guarded delete | two equal deletes merge | one deleter is told it deleted |
| circuit breaker (`internal/storage/dolt/circuit.go`) | a file shared by processes | allow, record success, record failure | read-modify-write across processes | opens after enough failures, closes again |
| large-apply slot, drain (`internal/httpapi/server.go`) | one slot, one waiter, a deadline | acquire, admit, release, drain | slot won as shutdown begins | drain waits for what it was sized for |
| dependencies, batches, merge slot | edges, several rows | add, remove, batch apply | cycle checks on a snapshot | the graph stays acyclic |
| everything else: server lifecycle, proxy, sync, graph store, molecules, compaction, trackers, HTTP, CLI | | | mostly I/O, adapters or sequential code | |

`PROJECT.json` lists every part with its sources and status, and the hazards at
their lines.

## 2. Modules

| module | models |
|---|---|
| `DoltCells` | the merge, for a cell, a row and a table.  External: stated from how `issueops/lease.go` and `engdocs/design/dolt-concurrency.md` rely on it |
| `LeaseOps` | the lifecycle operations as functions from tables to tables |
| `LeaseStore` | the abstract store: the operations one at a time |
| `LeaseTx` | the store as it runs: each operation on a snapshot, merged at commit |
| `LeaseTies` | `LeaseTx` and the import of equal-timestamp snapshots |
| `JournalOps` | the statements on the two journal tables as functions |
| `Journal` | writers, prunes and tailing consumers over `JournalOps` |
| `JournalRestore` | `Journal` and damage to the counter row |
| `AutoPrune` | retention passes over `JournalOps` |
| `EventsWatch` | the stream, over a journal that is a suffix of history |
| `BlockedOps` | the computation of `is_blocked`, the sets of rows a write recomputes, and the contract for the flag |
| `Blocked` | the writes that move the flag, on snapshots, and the recheck after the commit |
| `Circuit` | the circuit breaker's state and what each call makes of it |
| `WriteTx` | one write from its caller's side: breaker, retries, commit, publication, delete fence |
| `GracefulStop` | what a stopping server promises a large apply (abstract) |
| `LargeApply` | both admission limits, the large slot, its queue and the drain |
| `LeaseTxProofs` | proofs about `LeaseTx` and `LeaseTies` |
| `JournalProofs` | proofs about `Journal` and `JournalRestore` |
| `AutoPruneProofs`, `EventsWatchProofs`, `BlockedOpsProofs`, `BlockedProofs`, `WriteTxProofs`, `LargeApplyProofs` | proofs about the module each is named after |
| `MC*` | symmetry sets, start states and definitions for TLC |

They compose along what the code shares.  `DoltCells` is under the leases,
the journal and the blocked flags.  `JournalOps` is under `Journal` and `AutoPrune`, since the
automatic and the manual prune share `ComputeEventsPruneWhere`.  `EventsWatch`
takes the journal to be the seqs `floor .. head`, which is what
`Journal!RetainedSuffix` establishes.  `WriteTx` runs the breaker of `Circuit`
inside every write, and `LargeApply` implements `GracefulStop`.

### Claims and leases

`db` holds two tables.  An issue row keeps `status`, `assignee`, `closed_at`
(set or not) and `row_lock`; a lease row keeps `holder`, `expires` and
`granted_node`.  `tx[s]` is the open transaction of a session: its snapshot and
the time it began.  What an operation does depends only on its snapshot and on
the clock, so the operation is chosen when it commits: `TxClaim(s)` is
`claimIssueInTx` run on `tx[s].snap` followed by the merge.  `Rollback` is a
refusal, an error, a conflict or the death of the process; a replay by
`withRetryTx` is a `Rollback` and a new `Begin`.

| code | action |
|---|---|
| `claimIssueInTx`, `ClaimReadyIssueInTx` | `TxClaim`, `TxClaimReady` |
| `UnclaimIssueInTx`, `UnclaimIssueIfAssigneeInTx` | `TxUnclaim`, `TxUnclaimIfAssignee` |
| `RenewLeaseInTx`: both refresh paths, the re-arm, the refusal that deletes an orphan | `TxRefresh`, `TxRearm`, `TxDropOrphan` |
| `ReclaimExpiredLeasesInTx` | `TxReclaim` (all selected issues in one transaction) |
| `closeIssueInTx` behind `CheckClosable` | `TxClose` |
| `reopenIssueInTx`, `WakeExpiredDefersInTx` | `TxReopen`, `TxWake` (all woken issues in one transaction) |
| `updateIssueInTx` with `ManageLeaseOnUpdate`, `ManageClosedAt` | `TxUpdate` |
| `CreateIssueInTx` with `RestoreLeaseOnImportInTx` | `TxImport`; `TxImportTie` when the stored row is kept |
| `DeleteIssueInTx` | `TxDelete` |

Abstractions.  "deferred" stands for every built-in status that is neither
claimable nor done; the defer date is a choice of which deferred issues wake.
`granted_at`, `heartbeat_at` and the other columns of an issue are left out: no
guard reads them.  The reclaim filter and the ready query are a choice among
eligible issues.  The template guard of a close, wisps (never leased) and the
audit events are left out; the pin guard and the close policy are in `Blocked`.  `freshRowLock` draws 63
random bits; two draws are taken never to coincide.  The journal and versioned
history are taken to be off, as they are by default (`internal/config/config.go:243`);
with the journal on, two writers also conflict on its rows, which only removes
behaviours.  Batch creation and deletion are modelled one issue at a time.
Writes end here at the SQL commit; what comes before and after it is `WriteTx`.

### Events journal

`journal` is the set of rows, `counter` the one cell of `bd_events_seq`.  A
transaction keeps both as its snapshot shows them and as it has left them, so
that several records of one transaction, and the heals inside it, are steps of
their own (`Emit`).  `hist` is a history variable: every record in the order in
which it committed.  A consumer reads a page (`Read`), moves its cursor, and on
a truncation error notes the named range as lost and resumes at `floor - 1`, as
the error tells it to.  Two transactions are taken never to insert identical
rows, since a row carries the state of the issue it is about; two deletes of one
issue that merged into one could be an exception.  `JournalRestore` changes the
counter while no transaction is open.

### Automatic retention

A pass is four kinds of transactions: `CheckDue`, `Stamp`, `ResolveBound`,
`DeleteBatch`.  Each is one step, and `Fail` may end a pass between any two.
Time is kept as ages which stop growing when they no longer matter, so that runs
are infinite; a pass is over within its 30-second budget, so at most one tick
falls inside it.

### Stream

A connection is a handler and a wire: `since` is how far the handler has
written, `got` how far the client has received.  A broken connection loses the
difference.  The handler does not notice at once, and the client may already be
back on another connection.

`Serve` closes `s.closing` first and the listener later, and `admitWatchStream` looks at
neither.  `Connect` is therefore possible at any time, also after `Shutdown`; the
stream admitted then ends at its first wait.  A `select` that finds the poll timer
and `s.closing` ready together is taken to leave: with the other choice the handler
reads one more page and comes back to the same `select` with a fresh timer.

### Blocked state

`db` holds statuses, flags and dependency rows; `tx[s]` a snapshot; `pending[s]`
what the session has yet to recheck.  Cells that receive a fresh random value
with every write (`row_lock`, and the coordination cell of
`dependency_coordination.go`) are not stored: a transaction keeps the set of them
that others rewrote since its snapshot.  `RecomputeIsBlocked` is what the SQL does
to a set of rows.  `ContractFlags` is what it is meant to compute: an active issue
is blocked if it has a reason of its own or a parent whose blockedness comes from
outside its own subtree, the latter as a least fixed point (`Exogenous`).

| code | action |
|---|---|
| `CloseIssueCheckedInTx` with `enforceClosePolicyForTargetInTx` | `CloseIssueChecked` |
| `UpdateIssueInTx` with a status, `reopenIssueInTx`, `DeleteIssueInTx` | `UpdateStatus`, `ReopenIssue`, `DeleteIssue` |
| `AddDependencyInTx` with both graph checks; of an existing row | `AddDependency`, `ReAddDependency` |
| `RemoveDependencyInTx` | `RemoveDependency` |
| `recheckBlockedAfterCommit`; given up or lost | `RecheckBlocked`, `AbandonRecheck` |
| `RecomputeAllIsBlockedInTx` | `Repair` |

The comment of `BlockedRecheck` accepts that a flag may be wrong after a racing
write that *adds* a blocker, and after a recheck that failed.  The history
variable `residue` marks exactly these, and `Repair` clears it.  Issues and wisps
are one set of ids, since the SQL over the two tables is the same, and "blocks"
stands for "conditional-blocks".  So one coordination cell stands for the two
that the code keeps per parent, of which a close rewrites both and an edge that of its
own table: an edge from an issue and one from a wisp, added under one parent at
once, conflict here and not in the code.  A close of an issue that is already closed
is left out: it changes nothing but these cells (`close.go:158`), and so can only make
others conflict and replay.

### One write

`proc[s]` is the write a process runs: where it is, its connection, the root it
saw at BEGIN, the breaker's file as last read, and what its caller was told.  A
mutation adds one, modulo 3, to a cell of its session, so that a write which is
lost, undone or applied twice is seen; every delete is of one shared row.

| code | action |
|---|---|
| `withDeleteFence`: `GET_LOCK`, its timeout, `RELEASE_LOCK` | `GetLock`, `NoLock`, `Freed` |
| `circuitBreaker.Allow`, `RecordFailure`, `State`, `RecordSuccess` | `ReadBreaker` and `Allow`, `RecordFailure`; `CheckTripped`, `RecordSuccess` |
| `withRetryTxOn`, `withWriteTxOn` | `Begin`, `BeginFails`, `Conflict`, `Broken`, `GiveUp`, `Commit`, `CommitLost`, `CommitCanceled` |
| the body of a delete | `NotFound`, `publishesInTx` |
| `doltAddAndCommitPostTx` and its caller | `Publish`, `publishFailed` |
| faults | `Disconnect`, `Outage`, `Restart`, `Die` |

A change of the breaker's file is a read and, later, a write, since the mutex is
the process's own.  The temporary file has one name for all processes, so a
writer may rename what another has half written; `readState` takes that for a
closed circuit, and `WriteBreaker` may leave that.  Ages stand for times: a tick
ages the file and the copies that were read.  A store whose port is not known
has no breaker (`scenario.breaker`).  Left out: what a Dolt commit contains and
whose message it carries, the retries inside the publication, and the recheck
of the flags, which is in `Blocked`.

### Large applies and the drain

Handlers and `Serve` share only the variables of the server, and every access is
a step.  `Arrive`, `Acquire` and `Shed` are `acquire` on `s.sem`; `CheckClosing`,
`TrySlot`, `Enqueue`, `WinSlot` and `GiveUp` are `acquireLargeApply`; `Stamp` and
`Admit` are `admitLargeApply`, `Apply` the batch itself, `Release` its two
steps; `CloseStreams`, `StartDrain` and `StopServing` are `Serve` after the
signal.  Deadlines are kept as the time left.  With no more than `DrainTimeout`
left no grace is added, which `drainBudget` keeps.

## 3. Runs

Each run is `tlc -config <cfg> <module>`; names as in `PROJECT.json`.

| run | instance | shows |
|---|---|---|
| `lease_race` | 1 issue, 2 actors, 2 sessions, 3 row locks, clock 0..2 | every operation against every other: `TypeOK`, `LeaseBacksLiveClaim`, `ClosedAtCoherent`, `RowVersionIdentifiesRow`; `ReclaimSparesLiveLeases`, about the row a commit *lands on*; `SerialStore`: `LeaseTx` implements `LeaseStore` |
| `lease_ties` | 1 issue, 2 actors, 2 sessions, clock 0..1, with tie imports | `RowLockGuardsRow`; `ClaimTakesOnlyFreeIssues`, which ties do not weaken; the only passing run in which an orphan exists for `TxDropOrphan` to delete |
| `tie_orphan` | as `lease_race` with tie imports | violation: an orphaned lease |
| `journal_race` | 3 transactions of up to 2 records, 1 consumer, both floors at 1, clock 0..2 and writers' clocks off by one day, the counter lost or set back once | `TypeOK`, `SeqContract`, `RetainedSuffix`, `PruneSparesFloors`, `NoSilentLoss`, `LossesAreReal`, also through both heals |
| `journal_reuse` | `RetainRows = 0` | violation: a seq is used twice |
| `journal_stale` | counter set back arbitrarily | violation: records lost in silence |
| `autoprune` | 2 processes, batches of 1, 2 batches a pass, 4 records | `TypeOK`, `SuffixLeft`, `WorkIsStamped`, `BatchSparesFloors`, `RetentionCatchesUp` |
| `watch` | 1 client, 3 connections, 2 places, 1 slot, 2 breaks | `TypeOK`, `CountsAreExact`, `InOrderOnce`, `EveryRecordArrives`, `ShutdownDrains` |
| `drain` | 4 requests, 3 inflight slots, a ceiling of 2 ticks | `TypeOK`, `OneLargeApply`, `DrainCoversRun`, `DeadlineIsPublished`; `WaitEnds`; `StopsGracefully`: `LargeApply` implements `GracefulStop` |
| `write_once` | 2 processes, 5 scenarios with 1 or 2 faults, threshold 2 | `TypeOK`, `OutcomeIsTruthful`, `OneDeleteWins`, `BreakerRecovers`, `FenceIsFreed` |
| `delete_lost` | 1 delete that publishes itself, 1 fault | violation: a delete that took place is reported as failed |
| `blocked` | 4 issues, 2 sessions, 8 graphs, 2 or 3 writes | `TypeOK`, `FlagsSettle`; `ReadyHasNoReason`: also before the rechecks; `NoChildSlipsUnderClose` |

**Bounds.**  `MaxClock`, `MaxRecords`, `MaxSeq`, `MaxFails`, `MaxBreaks`,
`MaxFaults` and a scenario's `writes` and `faults` only cut behaviours short.  A race needs a snapshot, a commit under
it and the late commit; two sessions give that.  A row lock is free again when
neither the row nor a snapshot carries it.  So with one issue three values never
run out, except for a commit that would conflict anyway: with four values TLC
finds exactly the same states.  Three instants separate the grant, the expiry
and a renewal with `TTL = 1`.  Several issues in one transaction, other
spellings, pools, custom statuses and replicas are left to the theorems, which
hold for all of them.  In the journal one row is retained, so the two records of one
writer already give a prune something to delete.  The other two of the three
transactions are then free to race: a writer commits, or another prune does, and a
day passes, between the snapshot and the commit of a prune that deletes; a writer
whose snapshot still has the deleted rows commits; writers and readers
follow it.  The third day is there because with clocks off by one day nothing is old
enough before the second.  `--before 3` and `--limit 2` bind in some of these states
and not in others.
Two processes are the least that can hold different bounds, and a pass of two
batches is shorter than the longest backlog, so that it must be continued.
Three connections let a client that reconnects fill both places with broken
streams and be refused.  Two clients could starve each other of the last place
for ever, so `EveryRecordArrives` is stated for one.  Four requests are a running
large apply, a waiter, one that is refused and one that finds `s.sem` full.  In
`write_once` the scenarios keep apart what does not hold together: deletes that
publish inside their transaction are not mixed with mutations, which they can
revert (section 5), nor with lost answers, which are `delete_lost`.  The graphs of
`blocked` each exercise one dependency type or one affected set; with three
writes on every graph the run passes too, with 306,712 states.  The theorems below
remove the bounds for what they cover.

**Symmetry.**  Sessions, issues, actors with one spelling, and transactions
are only compared for equality.  Runs with liveness use no symmetry.
`Mintable` lets TLC take the least unused row lock, as unused ones differ in
nothing but their name; the proofs leave it arbitrary.

**Deadlock** is checked everywhere but in `EventsWatch` and `LargeApply`, where a
stopped server is the intended end, and in `Blocked`, where the writes run out.
In `WriteTx` time always passes, so it says nothing there; `FenceIsFreed` does.

**Fairness.**  `AutoPrune`: time passes, and `bd serve` asks on every tick of its
timer whether a pass is due (`StartAutoPruneTicker`), so the steps of a pass are
weakly fair.  `Fail` is not fair and may happen `MaxFails` times.  The property
is `[]<>`, since
writers may always be ahead again.  `EventsWatch`: goroutines and clients that
read and reconnect, as `EventSource` does, are weakly fair; after the shutdown
has begun no client has to get through.  Acquiring a slot is
strongly fair: slots are held for one bounded read each, and Go serves the
waiters of a channel in order.  Nothing is assumed of records, prunes, breaks or
the shutdown.  `LargeApply`: goroutines run and time passes; nothing says that an
apply returns, so the drain must end by itself.  `WriteTx`: a write that runs
goes on, time passes, and callers keep calling, without which an open breaker
has nobody to probe.  `GiveUp` is strongly fair: the backoff's budget is elapsed
time, so a retry loop cannot go round for ever.  Nothing says that an outage
ends; `BreakerRecovers` takes it as its hypothesis.  Leases, journal and
`Blocked` have no fairness.

## 4. Proofs

All proofs hold for any sets of issues, actors, sessions, transactions and
consumers and any bounds, from the named assumptions in the modules (types of
the constants; `NoRow`, `NoTx`, `NoNode`, `NoMark`, `None` outside the sets they
extend; `NoRow` of `BlockedOps` no row; `Mintable(K)` a subset of `K`; finitely many requests and connections;
scenarios whose tables and edges are tables and edges).  TLC evaluates each of
them on every run of the module.

**Leases** (`LeaseTxProofs`).  That a lease has a claim is not inductive: a late
commit can combine its own lease row with somebody else's issue row.
`LeaseTx!IndInv` adds

- `SnapshotsBacked`: the same of every open snapshot, since operations decide there;
- `RowVersionIdentifiesRow`: if the committed row still carries the snapshot's
  `row_lock`, the row, and whether it is leased, are as in the snapshot.

`LeaseTxProofs` first shows what a merge without conflict means.  A
row writer stores a row lock nobody else stores, so its commit proves that the row was
unchanged.  A refresh writes a cell of an existing lease row, so its commit
proves that the lease, hence by the invariant the claim, was still there.
It turns this into one lemma per operation, and then
collects them: `TypeCorrect`, `LeasesNeverOutliveClaims`, `RowVersionIsSound`;
then `ImplementsSerialStore`, as each commit equals its operation applied to the
tables of that moment.  The serial store names no caller, and an import may leave any
coherent row, as it may in the code; so who may take a claim is not said by the
refinement but by `ClaimTakesOnlyFreeIssues`.  Then `HeartbeatRescues`, `ClaimsHaveOneWinner` and, through
the serial store, `ClosedAtStaysCoherent`.

With tie imports (`SpecTies`) `IndInv` is lost, as `tie_orphan` shows.  What is left is
`TiesInv`: the types, and that an unchanged `row_lock` means an unchanged issue row.
It rests on one discipline that every operation is shown to follow, ties included:
a write leaves an issue row alone, deletes it, or stores a `row_lock` nobody else
has (`Disciplined`).  Leases may be anything.  Results: `RowLockSurvivesTies` and
`ClaimsHaveOneWinnerUnderTies`; so the one-winner promise needs the row lock only.

**Journal** (`JournalProofs`), under the hypothesis `RetainRows > 0`, which
`journal_reuse` shows to be necessary.  The theorems are about `SpecHealed`, in which
the counter may be lost, or set back to just before one of the newest `RetainRows`
rows, whenever no transaction is open; `journal_stale` shows why not further.  The
counter cell orders nobody, since equal increments merge.  `Journal!IndInv`
therefore says

- `TablesOK`: the newest record is always in the table, and the counter is the
  head, missing, or behind by at most `RetainRows` with the next seq still taken;
- `TxOK`: each open snapshot was the journal at some head `h`, what the transaction
  wrote continues it or is a suffix of it, what a prune deletes is `RetainRows`
  below `h` and older than `RetainDays`, and once others have recorded something
  the counter is the head again;
- `TailOK`: cursors do not pass history.

The first record of a writer is numbered `h + 1` whether its counter is right,
missing or behind (`NextSeq`, `HealedSeq`).  A writer whose snapshot is outdated then
always collides with the row of the seq it picked, unless it recorded nothing
(`WriterCommitsOntoItsHead`).  A damaged counter stays noticeable because no prune
takes the row after it.  Results: `TypeCorrect`, `SeqsAreGapless`,
`PruningLeavesSuffix`, `TailsMissNothing`, `TruncationIsHonest`, and the action property
`PrunesSpareFloors`: the head and the clock only move away from what a prune decided
to delete.

**Retention** (`AutoPruneProofs`).  `IndInv` adds to the invariants of the run that
no two rows share a seq, that the bound of a pass which deletes lies
`RetainRows` below the head and above no row that is young (`BoundIsSafe`), and how
old a stamp can be behind which a pass still works (`StampIsFresh`).  A batch
takes the lowest rows, so any interleaving of batches, of however many passes, takes
a prefix.  Results: `TypeCorrect`, `BatchesLeaveSuffix`, `PassesWorkStamped`,
`FloorsAreSpared`; the last needs no hypothesis on the floors.

**Stream** (`EventsWatchProofs`).  Every handler step changes the record of one
connection, so the two counters follow from what that record adds and takes away
(`Count`).  For the order, `IndInv` relates the wire to the handler's cursor and the
cursor to its page (`WireOK`), a client to the connection it is on (`Attached`), and
says that no two clients share one (`Alone`).  Results: `TypeCorrect`, `CapIsACap`,
`DeliveryIsInOrder`.

**Blocked** (`BlockedOpsProofs`, `BlockedProofs`).  A transaction that nobody overtook on the coordination
cell of `p` has seen every child of `p`, and whether `p` is closed (`SeenBy`): an add
under `p` and a close of `p` both rewrite that cell (`NoNews`).  What the recompute
finds plays no part, since it writes flags only; so these results hold on every graph:
`TypeCorrect`, `ClosesSeeTheirChildren`.

The second half is about the flags.  `FlagsSettle` is false on some graphs (section 5),
so the theorems have a hypothesis on the graph, `Tidy`, which the code does not check
and of which each clause keeps out one way to go wrong:

- an edge that is added again is the same edge (`ReGated`), and gates wait for all
  children, not for any (`PinnedChild`, `Excluded`, and removals that block);
- parents have no parents (`MiddleParent`); a parent that can itself be blocked
  keeps or loses the children it starts with (`LateChild`), and these have no
  other edge and are not what it waits for (`RecheckRace`);
- no edge from an issue to itself, and no issue that starts flagged without an edge.

Blocks edges, gates and parents nobody blocks may form any graph, over any number of
issues, and all operations race over it.  One level of inheritance does away with the
recursion: what one pass flags (`Due`) is what the fixed point of the mark passes holds.  `TidyInv` says

- every flag that is due is up, and so it is in the snapshot of each open transaction
  that nobody who adds a blocker has overtaken;
- every flag that is up and not due is `Awaited`: a session has it to recheck, and if
  that session is already in a transaction, its snapshot knows that the flag is not due;
- since such a snapshot only activity, edges and flags have gone (`Shrunk`), and what
  a session will recheck holds, with a parent that can be blocked, its children
  (`Covers`).

What a transaction takes down on its snapshot is then not due in the tables it
lands on (`Lessens`), since being due only shrinks with what others took away.  What
it leaves up wrongly, because another took the last reason at the same time, is
among what it recorded for its own recheck (`WorkKeeps`).  There is one lemma per
operation for what it records and recomputes (`StopWorks`, `RemoveWorks`,
`DeleteWorks`, ...), one for what a commit does to the other transactions
(`CommitKeeps`), and one per action on top.  Results: `TidyFlagsSettle` and
`TidyReadyHasNoReason`.  The graphs of the run with one level of parents are tidy
(`TwoBlockers`, the two `AllChildren`, `TwoEdits`); for those with any-children gates,
deeper parents and moving children the run is all there is.

**Drain** (`LargeApplyProofs`).  `LargeApply!IndInv` is the conjunction of the four
invariants of the run: `DrainCoversRun` alone is not inductive, since the budget
is computed from the published deadline, and that this is the running one's
needs the slot to be one wide.  The proof treats the count of `s.sem` and the
large slot as two halves, as no action couples them.  Results: `TypeCorrect`,
`SlotIsOneWide`, `DrainNeverCutsShort`, `DeadlineIsTheRuns`, and from the
invariant `KeepsThePromise`: every step is a step of `GracefulStop` or leaves
its variables alone.  That a stopped server exits, the other half of
`StopsGracefully`, is left to TLC.  The assumptions are natural numbers for the
limits and a finite set of requests.

**One write** (`WriteTxProofs`).  Every action is first shown to have one of four
shapes (`Shape`): a call, a step that leaves the database alone, the end of a
commit, or a fault or tick that touches all processes.  The records of the
writes are coherent (`AllCoherent`: for instance, only a mutation publishes
after its transaction, and a failure there is accounted as ok).  On that rest
two invariants, each by the shapes.

- `AllTrue`: where a write is says whether it has been applied (`Pending`,
  `Applied`), and an open snapshot holds the cell the write was called with.
  It gives `CallersAreToldTheTruth`, under the hypothesis `PublishesSafely`: where
  something publishes inside its transaction, there are no mutations and no
  answers are lost.  A publication there writes the tables of its snapshot;
  without mutations these still hold every cell as it is (`Still`).  `delete_lost`
  shows that losses must be excluded, section 5 that mutations must.  All
  scenarios of `write_once` satisfy the hypothesis.
- `AllFenced`: a guarded delete past the fence with its connection alive holds the
  lock, and what its snapshot says of the row is still so.  It gives
  `FenceElectsOne`, under the hypothesis that every delete of the row takes the
  fence, and with publication inside the transaction or not.

**Only model-checked:**

- `FlagsSettle` and `ReadyHasNoReason` on graphs that are not tidy: with parents of
  parents, what the mark passes of `BlockedOps` reach is a fixed point of a recursion over
  the graph, and statements about it need an induction over data;
- all liveness: `RetentionCatchesUp`, `EveryRecordArrives`, `ShutdownDrains`,
  `WaitEnds`, `BreakerRecovers`, `FenceIsFreed`, and the liveness half of
  `StopsGracefully`.  The prover handles neither fairness nor `ENABLED`.

## 5. Findings

- `tie_orphan`.  `lease.go:171` states that a lease row exists if and only if its
  issue is a live claim.  An import of an equal-timestamp snapshot writes the
  lease and not the issue row, so it conflicts with nothing that ends a claim
  which had no lease.  The orphan lasts until the holder's next heartbeat, or
  the next import or claim.
- `journal_reuse`.  `cmd/bd/events.go:100` promises seqs that are never reused,
  and `journal.go:507` rests that on contention for the counter row.  With
  `events-journal-retain-rows` at 0 a prune can remove the row that really
  orders the writers.
- `journal_stale`.  `journal.go:514` relies on a duplicate key to notice a counter
  that came back old.  If that key has been pruned, used seqs are handed out and
  a consumer ahead of them is not told.
- `delete_lost`.  `store.go:1271` says that connection failures reaching the retry
  "happened before commit", because `withWriteTx` marks a lost answer.  The body of
  a delete runs `DOLT_COMMIT` itself and returns its error unmarked
  (`deleter.go:106`, and `sweeper.go:89`; `ephemeral_routing.go:412` marks it).  When
  that answer is lost after the commit landed, the delete is replayed, finds no
  row, and is reported as failed.

Flags that stay wrong.  `FlagsSettle` fails on six graphs, which
`MCBlocked!UnsettledScenarios` holds and the run leaves out; each is part of a hazard in
`PROJECT.json`.

- `Excluded`: the recheck leaves out the issue whose status changed
  (`blocked_recheck.go:240`), so a write that changes what blocks it, racing its
  close, leaves it flagged.
- `MiddleParent`: a delete recomputes the rows below what it deletes, not those
  beside it (`blocked_state.go:897`).  With a middle parent gone, a grandchild no
  longer counts as inside the subtree, and its former siblings stay unflagged.
- `PinnedChild`: an update from closed to pinned changes no activity, so nothing
  is recomputed (`update.go:534`), although a gate on closed children should shut.
- `ReGated`: adding an existing waits-for row with another gate replaces its
  metadata and recomputes nothing (`dependencies.go:335`).
- `RecheckRace`: `blocked_recheck.go:25` says that a recheck "sees both writes and
  settles the flag".  Rechecks run on snapshots themselves.  A parent `c` has lost
  its last blockers to two racing writes, and its child `x` still waits for `a`.  The
  recheck of both takes down the flag of `c` and leaves that of `x`, as `a` is open in its
  snapshot.  Meanwhile `a` is closed; the recheck of `x` that follows finds `c` still
  flagged in its snapshot, and leaves the flag of `x` too.  Nobody looks again.
- `LateChild`: an issue put under a parent whose flag is stale, and about to be
  rechecked, inherits that flag; the recheck was recorded before it was a child.

A cycle of two adds.  `CheckDependencyCycleInTx` (`dependencies.go:539`) reads a
snapshot, and only parent-child edges write a cell in common.  From
`MCBlocked!TwoAdds` two opposite edges therefore both commit; `bd dep cycles`
reports them afterwards.

That publication inside a transaction can revert rows committed meanwhile is
documented in `ephemeral_routing.go:349` as live on several paths; in `WriteTx`
`OutcomeIsTruthful` fails as soon as such deletes run beside mutations.

Smaller observations, not runs.  The "if" half of the lease invariant does not
hold for an issue set to in_progress by a plain update, which has no lease until
its holder's heartbeat.  The comment of `freshRowLock` says that reopen keeps
`row_lock`; `reopen.go:66` rewrites it.  A comment in `readWatchBatch` speaks of
sixty-four streams; the cap is 48.

## 6. Not modelled, and the plan

Not modelled at all, because they are I/O, adapters, encoders or sequential:
tracker integrations, hooks, command line, HTTP validation, query generation,
compaction, molecules, schema migrations, the embedded store's file lock.
Versioned history is off in every build so far.  Branch merges between replicas
follow Dolt's own rules.

Next, in this order:

1. Batch create, apply, close and delete as set operations in `LeaseOps` and
   `Blocked`.
2. The other callers that publish inside their transaction, and `RunInTransaction`
   with its second transaction, in `WriteTx`.
3. `MergeSlot`; server lifecycle and proxy, as far as they are more than I/O.
4. Theorems: `FlagsSettle` with any-children gates, where removing a closed child
   blocks, so that being due no longer only shrinks.
