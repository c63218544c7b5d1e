# ryu-db in TLA+

TLA+ models of ryu-db (a multi-version key-value database in Go: TCP server,
MVCC engine, B-tree on slotted pages, write-ahead log, ARIES-style recovery),
TLC runs on small instances, and TLAPS proofs. `PROJECT.json` holds the exact
correspondence of definitions and source lines, the runs, the findings and the
hazards.

## 1. Inventory

| part | source | state | entry points | module |
|---|---|---|---|---|
| server sessions | `server.go` | `InTx`, `TxID` per connection | `handleConnection`, `executeCommand` | `Server` |
| engine facade | `internal/engine/db.go` | none | `Set`, `Delete`, `Get`, `Commit`, `Rollback` | `Mvcc` |
| transaction manager | `internal/storage/txn.go` | `txnTable`, `lsnTable` | `Begin`, `GetStatus`, `SetStatus`, `GetMinActiveTxID`, `PruneTables` | `Mvcc` |
| MVCC reads and writes | `btree.go` | cells of leaves | `FindLatest`, `upsertCell` | `Mvcc` |
| rollback, commit | `btree.go` | PrevLSN chain | `Rollback`, `Commit` | `Mvcc`, `Aries`, `BTree`, `Overflow`, `Restart` |
| vacuum | `vacuum.go` | local watermark | `Vacuum`, `vacuumLeaf`, `freeOverflowChain` | `Mvcc`, `Overflow` |
| write-ahead log | `wal.go` | log file, `currentLSN` | `NewWAL`, `Append`, `ReadRecord`, `WriteCheckpoint` | `Aries` (records), `Restart` (bytes) |
| buffer manager | `buffer_manager.go` | frames: dirty, RecLSN, pins, latch | `FetchPageFor…`, `UnpinPage`, `evict` | `Aries`, latches in `BTree` and `Overflow` |
| checkpoint | `btree.go`, `wal.go` | `checkpoint.meta` | `Checkpoint` | `Aries` |
| recovery | `recovery.go` | local dpt, att | `Recover` | `Aries`, `Restart` |
| pager | `pager.go` | data file | `ReadPage`, `WritePage`, `AllocatePage` | `Aries`, `BTree`, `Overflow`, `Restart` |
| tree structure | `btree.go` | root, internal pages | `findLeafPage`, `splitLeafCells`, `insertIntoParent`, `splitInternal` | `BTree` |
| page and cell format | `page.go`, `cell.go` | slots, offsets | `Init`, `Insert`, `Get` | `SlottedPage` |
| free list | `btree.go` | meta page | `allocatePage`, `deallocatePage` | `Overflow` |
| overflow chains | `btree.go`, `vacuum.go` | overflow pages | create, read, free | `Overflow` |
| first start, shutdown | `btree.go` | pages 0 and 1 | `NewBTree`, `Close` | `Restart` |
| client | `cmd/db/main.go` | none | reads lines, prints answers | none: pure I/O |

Who runs concurrently: one goroutine per connection, a vacuum goroutine and a
checkpoint goroutine. They meet at the transaction manager's mutex, the page
latches, the pool's mutex and the log's mutex. `Recover` runs alone, before the
server accepts connections.

## 2. Modules

* `Mvcc` - engine on one leaf: transactions, conflict test, visibility, rollback
  record by record, vacuum in three steps.
* `TxnStore` - the abstract store: atomic abort, no undo records, no status table.
* `Server` - sessions on top of `Mvcc`.
* `Aries` - log of records, frames, page file, checkpoint, crash, recovery.
* `SlottedPage` - page layout with 16-bit arithmetic and the sizes of cells, as
  operators; `BTree` uses them with real byte sizes.
* `BTree` - descent, splits and root change under page latches, rollback on the
  pages the records name, failed allocation, crash inside a split.
* `Overflow` - overflow chains and the free page list under writers, a reader,
  rollback and vacuum.
* `Restart` - log file of bytes, failing and torn writes, first start, restart.
* `MCAries` - symmetry set for TLC; the constants are in the `.cfg` files. The
  other modules are checked as they are.
* `Extrema`, `MvccProofs`, `MvccRefinement`, `ServerProofs`, `SlottedPageProofs`,
  `RestartProofs` - theorems.

The modules cut the engine along its latches. `Mvcc` has one leaf and all of the
transaction logic; `BTree` has many leaves and the conflict test and visibility
of `Mvcc` in short; `Overflow` has one key whose cells own pages; `Aries` has the
page level under crashes; `Restart` has the byte level of the log. `Server` is
composed with `Mvcc` (its actions are conjunctions with those of the engine), and
`Mvcc` implements `TxnStore` between its sweeps.

Operators commented "Mutant" are deliberately wrong variants of the definition
that follows them. Nothing uses them; each is the `as` of a `mutants` entry of
`PROJECT.json` and breaks the property named there when it takes the
definition's place.

### Mvcc

State: `txnTable` is the map of the manager. `leaf[k][t]` is the cell of version
`k\x00t`; `late` and `appended` keep the slot order, since `redoUpsertOnPage`
appends behind the sorted cells and `vacuumLeaf` looks at the neighbouring slot.
`chain[t]` is the part of the PrevLSN chain that a rollback has still to undo.
`rolling` is the set of `Rollback` calls in progress, `marked` those of them that
have set the status and not yet read their last LSN. `vacuum` is the goroutine
with its local `minActive`. Three variables are history: `outcome` (the fate of a
transaction, which the table forgets when it is pruned), `failed` (transactions of
which a call met an I/O error) and `forgotten` (transactions whose last LSN
`PruneTables` deleted before `Rollback` had read it).

| action | code |
|---|---|
| `Begin` | `TransactionManager.Begin` |
| `Upsert`, `UpsertConflict`, `UpsertFails` | `DB.Set`/`DB.Delete` and `upsertCell`, under the leaf's write latch; the append refused after the page is rewritten |
| `StartRollback`, `GetLastLSN`, `UndoStep`, `FinishRollback` | `BTree.Rollback`: status, last LSN, one turn of its loop, final status |
| `UndoSkips`, `RollbackFails` | a page of the loop that cannot be fetched, a record that cannot be read |
| `Commit`, `CommitFails` | `BTree.Commit`, and its exit when the append fails |
| `StartVacuum`, `VacuumLeaf`, `VacuumLeafFails`, `PruneTables` | `Vacuum`: watermark, sweep of the leaf or its failure, pruning of both tables |

Granularity. A write holds the leaf's write latch from the conflict test to the
end of the page rewrite; the status of another transaction may change between
two cells of the conflict scan, but a status only moves from running to a final
one, and a scan that saw the older status has the outcome of a scan that ran
earlier. A read takes the youngest version it found visible, and what it found
invisible later was invisible then, so it equals an atomic read at that moment.
Left out is a pruning of the table between two cells of one scan. A conflict and
the first statement of the rollback it causes are one step: in between the
goroutine does nothing else, and `StartRollback` may happen at any time anyway.
The second statement is a step of its own, because a prune between the two
changes what it reads. `GET` changes nothing, so it is
the operator `FindLatest`. Payloads are opaque values, except that the value
`nil` which undo writes for a delete is told apart.

Identifiers are numbers in the order of `Begin`; the code takes a nanosecond
clock under the manager's mutex (a clock that is set back is outside the model).

### Server

`session[c]` is the place of a connection's goroutine and the transaction it
works for. One action per command (`CmdBegin`, `CmdCommit`, `CmdRollback`,
`CmdWrite`), six for the auto-commit path (`AutoBegin`, then `AutoWrite`,
`AutoGet`, `AutoFails` or `AutoMalformed`, then `AutoCommit`), `Disconnect` for the
deferred function, and `Undo` for `Rollback`, which runs on the connection's
goroutine. A command whose append fails does what the code does with the error:
`COMMIT` answers OK and leaves the transaction, a write inside a transaction goes
on, an auto-commit command ends without commit or rollback. Commands that only
print an error change nothing and have no action.

### Aries

An LSN is a position in `wal`. Every page is a leaf with the versions of one key.
`file` is what the operating system shows and `disk` what survives a power
failure. A frame carries image, page LSN, dirty bit and RecLSN. `latch` is the
write latch. `missed` is a history variable: pages absent from a checkpoint's
snapshot although the file lacked a change logged before it.

| action | code |
|---|---|
| `FetchForWrite`, `Upsert`, `UpsertConflict`, `Unpin` | `FetchPageForWrite` with its full page write, `upsertCell`, `UnpinPage` |
| `Evict` | `evict`; enabled for any unpinned frame, so it covers every pool size |
| `Commit`, `StartRollback`, `RollbackStep`, `FinishRollback` | `BTree.Commit`, `BTree.Rollback` |
| `CkptSnapshot`, `CkptLog`, `CkptRename` | `Checkpoint`: dirty page table, record, rename |
| `Analysis`, `RedoStep`, `RedoEnd`, `UndoStep`, `UndoAbort`, `RecoverEnd` | `Recover` |
| `WriteBack`, `Crash` | external: kernel write-back; process crash, power failure, torn write |

Granularity. `Append` holds the log's mutex and syncs, so a record is in the log
or not. Fetch, inverse operation and CLR of one undone record are one step
(`Compensate`): the page stays latched, and a crash in between leaves only the
full page record. `RedoStep` takes the next record that passes the first two skip
rules; skipping others has no effect. Frames that redo makes dirty keep RecLSN 0,
as in the code, where logging is off at that time. The meta page is not in
`Page`, hence commit and abort records, which carry page 0, touch no page.

### SlottedPage and BTree

A page is its type, its slots (cell and byte offset) and the free space offset.
`Insert` computes in 16 bits as the code does, and a caller that ignores its error
goes on with the unchanged page. A cell is its key, its child and its length.

`page` holds the images in the pool, `root` is `rootPageID` (a plain field, no
lock), `metaRoot` the pointer on the meta page, `op[t]` the stack of an upsert in
progress (the page it is at, the path, the right half not yet written, the key on
its way up). `stuck` are pages that a failed split has left latched, with the image the
log has of them. `chain[t]` names page and key of each record, as the log does.
`low`, `high` and `hist` are history variables: the key range the splits left to
a page, and the accidents that may hide a key.

| action | code |
|---|---|
| `StartUpsert`, `Descend`, `DropReadLatch` | `findLeafPage`: root read, one level, leaf without latch between read and write |
| `UpsertConflict`, `UpsertInPlace` | `upsertCell` on the latched leaf |
| `SplitLeaf`, `SplitLeafRight`, `SplitLeafFails` | `splitLeafCells` up to each log record; no page to be had |
| `InsertIntoParent`, `SplitInternal`, `SplitInternalRight` | `insertIntoParent` on the last page of the path, `splitInternal` |
| `NewRoot`, `SetMetaRoot` | the empty path: new root in memory, then on the meta page |
| `Commit`, `StartRollback`, `UndoStep`, `FinishRollback` | `Commit`, `Rollback`, undo of `Recover` |
| `Crash` | memory lost, every logged image there |

Granularity. A step ends where a latch is released or a log record written, so
that others and crashes come in between exactly there. A crash finds every logged
page image in the file; other contents of the file are the subject of `Aries`.

### Overflow

`page` is the file with links and pieces of values, `free` the head of the list on
the meta page, `leaf[t]` the cell of each transaction's version of one key,
`latch` the leaf's latch, `job[a]` the call of each writer and of the vacuum, `get`
a GET in progress. A value is the number of its write and its length, so a piece
tells which value it is of and where it begins. `status` and `recs` are the two
tables of the manager, `recs[t]` being the length of the chain of records that
`lsnTable` leads to. Three variables are history: `lost` (pages dropped by calls
that do not free them), `dangling` (transactions whose cell outlived its chain) and
`refreed` (such a chain has been freed again). `GET` latches the leaf for reading
while it walks a chain; of a short value it returns a slice of the page, which
`DB.Get` copies after the latch is gone (`CopyInline`).

Granularity. An allocation and a deallocation hold the write latch of the meta
page and are one step each, as is the filling of one page. The scan of
`upsertCell` has two steps, since the writer frees its own old chain in the middle.
`Rollback` has the steps it has in `Mvcc`. Every fetch, append and read that may
fail on the way has an exit (`ChainFails`, `FreeFails`, `UndoFails`,
`VacuumLeafFails`, `ReadFails`, the second disjunct of `ScanAbove`).

A cell outlives its chain like this: a watermark is taken while nothing runs; T and
a younger U begin; U writes and starts to roll back; T writes a long value; the
pass ends and prunes U, whose version now counts as committed; T writes again,
frees its own chain (`btree.go:513`) and only then meets U's version as a conflict
(`btree.go:501`). Until T's rollback has removed the cell, it points to free pages.
Another pass may prune T as well, so that a GET follows the cell, or drop the cell
and free the chain once more, which may make the free list a circle. The model
contains all of this, and the properties stop exactly there.

### Restart

`log` is the log file as a sequence of pieces with offset, length, counted LSN,
readability and whether a sync has covered them; `cur` is `currentLSN`. `db` is
the data file as the operating system shows it, `disk` what survives a power
failure. `at` is the place of the program, `io` the half of `Append` it is in.
`hist` records what clients were told, which commits `Append` acknowledged, which
recovery saw, and whether a first start was cut, a power failure took page writes
back (`shrunk`), or a failed write moved records off their LSNs (`shifted`).

| action | code |
|---|---|
| `NewWAL`, `AppendWrite`, `AppendSync` and their failures | `NewWAL`, `Append` for every caller, with what the caller makes of the result |
| `Recover`, `Undo`, `UndoEnd` | `Recover`; its scans end at a record they cannot read |
| `ReadRoot`, `AllocateMeta`, `AllocateRoot` | `NewBTree` on an existing and on an empty file |
| `Set`, `Commit`, `Evict`, `Close` | one write, `COMMIT` of `server.go`, `evict`, `FlushAll` |
| `WriteBack`, `ProcessCrash`, `PowerFailure` | external |

A power failure keeps what a sync covered; of the rest the end may be missing or
cut in the middle of a record, and other pieces may be damaged. The program is
sequential here: `Append` holds the log's mutex, so the records of several
clients only queue up.

## 3. Runs

All configurations say `CHECK_DEADLOCK FALSE`: a behaviour ends when the bounded
number of transactions is used up, as a server does whose clients are silent.

Passing runs:

| run | instance | shows |
|---|---|---|
| `mvcc` | 1 key, 2 transactions, 2 records each, I/O errors of 1 transaction | `FirstUpdaterWins`, `StatusAgrees`, `RolledBackDataErased`, `VacuumContract`, `ReadsRepeat`, refinement of `TxnStore` (`ImplementsStore`); `RollbackCompletes`, `FinishedArePruned` |
| `server` | 1 key, 2 connections, 2 transactions with 1 record, I/O errors of 1 transaction | `SessionInLiveTxn`, `OrphansHoldNoKey`; `DisconnectReleases` |
| `aries` | 1 page, 2 transactions, 1 checkpoint, 1 crash | `CommittedKept`, `RecLSNCovers` |
| `aries_two_pages` | 2 pages, 1 transaction with 2 records, 2 crashes | `CommittedKept`, `UndoErases`, `CompensatedOnce` |
| `aries_failures` | 1 page, 1 transaction with 1 record, power failures and torn pages, 1 checkpoint, 3 crashes | `UndoErases`, `CommittedNeverUndone`; `RecoveryTerminates` |
| `btree` | 2 user keys, 2 transactions with 2 writes, 10 pages, 1 failed allocation, 1 crash | `PagesLaidOut`, `RoutingSound`, `NothingDestroyed`, `Findable`, `RollbackErases`, `OneWriterPerKey`, `LatestFound`; `UpsertReturns` |
| `overflow` | 1 key, 2 transactions, 3 writes, 6 pages, 2 vacuum passes and 1 GET, or 1 failure and one of them | `OneUse`, `ChainsWhole`, `ReadIntact`; `CallsReturn` |
| `restart` | 1 transaction, 2 crashes or shutdowns, 1 failing write or sync | `AckedInLog`, `AckedKnown`, `LSNIsOffset`, `RootKnown`; `StartEnds` |

The properties behind a semicolon are liveness. The type invariants of `Mvcc` and
`Server` are proved; those of the other modules are part of their first run. That
a new root is also on the meta page when a restart needs it is part of
`Findable`, whose instance has a crash.

Bounds. `MaxTxn`: a conflict needs two transactions; the safety properties of
`Mvcc` and `Server` and the refinement are proved for any number of transactions,
keys, records and failures, so that their runs are kept small. `MaxOps = 2`:
insert then delete of a key, or two pages. `MaxCkpt = 1`: one checkpoint is in force at a time.
`MaxCrash = 2`: the second crash interrupts the recovery from the first. `aries`
has two transactions for conflicts and one crash; `aries_two_pages` has one
transaction and repeated crashes; the product of both was not explored.
`aries_failures` trades the second record for a third crash, which interrupts the
repetition of an interrupted undo.

`btree`: keys of 2018 bytes make pages small: a leaf with one large cell and an
internal node with one routing key are full, so that four writes split leaves,
internal nodes and the root, and halves that do not fit occur. Ten pages are more
than four writes can use. `overflow`: 1024 bytes is the longest inline value and
8120 bytes fill two overflow pages exactly; six pages hold the three chains that
three writes can build. The cell that outlives its chain needs three writes and two
passes, and a GET to be followed; a failure counts as two of the three events
`MaxEvents` allows, so that it comes together with one pass or one GET. `restart`: one transaction with one write gives every kind
of record; with two stops a torn tail is written behind and then read; the two
theorems hold for any number of transactions, stops and failures.

Symmetry (pages in `aries_two_pages`) is used only in a run without liveness.

Fairness. `mvcc`: weak fairness of each rollback's steps (the goroutine runs
the loop without waiting for its client) and of the vacuum goroutine, an endless
loop of sleeping and sweeping. `server`: weak fairness of `Undo`, for the same
reason. `aries_failures`: weak fairness of `Recover`, a sequential function. `btree`: of
the steps of an upsert in progress. `overflow`: of the calls in progress together,
that is, the scheduler does not rest while one of them can take a step. `restart`: of `Progress`, the next step of the
running program; a write or sync is never assumed to succeed when it may fail.
Clients are never assumed to act, and crashes are bounded.

Conditional properties, where the condition is the point:

* `RolledBackDataErased` leaves out `failed` and `forgotten` transactions: an
  undo that could not read a record or a page, a cell whose record was refused, and
  a rollback whose last LSN `PruneTables` deleted between `btree.go:401` and `:403`
  leave data behind, which counts as committed once the entry is pruned. So does
  `DisconnectReleases`; `OrphansHoldNoKey` leaves out `failed` ones, since no caller
  rolls back after a refused append (`btree.go:561`, `:443`).
* `VacuumContract` speaks of sweeps where every version below the watermark is
  committed, which a rollback in progress breaks, as do the cells it appends.
* `ReadsRepeat` names what may change the GET of a running transaction: its own
  write and the commit of an older one. It speaks of keys without a version of an
  aborted transaction that the table has forgotten, and of sweeps as
  `VacuumContract` does, for readers at or above the watermark.
* `ImplementsStore` lets the sweep through, whose effect on readers is the subject
  of `VacuumContract`.
* `CommittedKept` leaves out pages in `missed.lost`: a page that is latched and
  logged but not yet marked dirty escapes the snapshot of a checkpoint.
* `Findable`, `OneWriterPerKey` and `LatestFound` hold as long as `hist.hurt` is
  empty, that is, none of six accidents has happened: a write to a leaf that was
  split between read and write latch ("late write"), a routing cell put into a
  node that no longer covers it ("stale path"), two writers raising roots ("two
  roots"), a half that does not fit its page ("cell dropped"), "crash in split",
  and a leaf left latched ("leaf stuck"). The properties say that a key is missed
  in no other way. `RoutingSound` and `PagesLaidOut` have no condition, and
  `NothingDestroyed` only two: the other four accidents hide keys, and the cells
  are still in some leaf or in the image a restart brings back.
* `OneWriterPerKey` also leaves out two versions with a leaf boundary between them,
  and `LatestFound` a reader with a boundary between its own position and a version
  below it; `RollbackErases` leaves out keys that a split wrote or moved.
* `UpsertReturns` and `CallsReturn` end where a failed allocation has returned with
  the leaf latched. `OneUse` gives the pages such calls drop the use "lost".
* `OneUse`, `ChainsWhole`, `ReadIntact` and `CallsReturn` end where a chain is freed
  a second time (`refreed`). `ReadIntact` also leaves out a GET that follows a cell
  whose chain is freed (`dangling`), and a short value whose leaf is rewritten
  between the release of its latch and the copy.
* `AckedKnown` and `RootKnown` speak of logs without damaged bytes and without a
  failed write that left bytes behind; `RootKnown` also of a first start that was
  not cut short and of page writes that were not lost. `LSNIsOffset` has the
  failed write as its only condition, `AckedInLog` none.

Runs that end in a violation, each a sentence of the repository that the code
does not keep:

| run | sentence | what happens |
|---|---|---|
| `mvcc_dirty_read` | `docs/anomalies.md:17` | pruning forgets a transaction in mid-rollback |
| `mvcc_repeatable_read` | `docs/anomalies.md:24` | an older transaction commits while a younger one runs, and the next GET of the younger one sees it (`btree.go:313` looks at the status now, not at the time of `BEGIN`) |
| `btree_latest_version` | `internal/storage/btree.go:322` | a split parts the versions of a key; a reader led to the right leaf misses the committed version in the left one |
| `aries_rollback` | `docs/transaction_architecture_plan.md:60` | redo repeats inserts but not CLRs |

Further limits of the code, which the models contain and no property hides:

* a younger transaction may overwrite a key that an older one changed and
  committed meanwhile (the conflict test compares identifiers, `btree.go:501`); the
  abstract store admits it too, though `docs/anomalies.md:38` calls lost updates
  prevented;
* a watermark taken while nothing ran is the largest number, and the sweep may
  then drop what a transaction begun since would read (`vacuum.go:30`;
  `docs/phase2_mvcc_aries_fixes.md:30` says that no active transaction ever needs
  what a sweep deletes);
* a transaction that is rolling back does not hold the watermark, so the
  committed version beneath its own may be dropped (`txn.go:84`);
* the undo of a delete leaves a live empty cell (`btree.go:416`), hence `nil` in
  `RolledBackDataErased`; appended behind a younger committed version of the key,
  it makes the sweep drop that version (`vacuum.go:98`);
* an auto-commit command that fails leaves its transaction running for ever
  (`server.go:94`; `docs/phase2_mvcc_aries_fixes.md:10` describes such
  transactions as a problem since solved): it holds no key but holds the watermark;
* a transaction whose records all precede the checkpoint is not undone
  (`wal.go:206`), hence `UndoErases` speaks of those that analysis finds;
* page writes are not synced (`pager.go:40`) and a torn page with a new header is
  not repaired (`recovery.go:136`), hence `CommittedKept` is checked under process
  crashes only;
* `COMMIT` answers OK when its log record could not be written (`server.go:68`),
  hence the two cases of `AckedKnown`.

## 4. Proofs

Six modules hold theorems; `tlapm` checks all of them to the last leaf.

**`MvccProofs`, `MvccRefinement`**, for every set of keys (numbers) and of payloads
and all bounds, from the assumptions `KeyAssumption`, `ValAssumption` (payloads
differ from the three marks of a cell) and `BoundAssumption`:

* `TypeCorrect`, `FirstUpdaterWinsHolds`, `StatusAgreesHolds`,
  `RolledBackDataErasedHolds`: invariants of `Spec`, vacuum included;
* `VacuumContractHolds`: the action property of the sweep;
* `ImplementsStoreHolds`: every step but a sweep is a step of the store;
  `StoreImplemented`: hence a behaviour without sweeps satisfies `Store!Spec`;
* `ReadsRepeatHolds`: what may change the GET of a running transaction.

The inductive invariant `IInv` adds to the checked properties: `Identifiers` (a
transaction that has not begun has left no trace, without which `Begin` could
meet an old version), `Table` (table and fate move together; a rolling
transaction is aborted), `UndoPending` (a payload or tombstone of an unfinished
transaction that is neither in `failed` nor in `forgotten` is still on its chain,
which makes `RolledBackDataErased` follow when the chain is empty) and `LateAborted` (only undo appends slots, so the sorted run
holds all committed versions). One lemma per conjunct, one step per action.

`VacuumContractHolds`: below the watermark all versions are committed, hence in
the sorted run by `LateAborted`. So an overridden version has a younger version
of its key as neighbour and is dropped (`OverriddenIsDropped`), and what is
dropped for its neighbour has a better version that the same reader sees
(`NeighbourIsBetter`). The best version of a reader survives, or is a tombstone
together with which all older versions go (`SweepReads`).

The refinement hides the cells of aborted transactions. The conflict test sees
them as the store does, since a live entry that is missing belongs to a committed
transaction (`Table`). `ReadsRepeatHolds`: where every aborted version is listed,
the versions a reader sees are its own and the committed ones below it
(`VisibleIsCommitted`); no step but the three exceptions changes that set or a cell
in it (`CommittedStays`), and the same versions give the same answer
(`SameVersionsSameRead`).

**`ServerProofs`**, for any set of connections: `ServerTypeCorrect`,
`SessionInLiveTxnHolds`, `OrphansHoldNoKeyHolds`, and `ServerImplementsEngine`
(`ServerSpec => Spec`), by which every theorem about the engine holds behind any
number of connections. The lemmas `BeginStarts`, `ClientEnds`, `UpsertWrites` and
their like reduce each action of the engine to one of four effects on the running
transactions and their versions (`Starts`, `Ends`, `Writes`, `Spares`); the
invariant `SInv` adds to `IInv` where a session may be (`Sessions`) and that a
session's transaction is nobody else's (`Owned`). `CommitFailsWrites` and
`AbandonKeeps` treat the transactions a session leaves behind running.

**`SlottedPageProofs`**: `InsertKeepsLayout`, for every set of cells and every
page: `Insert` keeps `Layout` when directory and cell together do not wrap 16 bits
(`Short`: below 61436 bytes). The code bounds inline values, not keys; a longer
cell than that is outside the theorem.

**`RestartProofs`**: `AckedInLogHolds` and `LSNIsOffsetHolds`, for any number of
transactions, stops and failing writes. `LInv` adds the shape of the log,
`InAppend` (between write and sync the record is the last and not yet covered),
`Kept` (an acknowledged commit is covered by a sync, not only in the file: this is
what a power failure preserves) and `Counted` (`currentLSN` is the size of the
file unless a write has failed half way). `LInv` was checked with TLC on the
bounds of `restart` first.

Only model-checked: the properties of `Aries`, `BTree` and `Overflow`, the other
properties of `Restart`, and all liveness, which the prover does not handle.
`Rebuild` and `SpaceNeeded` are folds over a page, whose results need induction
over sequences; hence `PagesLaidOut` is proved for one `Insert` and model-checked
for whole rewrites.

## 5. Not modelled

* The vacuum's walk over internal nodes (`vacuumNode`): it reads child pointers
  and changes leaves only, each as `VacuumLeaf` does. What it misses when a split
  runs at the same time is left for the next pass.
* The sweep inside `Aries`: it resets the page LSN and logs nothing
  (`vacuum.go:127`). The images of `Aries` have one slot per transaction and no
  watermark, and the product of vacuum and recovery is beyond the runs.
* Crashes of `Overflow`: the free list is logged by images before the change
  (`btree.go:197`), and redo drops the overflow flag (`recovery.go:221`). Both
  would need values, page images and the log in one module.
* Failing calls in `Aries`, and in `BTree` other than the allocation for a split:
  `insertIntoParent` goes on with a nil page after a failed allocation, which ends
  the process. `Mvcc`, `Server` and `Overflow` have the failing appends, fetches and
  reads of their calls, `Restart` those of the log and of `Recover`.
* Overflow chains of several leaves and the deletes of a key with a chain.
* The choice of the victim and the pin counts of the pool: any frame that nobody
  has latched may go.
* The clock behind transaction identifiers; `Find` and the transaction manager's
  own `Commit` and `Rollback`, which nothing calls.
* The client program, the wording of answers, logging, and socket errors other
  than the end of a connection: pure I/O.
