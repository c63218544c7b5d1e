------------------------------ MODULE Overflow -------------------------------
(***************************************************************************)
(* Values too long for a leaf: createOverflowChain, readOverflowChain and  *)
(* freeOverflowChain, and the free page list of allocatePage and           *)
(* deallocatePage, under upsertCell, FindLatest, Rollback and Vacuum.      *)
(*                                                                         *)
(* One leaf with the versions of one key; deletes, whose cells have no     *)
(* chain, are left to Mvcc.  The meta page is latched during an allocation *)
(* and a deallocation, which are therefore single steps.  A call that      *)
(* fails before it has changed anything is not a step.                     *)
(***************************************************************************)
EXTENDS Integers, FiniteSets, FiniteSetsExt

CONSTANTS Lens,      \* lengths of the values clients write, in bytes
          MaxTxn,    \* bound: transactions
          MaxWrites, \* bound: SET commands
          MaxPages,  \* bound: pages the file can have besides meta page and leaf
          MaxFail,   \* bound: failures of the buffer pool or the file
          MaxReads,  \* bound: GET commands
          MaxSweeps, \* bound: vacuum passes
          MaxEvents  \* bound: GET commands, vacuum passes and, as two each, failures

ASSUME LensAssumption == Lens \subseteq Nat
ASSUME OverflowBoundAssumption ==
  /\ MaxTxn \in Nat /\ MaxWrites \in Nat /\ MaxPages \in Nat
  /\ MaxFail \in Nat /\ MaxReads \in Nat /\ MaxSweeps \in Nat /\ MaxEvents \in Nat

Txn == 1 .. MaxTxn
PageID == 1 .. MaxPages
Vac == 0               \* the vacuum goroutine
Actor == Txn \cup {Vac}
MaxInlineValueSize == 1024
MaxOverflowDataSize == 4096 - 36

(* A value is the number of the write and its length. *)
NoVal == [id |-> 0, len |-> 0]
Value == [id : 0 .. MaxWrites, len : Lens \cup {0}]

(* The cell of a version: absent, inline, or the metadata of a chain. *)
NoCell == [kind |-> "absent", val |-> NoVal, first |-> 0]
Cell == [kind : {"absent", "inline", "overflow"}, val : Value, first : 0 .. MaxPages]

VARIABLES
  page,     \* pages of the file: type, link and the piece of a value in it
  free,     \* first free page, on the meta page
  leaf,     \* cell of each transaction's version
  latch,    \* holder of the leaf's write latch and its readers
  job,      \* what each writer and the vacuum are doing
  get,      \* a GET command in progress
  status,   \* transaction manager
  recs,     \* length of each transaction's chain of log records, from lsnTable
  count,    \* writes, failures, reads and sweeps so far
  lost,     \* history: pages that were dropped without being freed
  dangling, \* history: transactions whose cell outlived its freed chain
  refreed   \* history: has such a chain been freed again?

txmgr == <<status, recs>>
hist == <<lost, dangling, refreed>>
vars == <<page, free, leaf, latch, job, get, txmgr, count, hist>>

NoPage == [type |-> "none", next |-> 0, id |-> 0, at |-> 0]
Nobody == -1
Stuck == -2       \* latched by a call that has returned
Idle == [at |-> "idle", val |-> NoVal, left |-> 0, first |-> 0, new |-> 0, prev |-> 0,
         built |-> {}, cur |-> 0, next |-> 0, drop |-> {}, todo |-> {}, min |-> 0]
NoGet == [at |-> "idle", want |-> NoVal, cur |-> 0, read |-> 0, ok |-> TRUE, moved |-> FALSE]

TypeOK ==
  /\ page \in [PageID -> [type : {"none", "overflow", "free"}, next : 0 .. MaxPages,
                          id : 0 .. MaxWrites, at : Nat]]
  /\ free \in 0 .. MaxPages
  /\ leaf \in [Txn -> Cell]
  /\ latch.by \in Actor \cup {Nobody, Stuck} /\ latch.readers \in 0 .. 1
  /\ \A a \in Actor :
       /\ job[a].at \in {"idle", "alloc", "fill", "below", "free", "dealloc", "above",
                         "mark", "lsn", "undo", "wait", "sweep", "prune"}
       /\ job[a].left \in 0 .. Max(Lens \cup {MaxWrites}) /\ job[a].cur \in 0 .. MaxPages
       /\ job[a].val \in Value /\ job[a].built \subseteq PageID
       /\ job[a].todo \subseteq job[a].drop /\ job[a].drop \subseteq Txn
  /\ get.want \in Value /\ get.read \in Nat /\ get.cur \in 0 .. MaxPages
  /\ status \in [Txn -> {"none", "running", "rolling", "committed", "aborted", "gone"}]
  /\ recs \in [Txn -> 0 .. MaxWrites]
  /\ lost \subseteq PageID /\ dangling \subseteq Txn /\ refreed \in BOOLEAN

Init ==
  /\ page = [p \in PageID |-> NoPage]
  /\ free = 0
  /\ leaf = [t \in Txn |-> NoCell]
  /\ latch = [by |-> Nobody, readers |-> 0]
  /\ job = [a \in Actor |-> Idle]
  /\ get = NoGet
  /\ status = [t \in Txn |-> "none"]
  /\ recs = [t \in Txn |-> 0]
  /\ count = [write |-> 0, fail |-> 0, read |-> 0, sweep |-> 0]
  /\ lost = {} /\ dangling = {} /\ refreed = FALSE

IsCommitted(t) == status[t] \in {"committed", "gone"}

(* The write latch excludes readers and writers. *)
CanLatch == latch.by = Nobody /\ latch.readers = 0
Released == [latch EXCEPT !.by = Nobody]

(* A rewrite of the leaf moves the bytes a returned value still points to. *)
GetAfterRewrite == [get EXCEPT !.moved = @ \/ get.at = "use"]

Another(n) == count.read + count.sweep + 2 * count.fail + n <= MaxEvents

(* A failure of the buffer pool, the file or the log. *)
Failure ==
  /\ count.fail < MaxFail /\ Another(2)
  /\ count' = [count EXCEPT !.fail = @ + 1]

-----------------------------------------------------------------------------
(* Free page list *)

NeverUsed == {p \in PageID : page[p].type = "none"}

(* allocatePage: pop the free list, else extend the file. *)
Allocated(p) ==
  IF free # 0 THEN p = free ELSE NeverUsed # {} /\ p = Min(NeverUsed)

(* Mutant: the popped page stays at the head of the list. *)
FreeAfterAllocUnchanged == free

FreeAfterAlloc == IF free # 0 THEN page[free].next ELSE 0

-----------------------------------------------------------------------------
(* upsertCell *)

(* The leaf is latched; a long value goes to overflow pages first. *)
StartUpsert(t, len) ==
  /\ status[t] = "running" /\ job[t].at = "idle" /\ CanLatch
  /\ count.write < MaxWrites
  /\ count' = [count EXCEPT !.write = @ + 1]
  /\ latch' = [latch EXCEPT !.by = t]
  /\ job' = [job EXCEPT ![t] = [Idle EXCEPT
       !.at = IF len > MaxInlineValueSize THEN "alloc" ELSE "below", !.left = len,
       !.val = [id |-> count.write + 1, len |-> len]]]
  /\ UNCHANGED <<page, free, leaf, get, txmgr, hist>>

(* createOverflowChain, one turn: a page is allocated, which waits for ever *)
(* when the list offers the page before, still latched, ...                 *)
ChainAllocate(t) ==
  /\ job[t].at = "alloc" /\ (free = 0 \/ free # job[t].prev)
  /\ \E p \in PageID :
       /\ Allocated(p)
       /\ free' = FreeAfterAlloc
       /\ page' = [page EXCEPT ![p].type = "overflow"]
       /\ job' = [job EXCEPT ![t].at = "fill", ![t].new = p, ![t].built = @ \cup {p},
                             ![t].first = IF @ = 0 THEN p ELSE @]
  /\ UNCHANGED <<leaf, latch, get, txmgr, count, hist>>

(* Mutant: every page gets the first piece. *)
ChainFillSamePiece(t) ==
  LET p == job[t].new
      prev == job[t].prev
      chunk == Min({job[t].left, MaxOverflowDataSize})
  IN  /\ job[t].at = "fill"
      /\ page' = [q \in PageID |->
           IF q = p THEN [page[p] EXCEPT !.next = 0, !.id = job[t].val.id, !.at = 0]
           ELSE IF q = prev THEN [page[q] EXCEPT !.next = p] ELSE page[q]]
      /\ job' = [job EXCEPT ![t].at = IF job[t].left = chunk THEN "below" ELSE "alloc",
                            ![t].prev = p, ![t].left = @ - chunk]
      /\ UNCHANGED <<free, leaf, latch, get, txmgr, count, hist>>

(* ... linked to the one before, and filled with the next piece. *)
ChainFill(t) ==
  LET p == job[t].new
      prev == job[t].prev
      chunk == Min({job[t].left, MaxOverflowDataSize})
  IN  /\ job[t].at = "fill"
      /\ page' = [q \in PageID |->
           IF q = p THEN [page[p] EXCEPT !.next = 0, !.id = job[t].val.id,
                                         !.at = job[t].val.len - job[t].left]
           ELSE IF q = prev THEN [page[q] EXCEPT !.next = p] ELSE page[q]]
      /\ job' = [job EXCEPT ![t].at = IF job[t].left = chunk THEN "below" ELSE "alloc",
                            ![t].prev = p, ![t].left = @ - chunk]
      /\ UNCHANGED <<free, leaf, latch, get, txmgr, count, hist>>

(* No page is to be had, or the page popped or appended cannot be fetched:  *)
(* the call returns, the leaf stays latched, and what was built is dropped. *)
ChainFails(t) ==
  /\ job[t].at = "alloc" /\ Failure
  /\ \/ UNCHANGED <<page, free>> /\ lost' = lost \cup job[t].built
     \/ \E p \in PageID :
          /\ Allocated(p)
          /\ free' = FreeAfterAlloc
          /\ page' = [page EXCEPT ![p].type = "overflow"]
          /\ lost' = lost \cup job[t].built \cup {p}
  /\ latch' = [latch EXCEPT !.by = Stuck]
  /\ job' = [job EXCEPT ![t] = Idle]
  /\ UNCHANGED <<leaf, get, txmgr, dangling, refreed>>

Conflict(t, S) ==
  \E u \in S : leaf[u].kind # "absent" /\ (status[u] = "running" \/ (IsCommitted(u) /\ u > t))

(* The scan of the leaf up to the writer's own cell, whose old chain it     *)
(* frees at once.                                                           *)
ScanBelow(t) ==
  /\ job[t].at = "below" /\ ~Conflict(t, {u \in Txn : u < t})
  /\ job' = [job EXCEPT ![t] = IF leaf[t].kind = "overflow"
                               THEN [@ EXCEPT !.at = "free", !.cur = leaf[t].first]
                               ELSE [@ EXCEPT !.at = "above"]]
  /\ UNCHANGED <<page, free, leaf, latch, get, txmgr, count, hist>>

(* The rest of the scan; then the page is rewritten and the record appended *)
(* to the transaction's chain.  When Append fails, the cell is there and    *)
(* the record is not.                                                       *)
ScanAbove(t) ==
  /\ job[t].at = "above" /\ ~Conflict(t, {u \in Txn : u > t})
  /\ leaf' = [leaf EXCEPT ![t] =
       [kind |-> IF job[t].first = 0 THEN "inline" ELSE "overflow",
        val |-> job[t].val, first |-> job[t].first]]
  /\ \/ recs' = [recs EXCEPT ![t] = @ + 1] /\ UNCHANGED count
     \/ Failure /\ UNCHANGED recs
  /\ latch' = Released
  /\ get' = GetAfterRewrite
  /\ job' = [job EXCEPT ![t] = Idle]
  /\ UNCHANGED <<page, free, status, hist>>

(* A conflict above the writer's own cell comes when that cell's chain is   *)
(* freed already.                                                           *)
DanglingAfterConflict(t) ==
  IF job[t].at = "above" /\ leaf[t].kind = "overflow" THEN dangling \cup {t} ELSE dangling

(* Mutant: the conflict exit does not unpin the leaf. *)
UpsertConflictStaysLatched(t) ==
  /\ \/ job[t].at = "below" /\ Conflict(t, {u \in Txn : u < t})
     \/ job[t].at = "above" /\ Conflict(t, {u \in Txn : u > t})
  /\ lost' = lost \cup job[t].built
  /\ dangling' = DanglingAfterConflict(t)
  /\ job' = [job EXCEPT ![t] = [Idle EXCEPT !.at = "mark"]]
  /\ UNCHANGED <<page, free, leaf, latch, get, txmgr, count, refreed>>

(* The conflict exit: the new chain is dropped, DB.Set calls Rollback. *)
UpsertConflict(t) ==
  /\ \/ job[t].at = "below" /\ Conflict(t, {u \in Txn : u < t})
     \/ job[t].at = "above" /\ Conflict(t, {u \in Txn : u > t})
  /\ lost' = lost \cup job[t].built
  /\ dangling' = DanglingAfterConflict(t)
  /\ latch' = Released
  /\ job' = [job EXCEPT ![t] = [Idle EXCEPT !.at = "mark"]]
  /\ UNCHANGED <<page, free, leaf, get, txmgr, count, refreed>>

-----------------------------------------------------------------------------
(* The pages of the chain that starts with p. *)
ChainFrom(p) ==
  LET reach[n \in 0 .. MaxPages] ==
        IF n = 0 THEN {p} \ {0}
        ELSE LET S == reach[n - 1] IN S \cup ({page[q].next : q \in S} \ {0})
  IN  reach[MaxPages]

(* freeOverflowChain, for a writer or the vacuum: the link is read ... *)
FreeRead(a) ==
  /\ job[a].at = "free" /\ job[a].cur # 0
  /\ job' = [job EXCEPT ![a].at = "dealloc", ![a].next = page[job[a].cur].next]
  /\ UNCHANGED <<page, free, leaf, latch, get, txmgr, count, hist>>

(* ... and deallocatePage pushes the page. *)
Deallocate(a) ==
  LET p == job[a].cur
  IN  /\ job[a].at = "dealloc"
      /\ page' = [page EXCEPT ![p].type = "free", ![p].next = free]
      /\ free' = p
      /\ job' = [job EXCEPT ![a].at = "free", ![a].cur = job[a].next]
      /\ UNCHANGED <<leaf, latch, get, txmgr, count, hist>>

(* A page that cannot be fetched ends the loop; one that cannot be pushed   *)
(* is skipped.                                                              *)
FreeFails(a) ==
  /\ Failure
  /\ \/ /\ job[a].at = "free" /\ job[a].cur # 0
        /\ lost' = lost \cup ChainFrom(job[a].cur)
        /\ job' = [job EXCEPT ![a].cur = 0]
     \/ /\ job[a].at = "dealloc"
        /\ lost' = lost \cup {job[a].cur}
        /\ job' = [job EXCEPT ![a].at = "free", ![a].cur = job[a].next]
  /\ UNCHANGED <<page, free, leaf, latch, get, txmgr, dangling, refreed>>

FreeEnd(a) ==
  /\ job[a].at = "free" /\ job[a].cur = 0
  /\ job' = [job EXCEPT ![a].at = IF a = Vac THEN "sweep" ELSE "above"]
  /\ UNCHANGED <<page, free, leaf, latch, get, txmgr, count, hist>>

-----------------------------------------------------------------------------
(* Begin, Commit and Rollback *)

(* Identifiers are given out in the order of Begin. *)
Begin(t) ==
  /\ status[t] = "none" /\ \A u \in Txn : u < t => status[u] # "none"
  /\ status' = [status EXCEPT ![t] = "running"]
  /\ UNCHANGED <<page, free, leaf, latch, job, get, recs, count, hist>>

(* A Commit that fails leaves the transaction as it is. *)
Commit(t) ==
  /\ status[t] = "running" /\ job[t].at = "idle"
  /\ status' = [status EXCEPT ![t] = "committed"]
  /\ UNCHANGED <<page, free, leaf, latch, job, get, recs, count, hist>>

(* Rollback, called by the client or after a conflict: the status first, *)
MarkRollingBack(t) ==
  /\ status' = [status EXCEPT ![t] = "rolling"]
  /\ job' = [job EXCEPT ![t].at = "lsn"]
  /\ UNCHANGED <<page, free, leaf, latch, get, recs, count, hist>>

StartRollback(t) ==
  /\ status[t] = "running" /\ job[t].at = "idle"
  /\ MarkRollingBack(t)

RollbackConflict(t) ==
  /\ job[t].at = "mark"
  /\ MarkRollingBack(t)

(* then the head of the chain of records, if it is still in the table. *)
GetLastLSN(t) ==
  /\ job[t].at = "lsn"
  /\ job' = [job EXCEPT ![t].at = "undo", ![t].left = recs[t]]
  /\ UNCHANGED <<page, free, leaf, latch, get, txmgr, count, hist>>

(* redoUpsertOnPage takes the cell away and leaves its chain behind; the    *)
(* older records then find no cell.                                         *)
Undo(t) ==
  /\ job[t].at = "undo" /\ job[t].left > 0 /\ CanLatch
  /\ lost' = IF t \in dangling THEN lost ELSE lost \cup ChainFrom(leaf[t].first)
  /\ dangling' = dangling \ {t}
  /\ leaf' = [leaf EXCEPT ![t] = NoCell]
  /\ get' = IF leaf[t].kind = "absent" THEN get ELSE GetAfterRewrite
  /\ job' = [job EXCEPT ![t].left = @ - 1]
  /\ UNCHANGED <<page, free, latch, txmgr, count, refreed>>

(* A leaf that cannot be fetched is skipped; a record that cannot be read   *)
(* ends the call.                                                           *)
UndoFails(t) ==
  /\ job[t].at = "undo" /\ job[t].left > 0 /\ Failure
  /\ \/ job' = [job EXCEPT ![t].left = @ - 1]
     \/ job' = [job EXCEPT ![t] = Idle]
  /\ UNCHANGED <<page, free, leaf, latch, get, txmgr, hist>>

FinishRollback(t) ==
  /\ job[t].at = "undo" /\ job[t].left = 0
  /\ status' = [status EXCEPT ![t] = "aborted"]
  /\ job' = [job EXCEPT ![t] = Idle]
  /\ UNCHANGED <<page, free, leaf, latch, get, recs, count, hist>>

-----------------------------------------------------------------------------
(* Vacuum computes the watermark, the reader below counted in no pass, ... *)
StartVacuum ==
  /\ job[Vac].at = "idle" /\ count.sweep < MaxSweeps /\ Another(1)
  /\ count' = [count EXCEPT !.sweep = @ + 1]
  /\ job' = [job EXCEPT ![Vac] = [Idle EXCEPT !.at = "wait",
       !.min = Min({t \in Txn : status[t] = "running"} \cup {MaxTxn + 1})]]
  /\ UNCHANGED <<page, free, leaf, latch, get, txmgr, hist>>

(* Mutant: chains are freed before it is known which versions go. *)
VacuumLeafFreesAll ==
  LET present == {t \in Txn : leaf[t].kind # "absent"}
      above(t) == {u \in present : u > t}
      old == {t \in present : above(t) # {} /\ Min(above(t)) < job[Vac].min}
  IN  /\ job[Vac].at = "wait" /\ CanLatch
      /\ latch' = [latch EXCEPT !.by = Vac]
      /\ job' = [job EXCEPT ![Vac].at = "sweep", ![Vac].drop = old, ![Vac].todo = present]
      /\ UNCHANGED <<page, free, leaf, get, txmgr, count, hist>>

(* ... and sweeps the leaf: a version goes when the next one lies below the *)
(* watermark.                                                               *)
VacuumLeaf ==
  LET present == {t \in Txn : leaf[t].kind # "absent"}
      above(t) == {u \in present : u > t}
      old == {t \in present : above(t) # {} /\ Min(above(t)) < job[Vac].min}
  IN  /\ job[Vac].at = "wait" /\ CanLatch
      /\ latch' = [latch EXCEPT !.by = Vac]
      /\ job' = [job EXCEPT ![Vac].at = "sweep", ![Vac].drop = old, ![Vac].todo = old]
      /\ UNCHANGED <<page, free, leaf, get, txmgr, count, hist>>

(* The leaf cannot be fetched: the tables are pruned all the same. *)
VacuumLeafFails ==
  /\ job[Vac].at = "wait" /\ Failure
  /\ job' = [job EXCEPT ![Vac].at = "prune"]
  /\ UNCHANGED <<page, free, leaf, latch, get, txmgr, hist>>

(* The chain of the next version to go is freed. *)
VacuumFree ==
  LET t == Min(job[Vac].todo)
  IN  /\ job[Vac].at = "sweep" /\ job[Vac].todo # {}
      /\ job' = [job EXCEPT ![Vac].todo = @ \ {t}, ![Vac].cur = leaf[t].first,
           ![Vac].at = IF leaf[t].kind = "overflow" THEN "free" ELSE "sweep"]
      /\ refreed' = (refreed \/ t \in dangling)
      /\ UNCHANGED <<page, free, leaf, latch, get, txmgr, count, lost, dangling>>

(* The leaf is rewritten if anything went. *)
VacuumRewrite ==
  /\ job[Vac].at = "sweep" /\ job[Vac].todo = {}
  /\ leaf' = [t \in Txn |-> IF t \in job[Vac].drop THEN NoCell ELSE leaf[t]]
  /\ get' = IF job[Vac].drop = {} THEN get ELSE GetAfterRewrite
  /\ latch' = Released
  /\ job' = [job EXCEPT ![Vac].at = "prune"]
  /\ dangling' = dangling \ job[Vac].drop
  /\ UNCHANGED <<page, free, txmgr, count, lost, refreed>>

PruneTables ==
  /\ job[Vac].at = "prune"
  /\ LET pruned == {t \in Txn : status[t] \notin {"none", "running"} /\ t < job[Vac].min}
     IN  /\ status' = [t \in Txn |-> IF t \in pruned THEN "gone" ELSE status[t]]
         /\ recs' = [t \in Txn |-> IF t \in pruned THEN 0 ELSE recs[t]]
  /\ job' = [job EXCEPT ![Vac] = Idle]
  /\ UNCHANGED <<page, free, leaf, latch, get, count, hist>>

-----------------------------------------------------------------------------
(* GET of a transaction younger than the writers that have begun *)

(* Mutant: the leaf is released before the chain is read. *)
FindLatestUnlatched ==
  LET visible == {t \in Txn : leaf[t].kind # "absent" /\ IsCommitted(t)}
      cell == leaf[Max(visible)]
  IN  /\ get.at \in {"idle", "done"} /\ count.read < MaxReads /\ Another(1)
      /\ latch.by = Nobody /\ visible # {}
      /\ count' = [count EXCEPT !.read = @ + 1]
      /\ get' = [NoGet EXCEPT !.at = IF cell.kind = "inline" THEN "use" ELSE "walk",
                              !.want = cell.val, !.cur = cell.first,
                              !.moved = Max(visible) \in dangling]
      /\ UNCHANGED <<page, free, leaf, latch, job, txmgr, hist>>

(* FindLatest: of a long value the chain is read under the read latch of    *)
(* the leaf; of a short one a slice of the page is returned, and DB.Get     *)
(* copies it when the latch is gone.                                        *)
FindLatest ==
  LET visible == {t \in Txn : leaf[t].kind # "absent" /\ IsCommitted(t)}
      cell == leaf[Max(visible)]
  IN  /\ get.at \in {"idle", "done"} /\ count.read < MaxReads /\ Another(1)
      /\ latch.by = Nobody /\ visible # {}
      /\ count' = [count EXCEPT !.read = @ + 1]
      /\ IF cell.kind = "inline"
         THEN /\ get' = [NoGet EXCEPT !.at = "use", !.want = cell.val]
              /\ UNCHANGED latch
         ELSE /\ get' = [NoGet EXCEPT !.at = "walk", !.want = cell.val, !.cur = cell.first,
                                       !.moved = Max(visible) \in dangling]
              /\ latch' = [latch EXCEPT !.readers = 1]
      /\ UNCHANGED <<page, free, leaf, job, txmgr, hist>>

(* readOverflowChain, one page. *)
ReadChain ==
  LET p == page[get.cur]
      chunk == Min({get.want.len - get.read, MaxOverflowDataSize})
  IN  /\ get.at = "walk" /\ get.cur # 0
      /\ get' = [get EXCEPT !.cur = p.next, !.read = @ + chunk,
           !.ok = @ /\ p.type = "overflow" /\ p.id = get.want.id /\ p.at = get.read]
      /\ UNCHANGED <<page, free, leaf, latch, job, txmgr, count, hist>>

(* A page cannot be fetched: the GET ends with an error. *)
ReadFails ==
  /\ get.at = "walk" /\ get.cur # 0 /\ Failure
  /\ get' = NoGet
  /\ latch' = [latch EXCEPT !.readers = 0]
  /\ UNCHANGED <<page, free, leaf, job, txmgr, hist>>

ReadEnd ==
  /\ get.at = "walk" /\ get.cur = 0
  /\ get' = [NoGet EXCEPT !.at = "done", !.moved = get.moved,
                          !.ok = get.ok /\ get.read = get.want.len]
  /\ latch' = [latch EXCEPT !.readers = 0]
  /\ UNCHANGED <<page, free, leaf, job, txmgr, count, hist>>

CopyInline ==
  /\ get.at = "use"
  /\ \E intact \in BOOLEAN :
       /\ get.moved \/ intact
       /\ get' = [NoGet EXCEPT !.at = "done", !.moved = get.moved, !.ok = intact]
  /\ UNCHANGED <<page, free, leaf, latch, job, txmgr, count, hist>>

-----------------------------------------------------------------------------
FreeStep(a) == FreeRead(a) \/ Deallocate(a) \/ FreeFails(a) \/ FreeEnd(a)

WriterStep(t) ==
  \/ ChainAllocate(t) \/ ChainFill(t) \/ ChainFails(t)
  \/ ScanBelow(t) \/ FreeStep(t) \/ ScanAbove(t) \/ UpsertConflict(t)
  \/ RollbackConflict(t) \/ GetLastLSN(t) \/ Undo(t) \/ UndoFails(t) \/ FinishRollback(t)

VacuumStep ==
  \/ VacuumLeaf \/ VacuumLeafFails \/ VacuumFree \/ FreeStep(Vac)
  \/ VacuumRewrite \/ PruneTables

GetStep == ReadChain \/ ReadFails \/ ReadEnd \/ CopyInline

Next ==
  \/ \E t \in Txn, len \in Lens : StartUpsert(t, len)
  \/ \E t \in Txn : Begin(t) \/ WriterStep(t) \/ Commit(t) \/ StartRollback(t)
  \/ StartVacuum \/ VacuumStep
  \/ FindLatest \/ GetStep

Spec == Init /\ [][Next]_vars

(* The scheduler never rests while a goroutine can run. *)
FairSpec == Spec /\ WF_vars((\E t \in Txn : WriterStep(t)) \/ VacuumStep \/ GetStep)

-----------------------------------------------------------------------------
FreePages == ChainFrom(free)

(* The chains of the cells a reader could follow: not those that are being  *)
(* freed by whoever holds the leaf's latch, or were freed before a conflict *)
(* made the writer keep its cell.                                           *)
Owner(t) ==
  /\ leaf[t].kind = "overflow" /\ t \notin dangling
  /\ ~(latch.by = t /\ job[t].at \in {"free", "dealloc", "above"})
  /\ ~(latch.by = Vac /\ t \in job[Vac].drop)

(* What is left of a chain that is being freed. *)
Freeing ==
  UNION {ChainFrom(IF job[a].at = "dealloc" THEN job[a].next ELSE job[a].cur) \cup
         (IF job[a].at = "dealloc" THEN {job[a].cur} ELSE {}) :
           a \in {b \in Actor : job[b].at \in {"free", "dealloc"}}}
  \cup UNION {ChainFrom(leaf[t].first) : t \in job[Vac].todo \ dangling}

(* Every page of the file has one use: it is on the free list, in the chain *)
(* of one cell, in the hands of the goroutine that builds or frees a chain, *)
(* or dropped by one of the calls that do so.  So no page is given out      *)
(* twice, and no other path leaks one.  Nothing is said once a chain freed  *)
(* before a conflict (btree.go:513, then 501) is freed again by a sweep.    *)
OneUse ==
  LET chains == [t \in Txn |-> IF Owner(t) THEN ChainFrom(leaf[t].first) ELSE {}]
      built == [t \in Txn |-> job[t].built]
      freed == FreePages
      freeing == Freeing
      uses(p) == {<<"cell", t>> : t \in {u \in Txn : p \in chains[u]}}
                 \cup {<<"built", t>> : t \in {u \in Txn : p \in built[u]}}
                 \cup (IF p \in freed THEN {<<"free", 0>>} ELSE {})
                 \cup (IF p \in freeing THEN {<<"freeing", 0>>} ELSE {})
                 \cup (IF p \in lost THEN {<<"lost", 0>>} ELSE {})
  IN  ~refreed => \A p \in PageID : Cardinality(uses(p)) = IF page[p].type = "none" THEN 0 ELSE 1

(* The stored chain of every readable cell holds its value, piece by piece  *)
(* and to its last byte, and ends there, until a chain is freed twice.      *)
ChainsWhole ==
  ~refreed => \A t \in Txn : Owner(t) =>
    LET pieces == ChainFrom(leaf[t].first)
        len == leaf[t].val.len
    IN  /\ \A p \in pieces : page[p].type = "overflow" /\ page[p].id = leaf[t].val.id
        /\ {page[p].at : p \in pieces}
             = {n * MaxOverflowDataSize : n \in 0 .. (len - 1) \div MaxOverflowDataSize}

(* A GET returns the bytes that were written, whatever is overwritten,      *)
(* rolled back or vacuumed meanwhile, except a short value whose leaf is    *)
(* rewritten between the release of its latch and the copy, a cell whose    *)
(* chain was freed before a conflict and whose transaction was pruned while *)
(* it rolled back, and whatever follows when such a chain is freed again.   *)
ReadIntact ==
  get.at = "done" /\ ~get.moved /\ ~refreed => get.ok

(* Calls return: when the last of the finitely many commands has been       *)
(* given, all of them do, unless a failed allocation has left the leaf      *)
(* latched or a chain freed twice has made the free list a circle.          *)
CallsReturn ==
  (\E a \in Actor : job[a].at # "idle") ~>
    (\A a \in Actor : job[a].at = "idle") \/ latch.by = Stuck \/ refreed
=============================================================================
