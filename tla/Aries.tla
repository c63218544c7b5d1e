-------------------------------- MODULE Aries --------------------------------
(***************************************************************************)
(* Durability: the write-ahead log (wal.go), the frames of the buffer pool *)
(* with their full page writes, dirty bits and recovery LSNs               *)
(* (buffer_manager.go), fuzzy checkpoints (Checkpoint), commit, rollback   *)
(* and ARIES recovery (recovery.go), under crashes at any step, recovery   *)
(* included.                                                               *)
(*                                                                         *)
(* Every page is a leaf with the versions of one key; splits, overflow     *)
(* pages and vacuum belong to other modules.  An LSN is the position of a  *)
(* record in the log; 0 is no record.                                      *)
(***************************************************************************)
EXTENDS Integers, Sequences, FiniteSets

CONSTANTS Page,      \* leaf pages
          Op,        \* data operations the clients use: "insert", "delete"
          Failure,   \* kinds of crash: "process", "power", "torn"
          MaxTxn,    \* bound: transactions begun
          MaxOps,    \* bound: data records a transaction logs
          MaxCkpt,   \* bound: checkpoints
          MaxCrash   \* bound: crashes

ASSUME OpAssumption == Op \subseteq {"insert", "delete"}
ASSUME FailureAssumption == Failure \subseteq {"process", "power", "torn"}
ASSUME BoundAssumption == MaxTxn \in Nat /\ MaxOps \in Nat /\ MaxCkpt \in Nat /\ MaxCrash \in Nat
ASSUME PageAssumption == "none" \notin Page

Txn == 1 .. MaxTxn

(* The cell of each transaction's version on a page. *)
Image == [Txn -> {"absent", "live", "tombstone", "nil"}]
Empty == [t \in Txn |-> "absent"]

(* A dirty page table maps pages to recovery LSNs; NoEntry: page not in it. *)
NoEntry == -1
NoDPT == [p \in Page |-> NoEntry]

LogRecord == [op : {"fullpage", "insert", "delete", "clr", "commit", "abort", "checkpoint"},
              txn : 0 .. MaxTxn, page : Page \cup {"none"}, prev : Nat,
              img : Image, dpt : [Page -> Nat \cup {NoEntry}]]

Rec(op, t, p, prev) ==
  [op |-> op, txn |-> t, page |-> p, prev |-> prev, img |-> Empty, dpt |-> NoDPT]

VARIABLES
  wal,     \* the log file; Append syncs before it returns
  disk,    \* page images that survive a power failure
  file,    \* page images as the operating system shows them
  master,  \* checkpoint.meta: LSN of the checkpoint in force, 0 if none
  pool,    \* frames of the buffer pool
  latch,   \* write latch of each frame: its holder and whether it wrote
  txn,     \* transaction manager: status, lsnTable entry, Rollback's lsn
  ckpt,    \* the checkpoint goroutine
  rcv,     \* Recover: phase and local variables
  crashes,
  missed   \* history variable, see CkptRename

vars == <<wal, disk, file, master, pool, latch, txn, ckpt, rcv, crashes, missed>>

NoFrame == [in |-> FALSE, img |-> Empty, lsn |-> 0, dirty |-> FALSE, rec |-> 0]
NoLatch == [by |-> 0, wrote |-> FALSE]
NoTxn == [st |-> "none", last |-> 0, undo |-> 0]
NoCkpt == [at |-> "idle", dpt |-> NoDPT, lsn |-> 0, missed |-> {}]
Up == [at |-> "up", lsn |-> 0, dpt |-> NoDPT, att |-> [t \in Txn |-> 0], fresh |-> {}]

TypeOK ==
  /\ wal \in Seq(LogRecord)
  /\ disk \in [Page -> [img : Image, lsn : Nat]]
  /\ file \in [Page -> [img : Image, lsn : Nat]]
  /\ master \in Nat
  /\ pool \in [Page -> [in : BOOLEAN, img : Image, lsn : Nat, dirty : BOOLEAN, rec : Nat]]
  /\ latch \in [Page -> [by : 0 .. MaxTxn, wrote : BOOLEAN]]
  /\ txn \in [Txn -> [st : {"none", "running", "committed", "rolling", "rolledback", "gone"},
                      last : Nat, undo : Nat]]
  /\ ckpt \in [at : {"idle", "snapped", "logged"}, dpt : [Page -> Nat \cup {NoEntry}],
               lsn : Nat, missed : SUBSET Page]
  /\ rcv \in [at : {"up", "analysis", "redo", "undo", "abort"}, lsn : Nat,
              dpt : [Page -> Nat \cup {NoEntry}], att : [Txn -> Nat], fresh : SUBSET Txn]
  /\ crashes \in 0 .. MaxCrash
  /\ missed \in [now : SUBSET Page, lost : SUBSET Page]

Init ==
  /\ wal = <<>>
  /\ disk = [p \in Page |-> [img |-> Empty, lsn |-> 0]]
  /\ file = disk
  /\ master = 0
  /\ pool = [p \in Page |-> NoFrame]
  /\ latch = [p \in Page |-> NoLatch]
  /\ txn = [t \in Txn |-> NoTxn]
  /\ ckpt = NoCkpt
  /\ rcv = Up
  /\ crashes = 0
  /\ missed = [now |-> {}, lost |-> {}]

-----------------------------------------------------------------------------
(* Buffer pool *)

(* getFrame: the frame of p, read from the file when it is not in the pool. *)
Frame(p) ==
  IF pool[p].in THEN pool[p]
  ELSE [NoFrame EXCEPT !.in = TRUE, !.img = file[p].img, !.lsn = file[p].lsn]

(* FetchPageForWrite: a clean page is first logged in full.  Log and frame  *)
(* as the caller finds them.                                                *)
LogAfterFetch(p) ==
  IF Frame(p).dirty THEN wal
  ELSE Append(wal, [Rec("fullpage", 0, p, 0) EXCEPT !.img = Frame(p).img])

(* Mutant: the recovery LSN moves with every write. *)
FrameAfterFetchMovesRec(p) ==
  IF Frame(p).dirty THEN [Frame(p) EXCEPT !.rec = Len(wal) + 1]
  ELSE [Frame(p) EXCEPT !.lsn = Len(wal) + 1, !.rec = Len(wal) + 1]

FrameAfterFetch(p) ==
  IF Frame(p).dirty THEN Frame(p)
  ELSE [Frame(p) EXCEPT !.lsn = Len(wal) + 1, !.rec = Len(wal) + 1]

(* Mutant: evict does not write the dirty frame. *)
EvictUnwritten(p) ==
  /\ pool[p].in /\ latch[p].by = 0
  /\ pool' = [pool EXCEPT ![p] = NoFrame]
  /\ UNCHANGED <<wal, disk, file, master, latch, txn, ckpt, rcv, crashes, missed>>

(* evict takes any unpinned frame when another page needs the room. *)
Evict(p) ==
  /\ pool[p].in /\ latch[p].by = 0
  /\ file' = IF pool[p].dirty
             THEN [file EXCEPT ![p] = [img |-> pool[p].img, lsn |-> pool[p].lsn]]
             ELSE file
  /\ pool' = [pool EXCEPT ![p] = NoFrame]
  /\ UNCHANGED <<wal, disk, master, latch, txn, ckpt, rcv, crashes, missed>>

(* External: the kernel writes a page back; the program never calls Sync.   *)
WriteBack(p) ==
  /\ "power" \in Failure
  /\ disk[p] # file[p]
  /\ disk' = [disk EXCEPT ![p] = file[p]]
  /\ UNCHANGED <<wal, file, master, pool, latch, txn, ckpt, rcv, crashes, missed>>

-----------------------------------------------------------------------------
(* Transactions *)

Working(t) == rcv.at = "up" /\ txn[t].st = "running"

HoldsLatch(t) == \E p \in Page : latch[p].by = t

Begin(t) ==
  /\ rcv.at = "up"
  /\ txn[t].st = "none" /\ \A u \in Txn : u < t => txn[u].st # "none"
  /\ txn' = [txn EXCEPT ![t].st = "running"]
  /\ UNCHANGED <<wal, disk, file, master, pool, latch, ckpt, rcv, crashes, missed>>

(* upsertCell, first part: the leaf is fetched for writing. *)
FetchForWrite(t, p) ==
  /\ Working(t) /\ ~HoldsLatch(t)
  /\ latch[p].by = 0
  /\ Cardinality({n \in DOMAIN wal : wal[n].txn = t}) < MaxOps
  /\ wal' = LogAfterFetch(p)
  /\ pool' = [pool EXCEPT ![p] = FrameAfterFetch(p)]
  /\ latch' = [latch EXCEPT ![p].by = t]
  /\ UNCHANGED <<disk, file, master, txn, ckpt, rcv, crashes, missed>>

(* A transaction without an entry counts as committed. *)
InConflict(t, p) ==
  \E u \in Txn \ {t} :
    /\ pool[p].img[u] # "absent"
    /\ \/ txn[u].st = "running"
       \/ txn[u].st \in {"none", "gone", "committed"} /\ u > t

(* upsertCell, second part: the page is rebuilt and the change logged. *)
Upsert(t, p, op) ==
  /\ latch[p] = [by |-> t, wrote |-> FALSE]
  /\ Working(t) /\ ~InConflict(t, p)
  /\ wal' = Append(wal, Rec(op, t, p, txn[t].last))
  /\ pool' = [pool EXCEPT
       ![p].img[t] = IF op = "insert" THEN "live" ELSE "tombstone",
       ![p].lsn = Len(wal) + 1]
  /\ txn' = [txn EXCEPT ![t].last = Len(wal) + 1]
  /\ latch' = [latch EXCEPT ![p].wrote = TRUE]
  /\ UNCHANGED <<disk, file, master, ckpt, rcv, crashes, missed>>

(* UnpinPage after a write: only now the frame is marked dirty. *)
Unpin(p) ==
  /\ latch[p].wrote
  /\ pool' = [pool EXCEPT ![p].dirty = TRUE]
  /\ latch' = [latch EXCEPT ![p] = NoLatch]
  /\ UNCHANGED <<wal, disk, file, master, txn, ckpt, rcv, crashes, missed>>

(* upsertCell, conflict exit: the page is released as it was and DB.Set     *)
(* rolls the transaction back.                                              *)
UpsertConflict(t, p) ==
  /\ latch[p] = [by |-> t, wrote |-> FALSE]
  /\ Working(t) /\ InConflict(t, p)
  /\ latch' = [latch EXCEPT ![p] = NoLatch]
  /\ txn' = [txn EXCEPT ![t].st = "rolling", ![t].undo = txn[t].last]
  /\ UNCHANGED <<wal, disk, file, master, pool, ckpt, rcv, crashes, missed>>

Commit(t) ==
  /\ Working(t) /\ ~HoldsLatch(t)
  /\ wal' = Append(wal, Rec("commit", t, "none", txn[t].last))
  /\ txn' = [txn EXCEPT ![t].st = "committed", ![t].last = Len(wal) + 1]
  /\ UNCHANGED <<disk, file, master, pool, latch, ckpt, rcv, crashes, missed>>

StartRollback(t) ==
  /\ Working(t) /\ ~HoldsLatch(t)
  /\ txn' = [txn EXCEPT ![t].st = "rolling", ![t].undo = txn[t].last]
  /\ UNCHANGED <<wal, disk, file, master, pool, latch, ckpt, rcv, crashes, missed>>

(* Mutant: the inverse of an insert finds no cell to delete. *)
UndoneDeletesOnly(img, rec) ==
  [img EXCEPT ![rec.txn] = IF rec.op = "insert" THEN @ ELSE "nil"]

(* redoUpsertOnPage with the inverse of a data record, then the CLR. *)
Undone(img, rec) ==
  [img EXCEPT ![rec.txn] = IF rec.op = "insert" THEN "absent" ELSE "nil"]

(* Fetch, inverse operation, CLR and unpin of one data record: the page     *)
(* stays latched, and a crash in between leaves a lone full page record.    *)
Compensate(rec) ==
  LET p == rec.page
      log == Append(LogAfterFetch(p), Rec("clr", rec.txn, p, rec.prev))
  IN  /\ latch[p].by = 0
      /\ wal' = log
      /\ pool' = [pool EXCEPT ![p] =
           [FrameAfterFetch(p) EXCEPT !.img = Undone(@, rec), !.lsn = Len(log), !.dirty = TRUE]]

RollbackStep(t) ==
  /\ rcv.at = "up" /\ txn[t].st = "rolling" /\ txn[t].undo # 0
  /\ Compensate(wal[txn[t].undo])
  /\ txn' = [txn EXCEPT ![t].undo = wal[txn[t].undo].prev]
  /\ UNCHANGED <<disk, file, master, latch, ckpt, rcv, crashes, missed>>

FinishRollback(t) ==
  /\ rcv.at = "up" /\ txn[t].st = "rolling" /\ txn[t].undo = 0
  /\ wal' = Append(wal, Rec("abort", t, "none", 0))
  /\ txn' = [txn EXCEPT ![t].st = "rolledback"]
  /\ UNCHANGED <<disk, file, master, pool, latch, ckpt, rcv, crashes, missed>>

-----------------------------------------------------------------------------
(* Fuzzy checkpoint *)

DataRecord(n) == wal[n].op \in {"insert", "delete"}

(* GetDirtyPageTable. *)
CkptSnapshot ==
  /\ rcv.at = "up" /\ ckpt.at = "idle"
  /\ Cardinality({n \in DOMAIN wal : wal[n].op = "checkpoint"}) < MaxCkpt
  /\ ckpt' = [NoCkpt EXCEPT !.at = "snapped",
       !.dpt = [p \in Page |-> IF pool[p].in /\ pool[p].dirty THEN pool[p].rec ELSE NoEntry]]
  /\ UNCHANGED <<wal, disk, file, master, pool, latch, txn, rcv, crashes, missed>>

(* WriteCheckpoint.  The history field "missed" collects the pages that are *)
(* not in the snapshot although the file lacks a change logged before it.   *)
CkptLog ==
  /\ ckpt.at = "snapped"
  /\ wal' = Append(wal, [Rec("checkpoint", 0, "none", 0) EXCEPT !.dpt = ckpt.dpt])
  /\ ckpt' = [ckpt EXCEPT !.at = "logged", !.lsn = Len(wal) + 1,
       !.missed = {p \in Page : ckpt.dpt[p] = NoEntry /\
                     \E n \in DOMAIN wal :
                       wal[n].page = p /\ DataRecord(n) /\ n > file[p].lsn}]
  /\ UNCHANGED <<disk, file, master, pool, latch, txn, rcv, crashes, missed>>

(* The new LSN replaces the old one in checkpoint.meta. *)
CkptRename ==
  /\ ckpt.at = "logged"
  /\ master' = ckpt.lsn
  /\ missed' = [missed EXCEPT !.now = ckpt.missed]
  /\ ckpt' = NoCkpt
  /\ UNCHANGED <<wal, disk, file, pool, latch, txn, rcv, crashes>>

-----------------------------------------------------------------------------
(* Crash *)

(* A page write interrupted half way: header and cells old or new. *)
TornFile(p, S, lsn) ==
  [file EXCEPT ![p] = [lsn |-> lsn,
    img |-> [t \in Txn |-> IF t \in S THEN pool[p].img[t] ELSE file[p].img[t]]]]

(* What a failure leaves of the data file and of checkpoint.meta, of which  *)
(* neither is ever synced.                                                  *)
FailProcess == "process" \in Failure /\ UNCHANGED <<disk, file, master>>

FailPower ==
  /\ "power" \in Failure
  /\ file' = disk
  /\ master' \in {0} \cup {n \in 1 .. master : wal[n].op = "checkpoint"}
  /\ UNCHANGED disk

FailTorn ==
  /\ "torn" \in Failure
  /\ \E p \in Page, S \in SUBSET Txn :
       /\ pool[p].in /\ pool[p].dirty /\ latch[p].by = 0
       /\ \E lsn \in {file[p].lsn, pool[p].lsn} : file' = TornFile(p, S, lsn)
  /\ UNCHANGED <<disk, master>>

(* All memory is lost; the next start runs Recover with an empty pool and   *)
(* an empty transaction table.                                              *)
Crash ==
  /\ crashes < MaxCrash
  /\ crashes' = crashes + 1
  /\ FailProcess \/ FailPower \/ FailTorn
  /\ pool' = [p \in Page |-> NoFrame]
  /\ latch' = [p \in Page |-> NoLatch]
  /\ txn' = [t \in Txn |-> IF txn[t].st = "none" THEN NoTxn ELSE [NoTxn EXCEPT !.st = "gone"]]
  /\ ckpt' = NoCkpt
  /\ rcv' = [Up EXCEPT !.at = "analysis"]
  /\ missed' = [missed EXCEPT !.lost = @ \cup missed.now]
  /\ UNCHANGED wal

-----------------------------------------------------------------------------
(* Recovery *)

MaxOf(S) == CHOOSE n \in S : \A m \in S : m <= n
MinOf(S) == CHOOSE n \in S : \A m \in S : n <= m

(* The log from the checkpoint in force to its end. *)
Scanned == {n \in DOMAIN wal : n >= master}

(* Mutant: every record of the page overwrites its entry. *)
DirtyPageEntryLast(p) ==
  LET recs == {n \in Scanned : wal[n].page = p}
  IN  IF recs # {} THEN MaxOf(recs) ELSE NoEntry

(* The entry of p after the scan: a checkpoint overwrites it, any other     *)
(* record of the page only adds it.                                         *)
DirtyPageEntry(p) ==
  LET cks == {n \in Scanned : wal[n].op = "checkpoint" /\ wal[n].dpt[p] # NoEntry}
      recs == {n \in Scanned : wal[n].page = p}
  IN  IF cks # {} THEN wal[MaxOf(cks)].dpt[p]
      ELSE IF recs # {} THEN MinOf(recs) ELSE NoEntry

(* Mutants: a commit does not end a transaction; CLRs are overlooked. *)
ActiveEntryDespiteCommit(t) ==
  LET recs == {n \in Scanned : wal[n].txn = t}
  IN  IF recs = {} \/ wal[MaxOf(recs)].op = "abort" THEN 0 ELSE MaxOf(recs)

ActiveEntryWithoutCLRs(t) ==
  LET recs == {n \in Scanned : wal[n].txn = t /\ wal[n].op # "clr"}
  IN  IF recs = {} \/ wal[MaxOf(recs)].op \in {"commit", "abort"} THEN 0 ELSE MaxOf(recs)

(* The last LSN of a transaction that is neither committed nor aborted. *)
ActiveEntry(t) ==
  LET recs == {n \in Scanned : wal[n].txn = t}
  IN  IF recs = {} \/ wal[MaxOf(recs)].op \in {"commit", "abort"} THEN 0 ELSE MaxOf(recs)

(* Mutant: pages without an entry take part in the minimum. *)
AnalysisOverAllPages ==
  LET dpt == [p \in Page |-> DirtyPageEntry(p)]
  IN  /\ rcv.at = "analysis"
      /\ rcv' = [at |-> "redo", lsn |-> MinOf({dpt[p] : p \in Page}), dpt |-> dpt,
                 att |-> [t \in Txn |-> ActiveEntry(t)], fresh |-> {}]
      /\ UNCHANGED <<wal, disk, file, master, pool, latch, txn, ckpt, crashes, missed>>

(* The analysis phase only reads. *)
Analysis ==
  LET dpt == [p \in Page |-> DirtyPageEntry(p)]
      att == [t \in Txn |-> ActiveEntry(t)]
      entries == {dpt[p] : p \in Page} \ {NoEntry}
      start == IF entries = {} THEN master ELSE MinOf(entries)
  IN  /\ rcv.at = "analysis"
      /\ rcv' = [at |-> "redo", lsn |-> IF start = 0 THEN 1 ELSE start,
                 dpt |-> dpt, att |-> att,
                 fresh |-> {t \in Txn : att[t] # 0 /\ \A n \in DOMAIN wal :
                              ~(wal[n].op = "clr" /\ wal[n].txn = t)}]
      /\ UNCHANGED <<wal, disk, file, master, pool, latch, txn, ckpt, crashes, missed>>

(* The effect of one record on a page: a CLR only raises the page's LSN. *)
Redone(img, rec) ==
  CASE rec.op = "fullpage" -> rec.img
    [] rec.op = "insert" -> [img EXCEPT ![rec.txn] = "live"]
    [] rec.op = "delete" -> [img EXCEPT ![rec.txn] = "tombstone"]
    [] OTHER -> img

(* Records the redo loop fetches a page for: its first two skip rules. *)
ToRedo ==
  {n \in rcv.lsn .. Len(wal) :
    /\ wal[n].page # "none"
    /\ rcv.dpt[wal[n].page] # NoEntry /\ n >= rcv.dpt[wal[n].page]}

(* The next such record, with the third skip rule; logging is off. *)
RedoStep ==
  LET n == MinOf(ToRedo)
      p == wal[n].page
  IN  /\ rcv.at = "redo" /\ ToRedo # {}
      /\ rcv' = [rcv EXCEPT !.lsn = n + 1]
      /\ pool' = [pool EXCEPT ![p] =
           IF Frame(p).lsn >= n THEN Frame(p)
           ELSE [Frame(p) EXCEPT !.img = Redone(@, wal[n]), !.lsn = n, !.dirty = TRUE]]
      /\ UNCHANGED <<wal, disk, file, master, latch, txn, ckpt, crashes, missed>>

RedoEnd ==
  /\ rcv.at = "redo" /\ ToRedo = {}
  /\ rcv' = [rcv EXCEPT !.at = "undo", !.lsn = 0]
  /\ UNCHANGED <<wal, disk, file, master, pool, latch, txn, ckpt, crashes, missed>>

(* Mutants: only the youngest record of a loser is undone; a record that is *)
(* not a data record does not advance the loop.                             *)
UndoStepOnce ==
  LET n == MaxOf({rcv.att[t] : t \in Txn})
  IN  /\ rcv.at = "undo" /\ \E t \in Txn : rcv.att[t] # 0
      /\ IF DataRecord(n) THEN Compensate(wal[n]) ELSE UNCHANGED <<wal, pool>>
      /\ rcv' = [rcv EXCEPT !.at = "abort", !.lsn = wal[n].txn]
      /\ UNCHANGED <<disk, file, master, latch, txn, ckpt, crashes, missed>>

UndoStepStuckOnCLR ==
  LET n == MaxOf({rcv.att[t] : t \in Txn})
  IN  /\ rcv.at = "undo" /\ \E t \in Txn : rcv.att[t] # 0
      /\ IF DataRecord(n) THEN Compensate(wal[n]) ELSE UNCHANGED <<wal, pool>>
      /\ rcv' = IF ~DataRecord(n) THEN rcv
                ELSE IF wal[n].prev = 0
                THEN [rcv EXCEPT !.at = "abort", !.lsn = wal[n].txn]
                ELSE [rcv EXCEPT !.att[wal[n].txn] = wal[n].prev]
      /\ UNCHANGED <<disk, file, master, latch, txn, ckpt, crashes, missed>>

(* One turn of the undo loop, for the youngest record of all losers; after  *)
(* the first record of a transaction its abort is logged.                   *)
UndoStep ==
  LET n == MaxOf({rcv.att[t] : t \in Txn})
  IN  /\ rcv.at = "undo" /\ \E t \in Txn : rcv.att[t] # 0
      /\ IF DataRecord(n) THEN Compensate(wal[n]) ELSE UNCHANGED <<wal, pool>>
      /\ rcv' = IF wal[n].prev = 0
                THEN [rcv EXCEPT !.at = "abort", !.lsn = wal[n].txn]
                ELSE [rcv EXCEPT !.att[wal[n].txn] = wal[n].prev]
      /\ UNCHANGED <<disk, file, master, latch, txn, ckpt, crashes, missed>>

UndoAbort ==
  /\ rcv.at = "abort"
  /\ wal' = Append(wal, Rec("abort", rcv.lsn, "none", 0))
  /\ rcv' = [rcv EXCEPT !.at = "undo", !.att[rcv.lsn] = 0]
  /\ UNCHANGED <<disk, file, master, pool, latch, txn, ckpt, crashes, missed>>

RecoverEnd ==
  /\ rcv.at = "undo" /\ \A t \in Txn : rcv.att[t] = 0
  /\ rcv' = [Up EXCEPT !.fresh = rcv.fresh]
  /\ UNCHANGED <<wal, disk, file, master, pool, latch, txn, ckpt, crashes, missed>>

Recover == Analysis \/ RedoStep \/ RedoEnd \/ UndoStep \/ UndoAbort \/ RecoverEnd

-----------------------------------------------------------------------------
Client(t) ==
  \/ Begin(t) \/ Commit(t) \/ StartRollback(t)
  \/ RollbackStep(t) \/ FinishRollback(t)
  \/ \E p \in Page : FetchForWrite(t, p) \/ UpsertConflict(t, p)
  \/ \E p \in Page, op \in Op : Upsert(t, p, op)

Next ==
  \/ \E t \in Txn : Client(t)
  \/ \E p \in Page : Unpin(p) \/ Evict(p) \/ WriteBack(p)
  \/ CkptSnapshot \/ CkptLog \/ CkptRename
  \/ Crash
  \/ Recover

Spec == Init /\ [][Next]_vars

(* Recover runs to its end unless the machine fails again. *)
FairSpec == Spec /\ WF_vars(Recover)

-----------------------------------------------------------------------------
(* The cell readers find for version t on page p. *)
CellOf(p, t) == IF pool[p].in THEN pool[p].img[t] ELSE file[p].img[t]

Logged(t, op) == \E n \in DOMAIN wal : wal[n].txn = t /\ wal[n].op = op

(* The last data record of t on p. *)
WrittenAt(t, p) == {n \in DOMAIN wal : DataRecord(n) /\ wal[n].txn = t /\ wal[n].page = p}

Kept(t, p) ==
  WrittenAt(t, p) # {} =>
    CellOf(p, t) = IF wal[MaxOf(WrittenAt(t, p))].op = "insert" THEN "live" ELSE "tombstone"

(* Whenever the database is up, every version of a transaction whose commit *)
(* record is in the log is in its page, after any number of crashes, also   *)
(* during recovery, for every page the last checkpoint did not overlook.    *)
CommittedKept ==
  rcv.at = "up" =>
    \A t \in Txn, p \in Page : Logged(t, "commit") /\ p \notin missed.lost => Kept(t, p)

(* Undo erases: when recovery has ended, the transactions it found active,  *)
(* and which nobody had begun to roll back before, have no live version and *)
(* no tombstone left, on whatever pages and behind whatever checkpoint      *)
(* their records are.                                                       *)
UndoErases ==
  rcv.at = "up" =>
    \A t \in rcv.fresh, p \in Page : CellOf(p, t) \in {"absent", "nil"}

(* A transaction whose commit record is in the log is never compensated. *)
CommittedNeverUndone ==
  [][\A t \in Txn : Logged(t, "commit") =>
       \A n \in DOMAIN wal' \ DOMAIN wal : wal'[n].op = "clr" => wal'[n].txn # t]_vars

(* No change is compensated twice, however often rollback and recovery are  *)
(* interrupted: a CLR's PrevLSN names what remains to be undone.            *)
CompensatedOnce ==
  \A n, m \in DOMAIN wal :
    (/\ wal[n].op = "clr" /\ wal[m].op = "clr"
     /\ wal[n].txn = wal[m].txn /\ wal[n].prev = wal[m].prev) => n = m

(* The recovery LSN of a dirty frame is not younger than any change of the  *)
(* page that the file lacks, so that a checkpoint made now would redo it.   *)
RecLSNCovers ==
  \A p \in Page, n \in DOMAIN wal :
    (pool[p].dirty /\ wal[n].page = p /\ DataRecord(n) /\ n > file[p].lsn
       /\ p \notin missed.lost)
      => pool[p].rec <= n

(* Recovery terminates when failures stop. *)
RecoveryTerminates == rcv.at # "up" ~> rcv.at = "up"

-----------------------------------------------------------------------------
(* What the documentation says *)

(* docs/transaction_architecture_plan.md: compensation records make         *)
(* rollbacks durable; what a rolled back transaction inserted stays away.   *)
RollbackDurable ==
  rcv.at = "up" =>
    \A t \in Txn, p \in Page : Logged(t, "abort") => CellOf(p, t) # "live"
=============================================================================

