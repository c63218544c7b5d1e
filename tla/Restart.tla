------------------------------- MODULE Restart -------------------------------
(***************************************************************************)
(* The log as a file of bytes (wal.go) and the start of a database on it   *)
(* (NewBTree, NewWAL, Recover): the magic header, LSNs that are byte       *)
(* offsets, writes and syncs that fail half way, the torn tail a power     *)
(* failure leaves, the several steps of the first start, Close, and what   *)
(* a client is told of its COMMIT.                                         *)
(*                                                                         *)
(* The file has the two pages of a new database: 0, the meta page with the *)
(* root pointer, and 1, the root leaf.  A transaction writes once.  The    *)
(* contents of leaves, checkpoints and eviction during recovery belong to  *)
(* the module Aries.                                                       *)
(***************************************************************************)
EXTENDS Integers, Sequences, FiniteSetsExt, SequencesExt

CONSTANTS MaxTxn,    \* bound: transactions begun
          MaxCrash,  \* bound: crashes and shutdowns
          MaxFail    \* bound: log writes and syncs that fail

ASSUME RestartBounds == MaxTxn \in Nat /\ MaxCrash \in Nat /\ MaxFail \in Nat

Txn == 1 .. MaxTxn
MetaPageID == 0
LeafID == 1
PageID == {MetaPageID, LeafID}

(* A page image: beyond the end of the file or not, initialised or zeros,   *)
(* its root pointer and its LSN.                                            *)
Missing == [there |-> FALSE, init |-> FALSE, root |-> 0, lsn |-> 0]
Zeros == [Missing EXCEPT !.there = TRUE]
NewPage == [Zeros EXCEPT !.init = TRUE]

(* Bytes of a record: the magic word, or 43 bytes around key and value.     *)
SizeOf(op) ==
  CASE op = "magic" -> 4
    [] op = "fullpage" -> 43 + 4096
    [] op \in {"insert", "clr"} -> 43 + 11
    [] op \in {"commit", "abort"} -> 43

(* Bytes a write leaves that was interrupted. *)
PartLen == 2

VARIABLES
  log,      \* the pieces of the log file
  cur,      \* WAL.currentLSN
  db,       \* page images as the operating system shows them
  disk,     \* page images that survive a power failure
  pool,     \* frames: the image and whether it is dirty
  root,     \* BTree.rootPageID
  at,       \* what the program is doing
  io,       \* the part of Append it is in: "write", "sync"
  who,      \* the transaction it does it for
  att,      \* Recover's active transaction table
  txn,      \* transactions of the clients
  fails, crashes,
  hist      \* history: what clients know, what recovery saw, what went wrong

vars == <<log, cur, db, disk, pool, root, at, io, who, att, txn, fails, crashes, hist>>

NoFrame == [in |-> FALSE, img |-> Missing, dirty |-> FALSE]
NoATT == [t \in Txn |-> 0]

(* Steps that are one call of Append each; NewWAL writes the magic word in  *)
(* the same way.                                                            *)
Appending == {"magic", "fetchMeta", "setMeta", "fetchLeaf", "insert", "commit", "undoFetch", "clr", "abort"}
Starting == {"magic", "recover", "undo", "stat", "allocRoot",
             "fetchMeta", "setMeta", "undoFetch", "clr", "abort"}

Image == [there : BOOLEAN, init : BOOLEAN, root : {0, LeafID}, lsn : Nat]

TypeOK ==
  /\ \A i \in DOMAIN log :
       log[i] \in [op : {"magic", "fullpage", "insert", "clr", "commit", "abort"},
                   txn : {0} \cup Txn, page : PageID, img : Image, lsn : Nat, off : Nat,
                   len : Nat \ {0}, ok : BOOLEAN, synced : {"no", "yes", "failed"}]
  /\ cur \in Nat
  /\ db \in [PageID -> Image] /\ disk \in [PageID -> Image]
  /\ pool \in [PageID -> [in : BOOLEAN, img : Image, dirty : BOOLEAN]]
  /\ \A p \in PageID : pool[p].in => pool[p].img.there
  /\ root \in {0, LeafID}
  /\ at \in Appending \cup Starting \cup {"down", "up", "failed"}
  /\ io \in {"write", "sync"}
  /\ who \in {0} \cup Txn
  /\ att \in [Txn -> Nat]
  /\ txn \in [Txn -> {"none", "running", "wrote", "over"}]
  /\ fails \in 0 .. MaxFail /\ crashes \in 0 .. MaxCrash
  /\ hist \in [told : SUBSET Txn, acked : SUBSET Txn, seen : SUBSET Txn,
               cut : BOOLEAN, shrunk : BOOLEAN, shifted : BOOLEAN]

Init ==
  /\ log = <<>> /\ cur = 0
  /\ db = [p \in PageID |-> Missing] /\ disk = db
  /\ pool = [p \in PageID |-> NoFrame]
  /\ root = 0 /\ at = "down" /\ io = "write" /\ who = 0
  /\ att = NoATT
  /\ txn = [t \in Txn |-> "none"]
  /\ fails = 0 /\ crashes = 0
  /\ hist = [told |-> {}, acked |-> {}, seen |-> {},
             cut |-> FALSE, shrunk |-> FALSE, shifted |-> FALSE]

-----------------------------------------------------------------------------
(* The log file *)

FileSize == IF log = <<>> THEN 0 ELSE log[Len(log)].off + log[Len(log)].len

(* The file is a sequence of pieces: whole records, or bytes that are none. *)
(* It is opened with O_APPEND: a write goes to its end, while the LSN in    *)
(* the record is the one WAL has counted.                                   *)
Piece(op, t, p, img) ==
  [op |-> op, txn |-> t, page |-> p, img |-> img, lsn |-> cur,
   off |-> FileSize, len |-> SizeOf(op), ok |-> TRUE, synced |-> "no"]

(* ReadRecord: size and checksum hold only where a whole record begins (the *)
(* checksum is taken to detect everything else).                            *)
Readable(lsn) == \E i \in DOMAIN log : log[i].off = lsn /\ log[i].ok /\ log[i].op # "magic"
ReadRecord(lsn) == log[CHOOSE i \in DOMAIN log : log[i].off = lsn]

(* Mutant: records of 43 bytes, without key and value, are rejected. *)
ScanFromLongOnly(lsn) ==
  SelectSeq(log, LAMBDA r :
    /\ Readable(lsn) /\ r.off >= lsn
    /\ \A q \in Range(log) : q.off \in lsn .. r.off => q.ok /\ q.len > 43)

(* The records a scan reaches that begins at lsn and stops at the first     *)
(* record it cannot read.                                                   *)
ScanFrom(lsn) ==
  SelectSeq(log, LAMBDA r :
    /\ Readable(lsn) /\ r.off >= lsn
    /\ \A q \in Range(log) : q.off \in lsn .. r.off => q.ok)

(* The magic word is skipped when it is there. *)
ScanStart == IF log # <<>> /\ log[1].op = "magic" /\ log[1].ok THEN 4 ELSE 0
Scanned == ScanFrom(ScanStart)

Frame(p) ==
  IF pool[p].in THEN pool[p] ELSE [NoFrame EXCEPT !.in = TRUE, !.img = db[p]]

(* Mutant: the meta page is logged as it was before the root was set. *)
RecordOfBeforeRoot ==
  CASE at = "magic" -> Piece("magic", 0, MetaPageID, Missing)
    [] at \in {"fetchMeta", "setMeta"} -> Piece("fullpage", 0, MetaPageID, db[MetaPageID])
    [] at \in {"fetchLeaf", "undoFetch"} -> Piece("fullpage", 0, LeafID, Frame(LeafID).img)
    [] at = "insert" -> Piece("insert", who, LeafID, Missing)
    [] at = "clr" -> Piece("clr", who, LeafID, Missing)
    [] at = "commit" -> Piece("commit", who, MetaPageID, Missing)
    [] at = "abort" -> Piece("abort", who, MetaPageID, Missing)

(* The record the current step appends. *)
RecordOf ==
  CASE at = "magic" -> Piece("magic", 0, MetaPageID, Missing)
    [] at \in {"fetchMeta", "setMeta"} ->
         Piece("fullpage", 0, MetaPageID, Frame(MetaPageID).img)
    [] at \in {"fetchLeaf", "undoFetch"} ->
         Piece("fullpage", 0, LeafID, Frame(LeafID).img)
    [] at = "insert" -> Piece("insert", who, LeafID, Missing)
    [] at = "clr" -> Piece("clr", who, LeafID, Missing)
    [] at = "commit" -> Piece("commit", who, MetaPageID, Missing)
    [] at = "abort" -> Piece("abort", who, MetaPageID, Missing)

-----------------------------------------------------------------------------
(* Append and what its callers make of the result *)

(* Where the program goes on; only a full page write that fails is noticed, *)
(* the other callers drop the error or return it and are done.              *)
AtAfter(ok) ==
  CASE at = "magic" -> "recover"
    [] at = "fetchMeta" -> IF ok THEN "setMeta" ELSE "failed"
    [] at = "fetchLeaf" -> IF ok THEN "insert" ELSE "up"
    [] at \in {"setMeta", "insert", "commit"} -> "up"
    [] at = "undoFetch" -> IF ok THEN "clr" ELSE "abort"
    [] at = "clr" -> "abort"
    [] at = "abort" -> "undo"

(* The frames: the LSN returned, 0 with an error, goes into the page; the   *)
(* meta page gets its root pointer between the two records of the first     *)
(* start.                                                                   *)
PoolAfter(ok) ==
  LET lsn == IF ok THEN log'[Len(log')].lsn ELSE 0
  IN  CASE at = "fetchMeta" /\ ok ->
             [pool EXCEPT ![MetaPageID] =
               [Frame(MetaPageID) EXCEPT !.img.lsn = lsn, !.img.root = LeafID]]
        [] at = "setMeta" ->
             [pool EXCEPT ![MetaPageID].img.lsn = lsn, ![MetaPageID].dirty = TRUE]
        [] at \in {"fetchLeaf", "undoFetch"} /\ ok ->
             [pool EXCEPT ![LeafID] = [Frame(LeafID) EXCEPT !.img.lsn = lsn]]
        [] at \in {"insert", "clr"} ->
             [pool EXCEPT ![LeafID] = [Frame(LeafID) EXCEPT !.img.lsn = lsn, !.dirty = TRUE]]
        [] OTHER -> pool

(* COMMIT is answered with OK whatever Append returned. *)
HistAfter(ok) ==
  IF at # "commit"
  THEN [hist EXCEPT !.cut = @ \/ (at \in {"fetchMeta", "setMeta"} /\ ~ok)]
  ELSE [hist EXCEPT !.told = @ \cup {who},
                    !.acked = IF ok THEN @ \cup {who} ELSE @,
                    !.seen = IF ok THEN @ \cup {who} ELSE @]

Return(ok) ==
  /\ at' = AtAfter(ok) /\ io' = "write"
  /\ pool' = PoolAfter(ok)
  /\ root' = IF at = "setMeta" THEN LeafID ELSE root
  /\ att' = IF at = "abort" THEN [att EXCEPT ![who] = 0] ELSE att

AppendWrite ==
  /\ at \in Appending /\ io = "write"
  /\ log' = Append(log, RecordOf)
  /\ cur' = IF at = "magic" THEN 4 ELSE cur + RecordOf.len
  /\ io' = "sync"
  /\ UNCHANGED <<db, disk, pool, root, at, who, att, txn, fails, crashes, hist>>

(* The write fails and may leave a part of the record; the LSN is not       *)
(* advanced, except that NewWAL counts its magic word in any case.          *)
AppendWriteFails ==
  /\ at \in Appending /\ io = "write"
  /\ fails < MaxFail /\ fails' = fails + 1
  /\ \E n \in {0, PartLen} :
       /\ log' = IF n = 0 THEN log
                 ELSE Append(log, [RecordOf EXCEPT !.len = n, !.ok = FALSE])
       /\ hist' = [HistAfter(FALSE) EXCEPT !.shifted = @ \/ n # 0 \/ at = "magic"]
  /\ cur' = IF at = "magic" THEN 4 ELSE cur
  /\ Return(FALSE)
  /\ UNCHANGED <<db, disk, who, txn, crashes>>

(* Mutant: Append returns without calling Sync. *)
AppendSyncSkipped ==
  /\ at \in Appending /\ io = "sync"
  /\ log' = log
  /\ hist' = HistAfter(TRUE)
  /\ Return(TRUE)
  /\ UNCHANGED <<cur, db, disk, who, txn, fails, crashes>>

(* Sync covers all that was written before, except what an earlier Sync has *)
(* given up.                                                                *)
AppendSync ==
  /\ at \in Appending /\ io = "sync"
  /\ log' = [i \in DOMAIN log |->
       [log[i] EXCEPT !.synced = IF @ = "no" THEN "yes" ELSE @]]
  /\ hist' = HistAfter(TRUE)
  /\ Return(TRUE)
  /\ UNCHANGED <<cur, db, disk, who, txn, fails, crashes>>

(* The sync fails: the record stays in the file, the caller gets an error. *)
AppendSyncFails ==
  /\ at \in Appending /\ io = "sync"
  /\ fails < MaxFail /\ fails' = fails + 1
  /\ log' = [log EXCEPT ![Len(log)].synced = "failed"]
  /\ hist' = HistAfter(FALSE)
  /\ Return(FALSE)
  /\ UNCHANGED <<cur, db, disk, who, txn, crashes>>

-----------------------------------------------------------------------------
(* The start of the program *)

(* Mutant: LSNs start again behind the magic word. *)
NewWALFromStart ==
  /\ at = "down"
  /\ at' = IF log = <<>> THEN "magic" ELSE "recover"
  /\ cur' = 4
  /\ UNCHANGED <<log, db, disk, pool, root, io, who, att, txn, fails, crashes, hist>>

(* NewWAL: the LSN is the size of the file, whatever its last bytes are. *)
NewWAL ==
  /\ at = "down"
  /\ at' = IF log = <<>> THEN "magic" ELSE "recover"
  /\ cur' = FileSize
  /\ UNCHANGED <<log, db, disk, pool, root, io, who, att, txn, fails, crashes, hist>>

(* The dirty page table of the analysis, 0 for no entry. *)
DirtyEntry(p) ==
  LET recs == SelectSeq(Scanned, LAMBDA r : r.page = p /\ r.op \in {"fullpage", "insert", "clr"})
  IN  IF recs = <<>> THEN 0 ELSE Head(recs).lsn

(* The last record of a transaction that has no commit and no abort.        *)
ActiveEntry(t) ==
  LET recs == SelectSeq(Scanned, LAMBDA r : r.txn = t)
  IN  IF recs = <<>> \/ Last(recs).op \in {"commit", "abort"} THEN 0 ELSE Last(recs).lsn

(* One record of the redo loop; commits and aborts name page 0, so that     *)
(* they raise the LSN of the meta page.                                     *)
Redo(f, r) ==
  IF f.img.lsn >= r.lsn /\ r.lsn # 0 THEN f
  ELSE [in |-> TRUE, dirty |-> TRUE,
        img |-> [(IF r.op = "fullpage" THEN r.img ELSE f.img) EXCEPT !.lsn = r.lsn]]

(* Analysis and redo log nothing and change only frames, so that a crash    *)
(* among them is a crash before them.                                       *)
Recover ==
  LET dpt == [p \in PageID |-> DirtyEntry(p)]
      entries == Range(dpt) \ {0}
      redone == ScanFrom(IF entries = {} THEN ScanStart ELSE Min(entries))
      recs(p) == SelectSeq(redone, LAMBDA r : r.page = p /\ dpt[p] # 0 /\ r.lsn >= dpt[p])
  IN  /\ at = "recover"
      /\ IF \E p \in PageID : recs(p) # <<>> /\ ~db[p].there
         THEN at' = "failed" /\ UNCHANGED <<pool, att, hist>>
         ELSE /\ at' = "undo"
              /\ pool' = [p \in PageID |->
                   IF recs(p) = <<>> THEN pool[p] ELSE FoldLeft(Redo, Frame(p), recs(p))]
              /\ att' = [t \in Txn |-> ActiveEntry(t)]
              /\ hist' = [hist EXCEPT !.seen = {t \in Txn :
                   \E r \in Range(Scanned) : r.op = "commit" /\ r.txn = t}]
      /\ UNCHANGED <<log, cur, db, disk, root, io, who, txn, fails, crashes>>

(* Mutant: the loop goes on when a record cannot be read. *)
UndoRetries ==
  LET t == CHOOSE u \in Txn : \A v \in Txn : att[v] <= att[u]
      r == ReadRecord(att[t])
  IN  /\ at = "undo" /\ \E u \in Txn : att[u] # 0
      /\ who' = t
      /\ at' = IF ~Readable(att[t]) THEN "undo"
               ELSE IF r.op = "insert" /\ Frame(r.page).img.there
               THEN IF Frame(r.page).dirty THEN "clr" ELSE "undoFetch"
               ELSE "abort"
      /\ UNCHANGED <<log, cur, db, disk, pool, root, io, att, txn, fails, crashes, hist>>

(* The undo loop: a record it cannot read ends it. *)
Undo ==
  LET t == CHOOSE u \in Txn : \A v \in Txn : att[v] <= att[u]
      r == ReadRecord(att[t])
  IN  /\ at = "undo" /\ \E u \in Txn : att[u] # 0
      /\ who' = t
      /\ at' = IF ~Readable(att[t]) THEN "stat"
               ELSE IF r.op = "insert" /\ Frame(r.page).img.there
               THEN IF Frame(r.page).dirty THEN "clr" ELSE "undoFetch"
               ELSE "abort"
      /\ UNCHANGED <<log, cur, db, disk, pool, root, io, att, txn, fails, crashes, hist>>

UndoEnd ==
  /\ at = "undo" /\ \A t \in Txn : att[t] = 0
  /\ at' = "stat"
  /\ UNCHANGED <<log, cur, db, disk, pool, root, io, who, att, txn, fails, crashes, hist>>

(* NewBTree after recovery: the root comes from the meta page ... *)
ReadRoot ==
  /\ at = "stat" /\ db[MetaPageID].there
  /\ root' = Frame(MetaPageID).img.root
  /\ pool' = [pool EXCEPT ![MetaPageID] = Frame(MetaPageID)]
  /\ at' = "up"
  /\ UNCHANGED <<log, cur, db, disk, io, who, att, txn, fails, crashes, hist>>

(* ... or, when the file is empty, two pages are appended, and then the     *)
(* meta page is fetched and logged with the root pointer.                   *)
AllocateMeta ==
  /\ at = "stat" /\ ~db[MetaPageID].there
  /\ db' = [db EXCEPT ![MetaPageID] = NewPage]
  /\ at' = "allocRoot"
  /\ UNCHANGED <<log, cur, disk, pool, root, io, who, att, txn, fails, crashes, hist>>

(* Mutant: the next page is taken to be one further. *)
AllocateRootPastEnd ==
  /\ at = "allocRoot"
  /\ db' = [p \in 0 .. 2 |-> IF p = 2 THEN NewPage ELSE db[p]]
  /\ at' = "fetchMeta"
  /\ UNCHANGED <<log, cur, disk, pool, root, io, who, att, txn, fails, crashes, hist>>

AllocateRoot ==
  /\ at = "allocRoot"
  /\ db' = [db EXCEPT ![LeafID] = NewPage]
  /\ at' = "fetchMeta"
  /\ UNCHANGED <<log, cur, disk, pool, root, io, who, att, txn, fails, crashes, hist>>

-----------------------------------------------------------------------------
(* Clients *)

(* SET: without a usable root page the command fails and changes nothing. *)
Set(t) ==
  LET f == Frame(LeafID)
      usable == root = LeafID /\ f.img.there /\ f.img.init
  IN  /\ at = "up" /\ txn[t] = "none" /\ \A u \in Txn : u < t => txn[u] # "none"
      /\ txn' = [txn EXCEPT ![t] = "wrote"]
      /\ who' = t
      /\ at' = IF ~usable THEN "up" ELSE IF f.dirty THEN "insert" ELSE "fetchLeaf"
      /\ UNCHANGED <<log, cur, db, disk, pool, root, io, att, fails, crashes, hist>>

Commit(t) ==
  /\ at = "up" /\ txn[t] = "wrote"
  /\ txn' = [txn EXCEPT ![t] = "over"]
  /\ who' = t /\ at' = "commit"
  /\ UNCHANGED <<log, cur, db, disk, pool, root, io, att, fails, crashes, hist>>

-----------------------------------------------------------------------------
(* Eviction, shutdown and failures *)

Evict(p) ==
  /\ at = "up" /\ pool[p].in
  /\ db' = IF pool[p].dirty THEN [db EXCEPT ![p] = pool[p].img] ELSE db
  /\ pool' = [pool EXCEPT ![p] = NoFrame]
  /\ UNCHANGED <<log, cur, disk, root, at, io, who, att, txn, fails, crashes, hist>>

(* External: the kernel writes a page back; zeros fill the file before it.  *)
WriteBack(p) ==
  /\ disk[p] # db[p]
  /\ disk' = [q \in PageID |-> IF q = p THEN db[q]
                               ELSE IF q < p /\ ~disk[q].there THEN Zeros ELSE disk[q]]
  /\ UNCHANGED <<log, cur, db, pool, root, at, io, who, att, txn, fails, crashes, hist>>

(* All memory is lost. *)
Stop ==
  /\ at # "down"
  /\ crashes < MaxCrash /\ crashes' = crashes + 1
  /\ pool' = [p \in PageID |-> NoFrame]
  /\ cur' = 0 /\ root' = 0 /\ att' = NoATT /\ who' = 0
  /\ txn' = [t \in Txn |-> IF txn[t] = "none" THEN "none" ELSE "over"]
  /\ at' = "down" /\ io' = "write"
  /\ UNCHANGED fails

(* Close: FlushAll, without a sync. *)
Close ==
  /\ at = "up"
  /\ db' = [p \in PageID |-> IF pool[p].dirty THEN pool[p].img ELSE db[p]]
  /\ Stop
  /\ UNCHANGED <<log, disk, hist>>

CutNow == hist.cut \/ at \in {"allocRoot", "fetchMeta", "setMeta"}

ProcessCrash ==
  /\ Stop
  /\ hist' = [hist EXCEPT !.cut = CutNow]
  /\ UNCHANGED <<log, db, disk>>

(* External: a power failure keeps the pieces a Sync has covered; of the    *)
(* others the last ones may be missing or shortened and the rest damaged.   *)
Safe == {i \in DOMAIN log : log[i].synced = "yes"}
LastSafe == Max({0} \cup Safe)
Remains(n, bad) ==
  [i \in 1 .. n |->
    IF i \notin bad THEN log[i]
    ELSE [log[i] EXCEPT !.len = IF i = n THEN PartLen ELSE @, !.ok = FALSE]]

PowerFailure ==
  /\ Stop
  /\ \E n \in LastSafe .. Len(log) : \E bad \in SUBSET (1 .. n \ Safe) :
       log' = Remains(n, bad)
  /\ db' = disk
  /\ hist' = [hist EXCEPT !.cut = CutNow, !.shrunk = @ \/ disk # db]
  /\ UNCHANGED disk

-----------------------------------------------------------------------------
Progress ==
  \/ NewWAL \/ AppendWrite \/ AppendSync
  \/ Recover \/ Undo \/ UndoEnd \/ ReadRoot \/ AllocateMeta \/ AllocateRoot

Next ==
  \/ Progress
  \/ AppendWriteFails \/ AppendSyncFails
  \/ \E t \in Txn : Set(t) \/ Commit(t)
  \/ \E p \in PageID : Evict(p) \/ WriteBack(p)
  \/ Close \/ ProcessCrash \/ PowerFailure

Spec == Init /\ [][Next]_vars

(* The program keeps running: calls it has started go on. *)
FairSpec == Spec /\ WF_vars(Progress)

-----------------------------------------------------------------------------
(* The log is whole: no damaged bytes lie anywhere in it. *)
LogWhole == \A i \in DOMAIN log : log[i].ok

(* Durability of the log: the commit record of a transaction for which      *)
(* Append returned without an error stays in the file, whole, through every *)
(* crash, torn tail and restart.                                            *)
AckedInLog ==
  \A t \in hist.acked : \E i \in DOMAIN log :
    log[i].op = "commit" /\ log[i].txn = t /\ log[i].ok

(* A database that is up knows every such commit, the ones before the last  *)
(* restart too, unless damaged bytes lie in the log, where the scans of     *)
(* Recover stop while NewWAL continues the log behind them, or a failed     *)
(* write has moved records away from their LSNs.  As long as no write and   *)
(* no sync fails, these are all the commits a client was told of.           *)
AckedKnown ==
  at = "up" /\ LogWhole /\ ~hist.shifted =>
    (IF fails = 0 THEN hist.told ELSE hist.acked) \subseteq hist.seen

(* LSNs are byte offsets: unless a failed write has left bytes behind,      *)
(* every record stands where its LSN says, after torn tails and restarts    *)
(* too, so that PrevLSN chains can be followed.                             *)
LSNIsOffset ==
  ~hist.shifted => \A i \in DOMAIN log :
    log[i].ok /\ log[i].op # "magic" => log[i].lsn = log[i].off

(* Whatever crashes and evictions came before, a database that is up has    *)
(* its root leaf, unless the first start was cut short, a power failure     *)
(* took page writes back, or the log is damaged or shifted.                 *)
RootKnown ==
  at = "up" /\ ~hist.cut /\ ~hist.shrunk /\ LogWhole /\ ~hist.shifted =>
    root = LeafID /\ Frame(LeafID).img.there /\ Frame(LeafID).img.init

(* Every start ends, and after crashes of the process it ends with a        *)
(* database that is up, unless the program is stopped again: NewBTree       *)
(* returns an error only after lost page writes or a failing log.           *)
StartEnds ==
  at \in Starting ~>
    at \in {"up", "down"} \/ (at = "failed" /\ (hist.shrunk \/ fails > 0))
=============================================================================
