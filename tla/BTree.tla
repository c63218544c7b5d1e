-------------------------------- MODULE BTree --------------------------------
(***************************************************************************)
(* The tree structure of btree.go: findLeafPage, upsertCell with its leaf  *)
(* split, insertIntoParent, splitInternal and the change of the root, at   *)
(* the granularity of page latches; Rollback on the pages its log records  *)
(* name; a crash between the log records of a split.                       *)
(*                                                                         *)
(* A transaction runs on a goroutine of its own; its version of user key u *)
(* is the tree key Ver(u, t).  Deletes, vacuum, free pages and overflow    *)
(* values belong to other modules.                                         *)
(***************************************************************************)
EXTENDS SlottedPage, FiniteSets

CONSTANTS UserKey,    \* user keys, positive numbers in byte order
          KeyLen,     \* bytes of a key with its version suffix
          ValLens,    \* bytes of the values clients write, at most 1024
          MaxTxn,     \* bound: transactions
          MaxOps,     \* bound: writes of a transaction
          MaxPages,   \* bound: pages of the file
          MaxFail,    \* bound: failed page allocations
          MaxCrash    \* bound: crashes

ASSUME UserKeyAssumption == UserKey \subseteq Nat \ {0}
ASSUME LengthAssumption == KeyLen \in 1 .. PageSize /\ ValLens \subseteq 0 .. 1024
ASSUME TreeBoundAssumption ==
  /\ MaxTxn \in Nat /\ MaxOps \in Nat /\ MaxPages \in Nat \ {0}
  /\ MaxFail \in Nat /\ MaxCrash \in Nat

Txn == 1 .. MaxTxn
PageID == 1 .. MaxPages

(* [UserKey]\x00[TxID], ordered by user key and then by transaction. *)
Ver(u, t) == u * (MaxTxn + 1) + t
UserOf(k) == k \div (MaxTxn + 1)
TxnOf(k) == k % (MaxTxn + 1)
NoKey == 0
Key == {Ver(u, t) : u \in UserKey, t \in Txn}
Beyond == Ver(Max(UserKey) + 1, 0)   \* above every key

KVCell(k, v) == [key |-> k, child |-> 0, len |-> KVCellSize(KeyLen, v)]
KeyCell(k, p) ==
  [key |-> k, child |-> p, len |-> KeyCellSize(IF k = NoKey THEN 0 ELSE KeyLen)]

VARIABLES
  page,      \* page images in the buffer pool
  root,      \* tree.rootPageID
  metaRoot,  \* root pointer on the meta page
  op,        \* the upsert call of each transaction
  stuck,     \* pages latched for ever, with the image the log has of them
  status,    \* transaction manager
  chain,     \* PrevLSN chain of each transaction: pages and keys of its records
  crashes,
  low, high, \* history: the key range the splits have left to a page
  hist       \* history: see NoHistory

tree == <<page, root, metaRoot, stuck>>
vars == <<page, root, metaRoot, stuck, op, status, chain, crashes, low, high, hist>>

NoHistory == [writes |-> [t \in Txn |-> 0],  \* upsert calls
              done |-> {},       \* keys whose upsert has returned without error
              committed |-> {},  \* transactions that have committed
              moved |-> {},      \* keys a split has written or moved to a new leaf
              hurt |-> {}]       \* what has happened that may hide a key

NoOp == [at |-> "idle", key |-> NoKey, val |-> 0, cur |-> 0, path |-> <<>>,
         new |-> 0, rest |-> <<>>, up |-> NoKey]

Cells == [key : Key \cup {NoKey}, child : 0 .. MaxPages, len : Nat]

Harm == {"late write", "stale path", "two roots", "cell dropped", "crash in split",
         "leaf stuck"}

TypeOK ==
  /\ \A p \in PageID :
       /\ page[p].type \in {"none", "leaf", "internal"}
       /\ page[p].free \in 0 .. PageSize
       /\ \A c \in ToSet(CellsOf(page[p])) :
            c \in Cells /\ (page[p].type = "internal" <=> c.child # 0)
  /\ root \in PageID /\ metaRoot \in PageID
  /\ \A f \in stuck : f.page \in PageID
  /\ \A t \in Txn :
       /\ op[t].at \in {"idle", "descend", "latch", "leaf right", "parent",
                        "internal right", "meta"}
       /\ op[t].key \in Key \cup {NoKey} /\ op[t].cur \in 0 .. MaxPages
       /\ op[t].path \in Seq(PageID) /\ op[t].new \in 0 .. MaxPages
       /\ \A i \in DOMAIN op[t].rest : op[t].rest[i] \in Cells
       /\ op[t].up \in Key \cup {NoKey}
       /\ chain[t] \in Seq([page : PageID, key : Key])
  /\ status \in [Txn -> {"none", "running", "rolling", "committed", "aborted", "loser", "gone"}]
  /\ crashes \in 0 .. MaxCrash
  /\ low \in [PageID -> 0 .. Beyond] /\ high \in [PageID -> 0 .. Beyond]
  /\ hist.writes \in [Txn -> 0 .. MaxOps]
  /\ hist.done \subseteq Key /\ hist.moved \subseteq Key
  /\ hist.committed \subseteq Txn /\ hist.hurt \subseteq Harm

(* After the first start: page 0 is the meta page, page 1 the root leaf. *)
Init ==
  /\ page = [p \in PageID |-> InitPage(IF p = 1 THEN "leaf" ELSE "none")]
  /\ root = 1 /\ metaRoot = 1
  /\ stuck = {}
  /\ op = [t \in Txn |-> NoOp]
  /\ status = [t \in Txn |-> "none"]
  /\ chain = [t \in Txn |-> <<>>]
  /\ crashes = 0
  /\ low = [p \in PageID |-> NoKey] /\ high = [p \in PageID |-> Beyond]
  /\ hist = NoHistory

-----------------------------------------------------------------------------
(* Pages *)

KeysOn(p) == {page[p].slots[i].cell.key : i \in DOMAIN page[p].slots}

Sorted(cells) == SortSeq(cells, LAMBDA c, d : c.key < d.key)

(* Pages whose write latch is held between two steps of a goroutine. *)
Latched(p) ==
  \/ \E f \in stuck : f.page = p
  \/ \E t \in Txn : \/ op[t].at \in {"leaf right", "internal right"} /\ p \in {op[t].cur, op[t].new}
                    \/ op[t].at = "meta" /\ p = op[t].new

SplitOpen == \E t \in Txn : op[t].at \notin {"idle", "descend", "latch"}

(* pager.AllocatePage: the file grows by one page; MaxPages bounds it. *)
Fresh == Cardinality({p \in PageID : page[p].type # "none"}) + 1

(* Children findLeafPage may choose: that of the largest key not above k    *)
(* (equal keys may lie in any order), else that of slot 0.                  *)
ChildrenFor(p, k) ==
  LET cells == ToSet(CellsOf(page[p]))
      below == {c \in cells : c.key <= k}
  IN  IF below = {} THEN {page[p].slots[1].cell.child}
      ELSE {c.child : c \in {d \in below : \A e \in below : e.key <= d.key}}

-----------------------------------------------------------------------------
(* findLeafPage *)

(* Identifiers follow the clock; recovery ends before clients are served. *)
Begin(t) ==
  /\ status[t] = "none"
  /\ \A o \in Txn : status[o] # "loser" /\ (o < t => status[o] # "none")
  /\ status' = [status EXCEPT ![t] = "running"]
  /\ UNCHANGED <<tree, op, chain, crashes, low, high, hist>>

(* upsertCell begins: rootPageID is read without a lock. *)
StartUpsert(t, u, v) ==
  /\ status[t] = "running" /\ op[t].at = "idle"
  /\ hist.writes[t] < MaxOps
  /\ hist' = [hist EXCEPT !.writes[t] = @ + 1]
  /\ op' = [op EXCEPT ![t] = [NoOp EXCEPT !.at = "descend", !.key = Ver(u, t),
                                          !.val = v, !.cur = root]]
  /\ UNCHANGED <<tree, status, chain, crashes, low, high>>

(* One level down; the latch of a page is dropped before the child's is     *)
(* taken.  The path remembers the parents.                                  *)
Descend(t) ==
  /\ op[t].at = "descend" /\ page[op[t].cur].type = "internal" /\ ~Latched(op[t].cur)
  /\ \E c \in ChildrenFor(op[t].cur, op[t].key) :
       op' = [op EXCEPT ![t].cur = c, ![t].path = Append(@, op[t].cur)]
  /\ UNCHANGED <<tree, status, chain, crashes, low, high, hist>>

(* A leaf: its read latch is dropped before the write latch is taken. *)
DropReadLatch(t) ==
  /\ op[t].at = "descend" /\ page[op[t].cur].type = "leaf" /\ ~Latched(op[t].cur)
  /\ op' = [op EXCEPT ![t].at = "latch"]
  /\ UNCHANGED <<tree, status, chain, crashes, low, high, hist>>

-----------------------------------------------------------------------------
(* upsertCell on the leaf *)

(* Mutant: a transaction without an entry is not committed. *)
IsCommittedInTable(t) == status[t] = "committed"

(* GetStatus: no entry counts as committed. *)
IsCommitted(t) == status[t] \in {"committed", "gone"}

(* Mutant: only younger commits are a conflict. *)
ConflictWithCommitted(t) ==
  \E k \in KeysOn(op[t].cur) :
    UserOf(k) = UserOf(op[t].key) /\ IsCommitted(TxnOf(k)) /\ TxnOf(k) > t

Conflict(t) ==
  \E k \in KeysOn(op[t].cur) :
    /\ UserOf(k) = UserOf(op[t].key) /\ TxnOf(k) # t
    /\ \/ status[TxnOf(k)] = "running"
       \/ IsCommitted(TxnOf(k)) /\ TxnOf(k) > t

(* The cells of the leaf with the new one in the place of its older self. *)
Extracted(t) ==
  Append(SelectSeq(CellsOf(page[op[t].cur]), LAMBDA c : c.key # op[t].key),
         KVCell(op[t].key, op[t].val))

LateWrite(t) == IF op[t].key >= high[op[t].cur] THEN {"late write"} ELSE {}
Dropped(pg, cells) == IF Len(pg.slots) < Len(cells) THEN {"cell dropped"} ELSE {}

AtLeaf(t) == op[t].at = "latch" /\ ~Latched(op[t].cur)

(* The conflict exit; DB.Set then rolls the transaction back. *)
UpsertConflict(t) ==
  /\ AtLeaf(t) /\ Conflict(t)
  /\ op' = [op EXCEPT ![t] = NoOp]
  /\ status' = [status EXCEPT ![t] = "rolling"]
  /\ UNCHANGED <<tree, chain, crashes, low, high, hist>>

(* Mutant: the leaf is not unpinned. *)
UpsertInPlaceStaysLatched(t) ==
  LET cells == Extracted(t)
      pg == Rebuild("leaf", Sorted(cells))
  IN  /\ AtLeaf(t) /\ ~Conflict(t) /\ SpaceNeeded(cells) <= PageSize
      /\ page' = [page EXCEPT ![op[t].cur] = pg]
      /\ stuck' = stuck \cup {[page |-> op[t].cur, img |-> pg]}
      /\ chain' = [chain EXCEPT ![t] = Append(@, [page |-> op[t].cur, key |-> op[t].key])]
      /\ hist' = [hist EXCEPT !.done = @ \cup {op[t].key},
                              !.hurt = @ \cup LateWrite(t) \cup Dropped(pg, cells)]
      /\ op' = [op EXCEPT ![t] = NoOp]
      /\ UNCHANGED <<root, metaRoot, status, crashes, low, high>>

(* The cells fit: the page is rewritten in key order and the change logged. *)
UpsertInPlace(t) ==
  LET cells == Extracted(t)
      pg == Rebuild("leaf", Sorted(cells))
  IN  /\ AtLeaf(t) /\ ~Conflict(t) /\ SpaceNeeded(cells) <= PageSize
      /\ page' = [page EXCEPT ![op[t].cur] = pg]
      /\ chain' = [chain EXCEPT ![t] = Append(@, [page |-> op[t].cur, key |-> op[t].key])]
      /\ hist' = [hist EXCEPT !.done = @ \cup {op[t].key},
                              !.hurt = @ \cup LateWrite(t) \cup Dropped(pg, cells)]
      /\ op' = [op EXCEPT ![t] = NoOp]
      /\ UNCHANGED <<root, metaRoot, stuck, status, crashes, low, high>>

(* Mutant: the routing key is the last key of the left half. *)
SplitLeafAtLeftKey(t) ==
  LET cells == Sorted(Extracted(t))
      mid == Len(cells) \div 2
      right == SubSeq(cells, mid + 1, Len(cells))
      cur == op[t].cur
  IN  /\ AtLeaf(t) /\ ~Conflict(t) /\ SpaceNeeded(cells) > PageSize
      /\ Fresh \in PageID
      /\ page' = [page EXCEPT ![cur] = Rebuild("leaf", SubSeq(cells, 1, mid)),
                              ![Fresh] = InitPage("leaf")]
      /\ op' = [op EXCEPT ![t].at = "leaf right", ![t].new = Fresh,
                          ![t].rest = right, ![t].up = cells[mid].key]
      /\ low' = [low EXCEPT ![Fresh] = right[1].key]
      /\ high' = [high EXCEPT ![Fresh] = high[cur], ![cur] = right[1].key]
      /\ hist' = [hist EXCEPT !.moved = @ \cup {op[t].key} \cup {c.key : c \in ToSet(right)}]
      /\ UNCHANGED <<root, metaRoot, stuck, status, chain, crashes>>

(* splitLeafCells up to the log record of the left half: the cells are cut  *)
(* in two by number; neither half is logged for the transaction.            *)
SplitLeaf(t) ==
  LET cells == Sorted(Extracted(t))
      mid == Len(cells) \div 2
      left == SubSeq(cells, 1, mid)
      right == SubSeq(cells, mid + 1, Len(cells))
      cur == op[t].cur
      pg == Rebuild("leaf", left)
  IN  /\ AtLeaf(t) /\ ~Conflict(t) /\ SpaceNeeded(cells) > PageSize
      /\ Fresh \in PageID
      /\ page' = [page EXCEPT ![cur] = pg, ![Fresh] = InitPage("leaf")]
      /\ op' = [op EXCEPT ![t].at = "leaf right", ![t].new = Fresh,
                          ![t].rest = right, ![t].up = right[1].key]
      /\ low' = [low EXCEPT ![Fresh] = right[1].key]
      /\ high' = [high EXCEPT ![Fresh] = high[cur], ![cur] = right[1].key]
      /\ hist' = [hist EXCEPT !.moved = @ \cup {op[t].key} \cup {c.key : c \in ToSet(right)},
                              !.hurt = @ \cup LateWrite(t) \cup Dropped(pg, left)]
      /\ UNCHANGED <<root, metaRoot, stuck, status, chain, crashes>>

(* splitLeafCells when no page can be allocated: the leaf has been cleared  *)
(* and stays latched and pinned; the transaction goes on.                   *)
SplitLeafFails(t) ==
  /\ AtLeaf(t) /\ ~Conflict(t) /\ SpaceNeeded(Extracted(t)) > PageSize
  /\ Cardinality(stuck) < MaxFail
  /\ page' = [page EXCEPT ![op[t].cur] = InitPage("leaf")]
  /\ stuck' = stuck \cup {[page |-> op[t].cur, img |-> page[op[t].cur]]}
  /\ op' = [op EXCEPT ![t] = NoOp]
  /\ hist' = [hist EXCEPT !.hurt = @ \cup {"leaf stuck"}]
  /\ UNCHANGED <<root, metaRoot, status, chain, crashes, low, high>>

(* Mutant: the loop over the right half begins one cell too late. *)
SplitLeafRightFromNext(t) ==
  /\ op[t].at = "leaf right"
  /\ page' = [page EXCEPT ![op[t].new] = Rebuild("leaf", Tail(op[t].rest))]
  /\ op' = [op EXCEPT ![t].at = "parent", ![t].rest = <<>>]
  /\ UNCHANGED <<root, metaRoot, stuck, status, chain, crashes, low, high, hist>>

(* The right half is logged and both leaves are released; only then the     *)
(* parent is looked for.                                                    *)
SplitLeafRight(t) ==
  LET pg == Rebuild("leaf", op[t].rest)
  IN  /\ op[t].at = "leaf right"
      /\ page' = [page EXCEPT ![op[t].new] = pg]
      /\ op' = [op EXCEPT ![t].at = "parent", ![t].rest = <<>>]
      /\ hist' = [hist EXCEPT !.hurt = @ \cup Dropped(pg, op[t].rest)]
      /\ UNCHANGED <<root, metaRoot, stuck, status, chain, crashes, low, high>>

-----------------------------------------------------------------------------
(* insertIntoParent: op[t].cur was split at key op[t].up, the right half is *)
(* op[t].new                                                                *)

Parent(t) == Last(op[t].path)

AtParent(t) == op[t].at = "parent" /\ op[t].path # <<>> /\ ~Latched(Parent(t))

StalePath(t) == IF op[t].up >= high[Parent(t)] THEN {"stale path"} ELSE {}

(* Mutant: the rewritten node lacks the new routing cell. *)
InsertIntoParentForgotten(t) ==
  LET cell == KeyCell(op[t].up, op[t].new)
  IN  /\ AtParent(t) /\ HasRoom(page[Parent(t)], cell.len)
      /\ hist' = [hist EXCEPT !.done = @ \cup {op[t].key}, !.hurt = @ \cup StalePath(t)]
      /\ op' = [op EXCEPT ![t] = NoOp]
      /\ UNCHANGED <<tree, status, chain, crashes, low, high>>

(* The routing cell fits; the node is rewritten in key order. *)
InsertIntoParent(t) ==
  LET cell == KeyCell(op[t].up, op[t].new)
      cells == Sorted(Append(CellsOf(page[Parent(t)]), cell))
  IN  /\ AtParent(t) /\ HasRoom(page[Parent(t)], cell.len)
      /\ page' = [page EXCEPT ![Parent(t)] = Rebuild("internal", cells)]
      /\ hist' = [hist EXCEPT !.done = @ \cup {op[t].key}, !.hurt = @ \cup StalePath(t)]
      /\ op' = [op EXCEPT ![t] = NoOp]
      /\ UNCHANGED <<root, metaRoot, stuck, status, chain, crashes, low, high>>

(* splitInternal up to the log record of the left half: the key in the      *)
(* middle moves up, its child becomes the leftmost of the right node.       *)
SplitInternal(t) ==
  LET cell == KeyCell(op[t].up, op[t].new)
      cells == Sorted(Append(CellsOf(page[Parent(t)]), cell))
      mid == Len(cells) \div 2
      middle == cells[mid + 1]
      p == Parent(t)
  IN  /\ AtParent(t) /\ ~HasRoom(page[p], cell.len)
      /\ Fresh \in PageID
      /\ page' = [page EXCEPT ![p] = Rebuild("internal", SubSeq(cells, 1, mid)),
                              ![Fresh] = InitPage("internal")]
      /\ op' = [op EXCEPT ![t].at = "internal right", ![t].cur = p,
                          ![t].path = Front(@), ![t].new = Fresh, ![t].up = middle.key,
                          ![t].rest = <<KeyCell(NoKey, middle.child)>>
                                        \o SubSeq(cells, mid + 2, Len(cells))]
      /\ low' = [low EXCEPT ![Fresh] = middle.key]
      /\ high' = [high EXCEPT ![Fresh] = high[p], ![p] = middle.key]
      /\ hist' = [hist EXCEPT !.hurt = @ \cup StalePath(t)]
      /\ UNCHANGED <<root, metaRoot, stuck, status, chain, crashes>>

SplitInternalRight(t) ==
  /\ op[t].at = "internal right"
  /\ page' = [page EXCEPT ![op[t].new] = Rebuild("internal", op[t].rest)]
  /\ op' = [op EXCEPT ![t].at = "parent", ![t].rest = <<>>]
  /\ UNCHANGED <<root, metaRoot, stuck, status, chain, crashes, low, high, hist>>

(* Mutant: the new root has no left child. *)
NewRootWithoutLeft(t) ==
  /\ op[t].at = "parent" /\ op[t].path = <<>>
  /\ Fresh \in PageID
  /\ page' = [page EXCEPT ![Fresh] =
       Rebuild("internal", <<KeyCell(NoKey, 0), KeyCell(op[t].up, op[t].new)>>)]
  /\ root' = Fresh
  /\ op' = [op EXCEPT ![t].at = "meta", ![t].new = Fresh]
  /\ hist' = [hist EXCEPT !.hurt = @ \cup IF op[t].cur # root THEN {"two roots"} ELSE {}]
  /\ UNCHANGED <<metaRoot, stuck, status, chain, crashes, low, high>>

(* The path is empty: a new root above the two halves.  rootPageID changes  *)
(* at once, the meta page when its latch is free.                           *)
NewRoot(t) ==
  /\ op[t].at = "parent" /\ op[t].path = <<>>
  /\ Fresh \in PageID
  /\ page' = [page EXCEPT ![Fresh] =
       Rebuild("internal", <<KeyCell(NoKey, op[t].cur), KeyCell(op[t].up, op[t].new)>>)]
  /\ root' = Fresh
  /\ op' = [op EXCEPT ![t].at = "meta", ![t].new = Fresh]
  /\ hist' = [hist EXCEPT !.hurt = @ \cup IF op[t].cur # root THEN {"two roots"} ELSE {}]
  /\ UNCHANGED <<metaRoot, stuck, status, chain, crashes, low, high>>

SetMetaRoot(t) ==
  /\ op[t].at = "meta"
  /\ metaRoot' = op[t].new
  /\ hist' = [hist EXCEPT !.done = @ \cup {op[t].key}]
  /\ op' = [op EXCEPT ![t] = NoOp]
  /\ UNCHANGED <<page, root, stuck, status, chain, crashes, low, high>>

-----------------------------------------------------------------------------
(* End of a transaction *)

Commit(t) ==
  /\ status[t] = "running" /\ op[t].at = "idle"
  /\ status' = [status EXCEPT ![t] = "committed"]
  /\ hist' = [hist EXCEPT !.committed = @ \cup {t}]
  /\ UNCHANGED <<tree, op, chain, crashes, low, high>>

StartRollback(t) ==
  /\ status[t] = "running" /\ op[t].at = "idle"
  /\ status' = [status EXCEPT ![t] = "rolling"]
  /\ UNCHANGED <<tree, op, chain, crashes, low, high, hist>>

(* Mutant: the undo puts the cell back where it was. *)
UndoStepKeepsCell(t) ==
  /\ status[t] \in {"rolling", "loser"} /\ chain[t] # <<>> /\ ~Latched(Last(chain[t]).page)
  /\ chain' = [chain EXCEPT ![t] = Front(@)]
  /\ UNCHANGED <<tree, op, status, crashes, low, high, hist>>

(* One record, in Rollback or in the undo phase of recovery:                *)
(* redoUpsertOnPage on the page the record names.                           *)
UndoStep(t) ==
  LET r == Last(chain[t])
      kept == SelectSeq(CellsOf(page[r.page]), LAMBDA c : c.key # r.key)
  IN  /\ status[t] \in {"rolling", "loser"} /\ chain[t] # <<>> /\ ~Latched(r.page)
      /\ page' = [page EXCEPT ![r.page] = Rebuild("leaf", kept)]
      /\ chain' = [chain EXCEPT ![t] = Front(@)]
      /\ UNCHANGED <<root, metaRoot, stuck, op, status, crashes, low, high, hist>>

FinishRollback(t) ==
  /\ status[t] \in {"rolling", "loser"} /\ chain[t] = <<>>
  /\ status' = [status EXCEPT ![t] = IF @ = "rolling" THEN "aborted" ELSE "gone"]
  /\ UNCHANGED <<tree, op, chain, crashes, low, high, hist>>

(* A crash when the file holds every logged page image (Aries has the other *)
(* cases): each step above ends with the log record of the page it changes. *)
(* Memory is lost; rootPageID comes from the meta page; recovery undoes the *)
(* transactions with records and no end; nobody has an entry in the new     *)
(* transaction table, which counts as committed.                            *)
Crash ==
  /\ crashes < MaxCrash
  /\ crashes' = crashes + 1
  /\ root' = metaRoot
  /\ op' = [t \in Txn |-> NoOp]
  /\ status' = [t \in Txn |->
       IF status[t] = "none" THEN "none"
       ELSE IF status[t] \in {"running", "rolling", "loser"} /\ chain[t] # <<>> THEN "loser"
       ELSE "gone"]
  /\ hist' = [hist EXCEPT !.hurt = @ \cup IF SplitOpen THEN {"crash in split"} ELSE {}]
  /\ page' = [p \in PageID |-> IF \E f \in stuck : f.page = p
                              THEN (CHOOSE f \in stuck : f.page = p).img ELSE page[p]]
  /\ stuck' = {}
  /\ UNCHANGED <<metaRoot, chain, low, high>>

-----------------------------------------------------------------------------
UpsertStep(t) ==
  \/ Descend(t) \/ DropReadLatch(t)
  \/ UpsertConflict(t) \/ UpsertInPlace(t)
  \/ SplitLeaf(t) \/ SplitLeafFails(t) \/ SplitLeafRight(t)
  \/ InsertIntoParent(t) \/ SplitInternal(t) \/ SplitInternalRight(t)
  \/ NewRoot(t) \/ SetMetaRoot(t)

Next ==
  \/ \E t \in Txn, u \in UserKey, v \in ValLens : StartUpsert(t, u, v)
  \/ \E t \in Txn : Begin(t) \/ UpsertStep(t) \/ Commit(t) \/ StartRollback(t)
                      \/ UndoStep(t) \/ FinishRollback(t)
  \/ Crash

Spec == Init /\ [][Next]_vars

(* A goroutine inside upsertCell keeps running. *)
FairSpec == Spec /\ \A t \in Txn : WF_vars(UpsertStep(t))

-----------------------------------------------------------------------------
(* The leaf a search for k ends in when nobody else runs. *)
LeafFor(k) ==
  LET below(p) == IF page[p].type = "leaf" THEN p ELSE CHOOSE c \in ChildrenFor(p, k) : TRUE
      at[n \in 0 .. MaxPages] == IF n = 0 THEN root ELSE below(at[n - 1])
  IN  at[MaxPages]

Alive(k) == status[TxnOf(k)] = "running" \/ TxnOf(k) \in hist.committed

(* Every page keeps the slotted layout through rewrites, splits and undo:   *)
(* no cell overlaps another or the directory, with cells of several sizes,  *)
(* all too short for 16-bit arithmetic to wrap (LengthAssumption).          *)
PagesLaidOut == \A p \in PageID : Layout(page[p])

(* Routing is sound under every interleaving of splits, also those that     *)
(* work with stale paths: an internal cell leads to the page whose range    *)
(* begins with the cell's key, so no search lands right of its key, and no  *)
(* leaf holds a key below its range.                                        *)
RoutingSound ==
  \A p \in PageID :
    \A i \in DOMAIN page[p].slots :
      LET c == page[p].slots[i].cell
      IN  IF page[p].type = "leaf" THEN c.key >= low[p]
          ELSE low[c.child] = IF c.key = NoKey THEN low[p] ELSE c.key

(* Concurrent splits hide keys but destroy none: unless a half did not fit  *)
(* its page or a crash cut a split in two, the cell of a returned upsert is *)
(* in some leaf until its transaction rolls back, or, when a split could    *)
(* not get a page, in the image a restart brings back.                      *)
NothingDestroyed ==
  hist.hurt \cap {"cell dropped", "crash in split"} = {} =>
    \A k \in hist.done : Alive(k) =>
      \/ \E p \in PageID : page[p].type = "leaf" /\ k \in KeysOn(p)
      \/ \E t \in Txn : \E c \in ToSet(op[t].rest) : c.key = k
      \/ \E f \in stuck : \E c \in ToSet(CellsOf(f.img)) : c.key = k

(* The tree is a map: between splits every live key is found by its own     *)
(* search, unless one of the accidents in Harm has happened.                *)
Findable ==
  hist.hurt = {} /\ ~SplitOpen => \A k \in hist.done : Alive(k) => k \in KeysOn(LeafFor(k))

(* Rollback and recovery erase what a transaction has written, except keys  *)
(* that a split wrote or moved: the first have no record of the             *)
(* transaction, the records of the others name the old leaf.                *)
RollbackErases ==
  \A p \in PageID : \A k \in KeysOn(p) :
    (page[p].type = "leaf" /\ status[TxnOf(k)] \in {"aborted", "gone"})
      => TxnOf(k) \in hist.committed \/ k \in hist.moved

(* A leaf boundary lies between the keys k and m. *)
Separated(k, m) == \E p \in PageID : Min({k, m}) < low[p] /\ low[p] <= Max({k, m})

(* First updater wins, also across splits: of two versions of a key one is  *)
(* not running, and a running one is not overtaken by a younger commit,     *)
(* unless a leaf boundary lies between the two, where neither writer sees   *)
(* the other.                                                               *)
OneWriterPerKey ==
  hist.hurt = {} =>
    \A k, m \in hist.done :
      (/\ k # m /\ UserOf(k) = UserOf(m) /\ status[TxnOf(k)] = "running"
       /\ status[TxnOf(m)] = "running" \/ (status[TxnOf(m)] = "committed" /\ k < m))
        => Separated(k, m)

(* The versions of u that FindLatest lets a reader with identifier r see. *)
Visible(r, u) ==
  {k \in KeysOn(LeafFor(Ver(u, r))) :
     UserOf(k) = u /\ TxnOf(k) <= r /\ (TxnOf(k) = r \/ IsCommitted(TxnOf(k)))}

(* It sees the newest of those that are committed or its own. *)
Latest(r, u) ==
  LET due == {k \in hist.done : /\ UserOf(k) = u /\ Alive(k) /\ TxnOf(k) <= r
                                /\ TxnOf(k) \in hist.committed \cup {r}}
  IN  due # {} => Visible(r, u) # {} /\ Max(Visible(r, u)) >= Max(due)

(* A reader finds the newest version it may see unless a leaf boundary lies *)
(* between its own position in the key and a version written below it.      *)
LatestFound ==
  hist.hurt = {} /\ ~SplitOpen =>
    \A r \in Txn, u \in UserKey :
      \/ Latest(r, u)
      \/ \E k \in hist.done : UserOf(k) = u /\ k < Ver(u, r) /\ Separated(k, Ver(u, r))

(* A write comes to its end, through any number of splits by others, as     *)
(* long as no failed split has left its leaf latched.                       *)
UpsertReturns ==
  \A t \in Txn : op[t].at # "idle" ~> op[t].at = "idle" \/ "leaf stuck" \in hist.hurt

-----------------------------------------------------------------------------
(* btree.go, FindLatest: "searches for the most recent version of a key     *)
(* that is visible to the reader".  Asked only while nobody writes.         *)
LatestVersionFound ==
  (hist.hurt = {} /\ \A t \in Txn : op[t].at = "idle") =>
    \A r \in Txn, u \in UserKey : Latest(r, u)
=============================================================================
