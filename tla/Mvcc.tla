-------------------------------- MODULE Mvcc --------------------------------
(***************************************************************************)
(* Transactions over one leaf page: the TransactionManager (txn.go), the   *)
(* MVCC reads and writes of the B-tree (FindLatest, upsertCell), rollback  *)
(* along the PrevLSN chain (Rollback), commit, and a vacuum pass           *)
(* (vacuum.go), interleaved at the granularity of the leaf latch and of    *)
(* the transaction manager's mutex.                                        *)
(*                                                                         *)
(* The leaf holds every version in play: splits, overflow chains, crashes  *)
(* and the buffer pool belong to other modules.  A failing append, fetch   *)
(* or read of the log is an exit of its own (the actions named Fails and   *)
(* Skips), with what the code makes of it.                                 *)
(***************************************************************************)
EXTENDS Integers, Sequences, FiniteSets

CONSTANTS Key,      \* user keys; numbers, because the slots are byte-ordered
          Val,      \* payloads of SET
          MaxTxn,   \* bound: transactions begun in a behaviour
          MaxOps,   \* bound: data records a transaction logs
          MaxFail   \* bound: I/O errors end when this many transactions met one

ASSUME KeyAssumption == Key \subseteq Nat
ASSUME ValAssumption == Val \cap {"absent", "tombstone", "nil"} = {}
ASSUME BoundAssumption == MaxTxn \in Nat /\ MaxOps \in Nat /\ MaxFail \in Nat

(* Transaction identifiers.  GenerateTxID reads a clock under the manager's *)
(* mutex; only the order of two identifiers is ever used.                   *)
TxID == 1 .. MaxTxn

(* ^TxnID(0): larger than every identifier. *)
MaxTxID == MaxTxn + 1

(* What the leaf holds for a version [UserKey]\x00[TxID]: no cell, a cell  *)
(* flagged KEY_DELETED_FLAG, a live cell without bytes, or a live payload. *)
Cell == {"absent", "tombstone", "nil"} \cup Val

(* A data record of the log, as far as undo reads it. *)
LogRecord == [op : {"insert", "delete"}, key : Key]

VARIABLES
  txnTable,  \* TransactionManager.txnTable; "none": no entry
  leaf,      \* leaf[k][t]: the cell of version t of key k
  late,      \* late[k][t]: 0 in the sorted run, else rank among the slots
             \* appended behind it since upsertCell last sorted the page
  appended,  \* how many slots were appended since then
  begun,     \* transactions begun so far
  chain,     \* data records a rollback still has to undo, oldest first: the
             \* PrevLSN chain from lsnTable[t] until Rollback has read it, then
             \* from its local lsn; a finished transaction's is never read
  rolling,   \* transactions whose Rollback call has not returned
  marked,    \* those of them that have not read their last LSN yet
  vacuum,    \* the vacuum goroutine: its phase and its local minActive
  outcome,   \* history: what became of each transaction
  failed,    \* history: transactions of which a call met an I/O error
  forgotten  \* history: transactions whose records PruneTables took away
             \* before Rollback had read the last LSN

vars == <<txnTable, leaf, late, appended, begun, chain, rolling, marked, vacuum,
          outcome, failed, forgotten>>
hist == <<outcome, failed, forgotten>>

Status == {"none", "running", "committed", "rollingback", "rolledback"}

TypeOK ==
  /\ txnTable \in [TxID -> Status]
  /\ leaf \in [Key -> [TxID -> Cell]]
  /\ late \in [Key -> [TxID -> Nat]]
  /\ appended \in Nat
  /\ begun \in 0 .. MaxTxn
  /\ chain \in [TxID -> Seq(LogRecord)]
  /\ rolling \in SUBSET TxID /\ marked \in SUBSET rolling
  /\ failed \in SUBSET TxID /\ forgotten \in SUBSET TxID
  /\ vacuum \in [phase : {"idle", "sweep", "prune"}, minActive : 1 .. MaxTxID]
  /\ outcome \in [TxID -> {"none", "running", "committed", "aborted"}]

Init ==
  /\ txnTable = [t \in TxID |-> "none"]
  /\ leaf = [k \in Key |-> [t \in TxID |-> "absent"]]
  /\ late = [k \in Key |-> [t \in TxID |-> 0]]
  /\ appended = 0
  /\ begun = 0
  /\ chain = [t \in TxID |-> <<>>]
  /\ rolling = {} /\ marked = {} /\ failed = {} /\ forgotten = {}
  /\ vacuum = [phase |-> "idle", minActive |-> MaxTxID]
  /\ outcome = [t \in TxID |-> "none"]

-----------------------------------------------------------------------------
(* Transaction manager and visibility *)

(* A transaction without an entry counts as committed. *)
GetStatus(t) == IF txnTable[t] = "none" THEN "committed" ELSE txnTable[t]

Running == {t \in TxID : txnTable[t] = "running"}

GetMinActiveTxID ==
  IF Running = {} THEN MaxTxID
  ELSE CHOOSE t \in Running : \A u \in Running : t <= u

Present(k, t) == leaf[k][t] # "absent"

(* Mutant: the status of the version's transaction is not consulted. *)
VisibleWhateverStatus(k, t, reader) == Present(k, t) /\ t <= reader

IsVersionVisible(k, t, reader) ==
  /\ Present(k, t)
  /\ t <= reader
  /\ t = reader \/ GetStatus(t) = "committed"

(* The version FindLatest settles on, 0 when none is visible. *)
BestVersion(k, reader) ==
  LET visible == {t \in TxID : IsVersionVisible(k, t, reader)}
  IN  IF visible = {} THEN 0
      ELSE CHOOSE t \in visible : \A u \in visible : u <= t

(* What GET answers: a payload, or "absent" for both "key not found" errors. *)
FindLatest(k, reader) ==
  LET best == BestVersion(k, reader)
  IN  IF best = 0 \/ leaf[k][best] = "tombstone" THEN "absent" ELSE leaf[k][best]

(* Mutant: a younger commit is no conflict. *)
ConflictRunningOnly(k, writer) ==
  \E t \in TxID \ {writer} : Present(k, t) /\ GetStatus(t) = "running"

(* The write-write conflict test of upsertCell, first updater wins. *)
Conflict(k, writer) ==
  \E t \in TxID \ {writer} :
    /\ Present(k, t)
    /\ \/ GetStatus(t) = "running"
       \/ GetStatus(t) = "committed" /\ t > writer

-----------------------------------------------------------------------------
(* Transactions *)

Begin ==
  /\ begun < MaxTxn
  /\ begun' = begun + 1
  /\ txnTable' = [txnTable EXCEPT ![begun + 1] = "running"]
  /\ outcome' = [outcome EXCEPT ![begun + 1] = "running"]
  /\ UNCHANGED <<leaf, late, appended, chain, rolling, marked, vacuum, failed, forgotten>>

(* An I/O error in a call of t. *)
Fail(t) ==
  /\ Cardinality(failed) < MaxFail
  /\ failed' = failed \cup {t}

(* The page after SET or DELETE without conflict: rewritten in key order. *)
WriteCell(t, k, c) ==
  /\ t \in Running
  /\ Len(chain[t]) < MaxOps
  /\ ~Conflict(k, t)
  /\ leaf' = [leaf EXCEPT ![k][t] = c]
  /\ late' = [j \in Key |-> [u \in TxID |-> 0]]
  /\ appended' = 0

(* The page is rewritten and one data record is logged, under the write     *)
(* latch of the leaf.                                                       *)
Upsert(t, k, c) ==
  /\ WriteCell(t, k, c)
  /\ chain' = [chain EXCEPT ![t] =
       Append(@, [op |-> IF c = "tombstone" THEN "delete" ELSE "insert", key |-> k])]
  /\ UNCHANGED <<txnTable, begun, rolling, marked, vacuum, hist>>

(* Append fails: the cell stays in the page, no record is on the chain, and *)
(* the error, which is no conflict, ends the call and not the transaction.  *)
UpsertFails(t, k, c) ==
  /\ WriteCell(t, k, c)
  /\ Fail(t)
  /\ UNCHANGED <<txnTable, begun, chain, rolling, marked, vacuum, outcome, forgotten>>

(* Rollback marks the transaction ... *)
StartRollback(t) ==
  /\ t \in Running
  /\ txnTable' = [txnTable EXCEPT ![t] = "rollingback"]
  /\ rolling' = rolling \cup {t}
  /\ marked' = marked \cup {t}
  /\ outcome' = [outcome EXCEPT ![t] = "aborted"]
  /\ UNCHANGED <<leaf, late, appended, begun, chain, vacuum, failed, forgotten>>

(* ... and reads where its chain begins, in a second section of the mutex.  *)
GetLastLSN(t) ==
  /\ t \in marked
  /\ marked' = marked \ {t}
  /\ UNCHANGED <<txnTable, leaf, late, appended, begun, chain, rolling, vacuum, hist>>

(* SET or DELETE that meets a conflict: DB.Set and DB.Delete roll back. *)
UpsertConflict(t, k) ==
  /\ Conflict(k, t)
  /\ StartRollback(t)

(* Mutant: the inverse of an insert is a delete, which leaves a tombstone. *)
UndoByTombstone(t, rec) ==
  /\ leaf' = [leaf EXCEPT ![rec.key][t] = IF rec.op = "insert" THEN "tombstone" ELSE "nil"]
  /\ UNCHANGED <<late, appended>>

(* Mutant: undo matches the user key and not the whole key. *)
UndoByUserKey(t, rec) ==
  /\ leaf' = [leaf EXCEPT ![rec.key] = [u \in TxID |-> "absent"]]
  /\ late' = [late EXCEPT ![rec.key] = [u \in TxID |-> 0]]
  /\ UNCHANGED appended

(* redoUpsertOnPage with LogOpUndoInsert drops the cell; with LogOpInsert,  *)
(* the inverse of a delete, it writes the record's nil value as a live cell *)
(* in place, or behind all others when the key has no cell any more.        *)
UndoRecord(t, rec) ==
  LET k == rec.key
  IN  IF rec.op = "insert"
      THEN /\ leaf' = [leaf EXCEPT ![k][t] = "absent"]
           /\ late' = [late EXCEPT ![k][t] = 0]
           /\ UNCHANGED appended
      ELSE /\ leaf' = [leaf EXCEPT ![k][t] = "nil"]
           /\ IF Present(k, t)
              THEN UNCHANGED <<late, appended>>
              ELSE /\ late' = [late EXCEPT ![k][t] = appended + 1]
                   /\ appended' = appended + 1

(* One turn of Rollback's loop, under the write latch of the record's page. *)
UndoStep(t) ==
  /\ t \in rolling \ marked
  /\ chain[t] # <<>>
  /\ UndoRecord(t, chain[t][Len(chain[t])])
  /\ chain' = [chain EXCEPT ![t] = SubSeq(@, 1, Len(@) - 1)]
  /\ UNCHANGED <<txnTable, begun, rolling, marked, vacuum, hist>>

(* The page cannot be fetched: the record is passed over. *)
UndoSkips(t) ==
  /\ t \in rolling \ marked
  /\ chain[t] # <<>>
  /\ chain' = [chain EXCEPT ![t] = SubSeq(@, 1, Len(@) - 1)]
  /\ Fail(t)
  /\ UNCHANGED <<txnTable, leaf, late, appended, begun, rolling, marked, vacuum,
                 outcome, forgotten>>

(* The record cannot be read: Rollback returns, the status stays. *)
RollbackFails(t) ==
  /\ t \in rolling \ marked
  /\ chain[t] # <<>>
  /\ rolling' = rolling \ {t}
  /\ chain' = [chain EXCEPT ![t] = <<>>]
  /\ Fail(t)
  /\ UNCHANGED <<txnTable, leaf, late, appended, begun, marked, vacuum, outcome, forgotten>>

(* Mutant: Rollback returns without the final SetStatus. *)
FinishWithoutStatus(t) ==
  /\ t \in rolling \ marked
  /\ chain[t] = <<>>
  /\ rolling' = rolling \ {t}
  /\ UNCHANGED <<txnTable, leaf, late, appended, begun, chain, marked, vacuum, hist>>

FinishRollback(t) ==
  /\ t \in rolling \ marked
  /\ chain[t] = <<>>
  /\ txnTable' = [txnTable EXCEPT ![t] = "rolledback"]
  /\ rolling' = rolling \ {t}
  /\ UNCHANGED <<leaf, late, appended, begun, chain, marked, vacuum, hist>>

Commit(t) ==
  /\ t \in Running
  /\ txnTable' = [txnTable EXCEPT ![t] = "committed"]
  /\ chain' = [chain EXCEPT ![t] = <<>>]
  /\ outcome' = [outcome EXCEPT ![t] = "committed"]
  /\ UNCHANGED <<leaf, late, appended, begun, rolling, marked, vacuum, failed, forgotten>>

(* Append fails: Commit returns, and the transaction is still running. *)
CommitFails(t) ==
  /\ t \in Running
  /\ Fail(t)
  /\ UNCHANGED <<txnTable, leaf, late, appended, begun, chain, rolling, marked, vacuum,
                 outcome, forgotten>>

-----------------------------------------------------------------------------
(* Vacuum *)

(* Slot order of the page: the sorted run, then the slots appended later. *)
Before(k, t, j, u) ==
  \/ late[k][t] < late[j][u]
  \/ /\ late[k][t] = late[j][u]
     /\ k < j \/ (k = j /\ t < u)

(* Mutant: a cell is compared with the slot before it. *)
PreviousVersion(k, t, u) ==
  /\ Present(k, u)
  /\ Before(k, u, k, t)
  /\ \A j \in Key, w \in TxID :
       Present(j, w) => ~(Before(k, u, j, w) /\ Before(j, w, k, t))

(* The slot right after version t of k holds version u of the same key. *)
NextVersion(k, t, u) ==
  /\ Present(k, u)
  /\ Before(k, t, k, u)
  /\ \A j \in Key, w \in TxID :
       Present(j, w) => ~(Before(k, t, j, w) /\ Before(j, w, k, u))

(* The cells vacuumLeaf does not copy to the new page. *)
Dropped(k, t, minActive) ==
  /\ Present(k, t)
  /\ \/ \E u \in TxID : NextVersion(k, t, u) /\ u < minActive
     \/ leaf[k][t] = "tombstone" /\ t < minActive

StartVacuum ==
  /\ vacuum.phase = "idle"
  /\ vacuum' = [phase |-> "sweep", minActive |-> GetMinActiveTxID]
  /\ UNCHANGED <<txnTable, leaf, late, appended, begun, chain, rolling, marked, hist>>

VacuumLeaf ==
  /\ vacuum.phase = "sweep"
  /\ leaf' = [k \in Key |-> [t \in TxID |->
                IF Dropped(k, t, vacuum.minActive) THEN "absent" ELSE leaf[k][t]]]
  /\ late' = [k \in Key |-> [t \in TxID |->
                IF Dropped(k, t, vacuum.minActive) THEN 0 ELSE late[k][t]]]
  /\ vacuum' = [vacuum EXCEPT !.phase = "prune"]
  /\ UNCHANGED <<txnTable, appended, begun, chain, rolling, marked, hist>>

(* The leaf cannot be fetched: Vacuum goes on with the tables. *)
VacuumLeafFails ==
  /\ vacuum.phase = "sweep"
  /\ vacuum' = [vacuum EXCEPT !.phase = "prune"]
  /\ UNCHANGED <<txnTable, leaf, late, appended, begun, chain, rolling, marked, hist>>

(* Mutants: running entries are pruned too; only committed entries are. *)
PrunedRunningToo(t) == txnTable[t] # "none" /\ t < vacuum.minActive

PrunedCommittedOnly(t) == txnTable[t] = "committed" /\ t < vacuum.minActive

(* The entries PruneTables deletes: whatever is not running and old enough. *)
Pruned(t) == txnTable[t] \notin {"none", "running"} /\ t < vacuum.minActive

(* Both maps lose the entry, so a Rollback between its first two sections   *)
(* finds no chain.                                                          *)
PruneTables ==
  LET cut == {t \in marked : Pruned(t)}
  IN  /\ vacuum.phase = "prune"
      /\ txnTable' = [t \in TxID |-> IF Pruned(t) THEN "none" ELSE txnTable[t]]
      /\ chain' = [t \in TxID |-> IF t \in cut THEN <<>> ELSE chain[t]]
      /\ forgotten' = forgotten \cup {t \in cut : chain[t] # <<>>}
      /\ vacuum' = [phase |-> "idle", minActive |-> MaxTxID]
      /\ UNCHANGED <<leaf, late, appended, begun, rolling, marked, outcome, failed>>

Vacuum == StartVacuum \/ VacuumLeaf \/ VacuumLeafFails \/ PruneTables

RollbackStep(t) ==
  GetLastLSN(t) \/ UndoStep(t) \/ UndoSkips(t) \/ RollbackFails(t) \/ FinishRollback(t)

(* What a client does with a transaction of its own. *)
ClientStep(t) ==
  \/ \E k \in Key, c \in Val \cup {"tombstone"} : Upsert(t, k, c) \/ UpsertFails(t, k, c)
  \/ \E k \in Key : UpsertConflict(t, k)
  \/ StartRollback(t)
  \/ Commit(t) \/ CommitFails(t)

TxnNext == Begin \/ \E t \in TxID : ClientStep(t) \/ RollbackStep(t)

Next == TxnNext \/ Vacuum

Spec == Init /\ [][Next]_vars

(* A Rollback call runs to its end, and the vacuum goroutine keeps waking up. *)
FairSpec ==
  /\ Spec
  /\ \A t \in TxID : WF_vars(RollbackStep(t))
  /\ WF_vars(Vacuum)

-----------------------------------------------------------------------------
(* Safety *)

(* First updater wins (upsertCell's conflict test): whatever commits,       *)
(* rollbacks and vacuum passes run in between, the version a running        *)
(* transaction holds in the leaf is the youngest live version of its key,   *)
(* and no other running transaction holds one.  Hence per key the commit    *)
(* order of the surviving versions is their identifier order.               *)
FirstUpdaterWins ==
  \A k \in Key, t, u \in TxID :
    (/\ t # u
     /\ Present(k, t) /\ outcome[t] = "running"
     /\ Present(k, u) /\ outcome[u] \in {"running", "committed"})
      => outcome[u] = "committed" /\ u < t

(* The table never lies about a live transaction: GetStatus reports         *)
(* RUNNING exactly until Commit or Rollback is called, and a committed      *)
(* transaction is reported as committed even after PruneTables forgot it.   *)
StatusAgrees ==
  \A t \in TxID :
    /\ outcome[t] = "running" <=> txnTable[t] = "running"
    /\ outcome[t] = "committed" => GetStatus(t) = "committed"

(* When Rollback returns, nothing the transaction SET and no tombstone of   *)
(* its is left in the leaf, also when other transactions and the vacuum     *)
(* rewrote the page between two undo steps.  Two things can leave data      *)
(* behind: an I/O error on the way, and a PruneTables that deletes the last *)
(* LSN between the two sections of the mutex Rollback begins with.          *)
RolledBackDataErased ==
  \A t \in TxID \ (failed \cup forgotten) : outcome[t] = "aborted" /\ t \notin rolling =>
    \A k \in Key : leaf[k][t] \in {"absent", "nil"}

(* The contract of vacuumLeaf: if every version below its watermark is      *)
(* committed, the sweep changes no answer to a reader at or above the       *)
(* watermark, present or future.                                            *)
WatermarkHolds ==
  \A k \in Key, t \in TxID :
    Present(k, t) /\ t < vacuum.minActive => outcome[t] = "committed"

SweepKeepsReads ==
  \A k \in Key, reader \in vacuum.minActive .. MaxTxID :
    FindLatest(k, reader)' = FindLatest(k, reader)

VacuumContract == [][VacuumLeaf /\ WatermarkHolds => SweepKeepsReads]_vars

(* What repeats of a read: the GET of a running transaction answers the     *)
(* same after any step of anyone, unless the step is its own write of the   *)
(* key or the commit of an older transaction that wrote the key.  Abort,    *)
(* every moment of an undo, younger transactions, PruneTables and the sweep *)
(* change nothing.  The two exceptions are the code's: a version of an      *)
(* aborted transaction the table has forgotten passes for committed         *)
(* (GetStatus), and a sweep respects a reader at or above its watermark,    *)
(* which one that began after the watermark was taken need not be.          *)
Listed(k) ==
  \A u \in TxID : Present(k, u) /\ outcome[u] = "aborted" => txnTable[u] # "none"

OwnWrite(k, t) == leaf'[k][t] # leaf[k][t] /\ ~VacuumLeaf

OlderCommit(k, t) ==
  \E u \in TxID : u < t /\ Present(k, u) /\ outcome[u] = "running" /\ outcome'[u] = "committed"

ReadsRepeat ==
  [][\A t \in Running, k \in Key :
       (/\ outcome'[t] = "running"
        /\ Listed(k) /\ Listed(k)'
        /\ VacuumLeaf => WatermarkHolds /\ t >= vacuum.minActive)
       => \/ OwnWrite(k, t) \/ OlderCommit(k, t)
          \/ FindLatest(k, t)' = FindLatest(k, t)]_vars

-----------------------------------------------------------------------------
(* Liveness *)

(* Every Rollback call returns, and with the transaction marked ROLLEDBACK  *)
(* unless a record of it could not be read.                                 *)
RollbackCompletes ==
  \A t \in TxID : t \in rolling ~>
    t \notin rolling /\ (txnTable[t] # "rollingback" \/ t \in failed)

(* The transaction table does not grow for ever: a transaction whose Commit *)
(* or Rollback has returned leaves it unless an older one keeps running     *)
(* (PruneTables).                                                           *)
FinishedArePruned ==
  \A t \in TxID : txnTable[t] \notin {"none", "running"} /\ t \notin rolling ~>
                     txnTable[t] = "none" \/ \E u \in Running : u < t

-----------------------------------------------------------------------------
(* Refinement: the engine implements TxnStore between its sweeps. *)

Store == INSTANCE TxnStore WITH
  state <- outcome,
  last <- begun,
  version <- [k \in Key |-> [t \in TxID |->
               IF outcome[t] = "aborted" THEN "absent" ELSE leaf[k][t]]]

(* Every step of the engine but the vacuum's sweep is a step of the store   *)
(* or invisible: a rollback, which undoes record by record, fails half way  *)
(* or finds its records gone, appears as one atomic abort; a refused append *)
(* as a write; PruneTables not at all.  What a sweep may drop is the        *)
(* subject of VacuumContract.                                               *)
ImplementsStore == Store!Init /\ [][VacuumLeaf \/ Store!Next]_(Store!vars)

-----------------------------------------------------------------------------
(* What the documentation says *)

(* docs/anomalies.md: versions of rolled back transactions are ignored; a   *)
(* read settles on an own version or on one whose transaction committed.    *)
NoDirtyRead ==
  \A t \in Running, k \in Key :
    LET best == BestVersion(k, t)
    IN  best \in {0, t} \/ outcome[best] = "committed"

(* docs/anomalies.md: a transaction sees only versions committed before its *)
(* TxID, which guarantees repeatable reads; its GET of a key it does not    *)
(* write itself never changes.                                              *)
RepeatableRead ==
  [][\A t \in Running, k \in Key :
       outcome'[t] = "running" /\ ~OwnWrite(k, t)
         => FindLatest(k, t)' = FindLatest(k, t)]_vars
=============================================================================

