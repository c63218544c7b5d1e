----------------------------- MODULE MvccProofs ------------------------------
(***************************************************************************)
(* Proofs about Mvcc, for any set of keys and payloads and any number of   *)
(* transactions and operations.                                            *)
(***************************************************************************)
EXTENDS Mvcc, Extrema, TLAPS

USE DEF hist

-----------------------------------------------------------------------------
(* Type correctness *)

(* The watermark is an identifier, or the largest one if nothing runs.      *)
LEMMA MinActiveType ==
  ASSUME TypeOK
  PROVE  /\ GetMinActiveTxID \in 1 .. MaxTxID
         /\ \A t \in Running : GetMinActiveTxID <= t
<1>1. CASE Running = {}
  BY <1>1, BoundAssumption DEF GetMinActiveTxID, MaxTxID
<1>2. CASE Running # {}
  <2>1. Running \in SUBSET Nat  BY BoundAssumption DEF Running, TxID
  <2>2. \E t \in Running : \A u \in Running : t <= u
    BY <1>2, <2>1, LeastExists
  <2>3. /\ GetMinActiveTxID \in Running
        /\ \A u \in Running : GetMinActiveTxID <= u
    BY <1>2, <2>2 DEF GetMinActiveTxID
  <2>4. Running \subseteq 1 .. MaxTxn  BY DEF Running, TxID
  <2> QED  BY <2>3, <2>4, BoundAssumption DEF MaxTxID
<1> QED  BY <1>1, <1>2

(* What redoUpsertOnPage does with the inverse of a record: it touches the  *)
(* cell of that version only, and leaves nothing of it but a nil cell.      *)
LEMMA UndoneCell ==
  ASSUME TypeOK, NEW t \in TxID, NEW rec \in LogRecord, UndoRecord(t, rec)
  PROVE  /\ leaf' \in [Key -> [TxID -> Cell]]
         /\ late' \in [Key -> [TxID -> Nat]]
         /\ appended' \in Nat
         /\ leaf'[rec.key][t] \in {"absent", "nil"}
         /\ \A k \in Key, u \in TxID : k # rec.key \/ u # t =>
              leaf'[k][u] = leaf[k][u] /\ late'[k][u] = late[k][u]
<1> DEFINE k == rec.key
<1>1. k \in Key /\ rec.op \in {"insert", "delete"}  BY DEF LogRecord
<1>2. {"absent", "nil"} \subseteq Cell  BY DEF Cell
<1>3. CASE rec.op = "insert"
  <2>1. /\ leaf' = [leaf EXCEPT ![k][t] = "absent"]
        /\ late' = [late EXCEPT ![k][t] = 0]
        /\ appended' = appended
    BY <1>3 DEF UndoRecord
  <2> QED  BY <1>1, <1>2, <2>1 DEF TypeOK
<1>4. CASE rec.op # "insert"
  <2>1. /\ leaf' = [leaf EXCEPT ![k][t] = "nil"]
        /\ \/ late' = late /\ appended' = appended
           \/ late' = [late EXCEPT ![k][t] = appended + 1] /\ appended' = appended + 1
    BY <1>4, Zenon DEF UndoRecord
  <2>2. CASE late' = late /\ appended' = appended
    BY <1>1, <1>2, <2>1, <2>2 DEF TypeOK
  <2>3. CASE late' = [late EXCEPT ![k][t] = appended + 1] /\ appended' = appended + 1
    BY <1>1, <1>2, <2>1, <2>3 DEF TypeOK
  <2> QED  BY <2>1, <2>2, <2>3
<1> QED  BY <1>3, <1>4

(* A turn of Rollback's loop: the last record of the chain is undone and    *)
(* leaves it, and no other version is touched.                              *)
LEMMA UndoStepEffect ==
  ASSUME TypeOK, NEW t \in TxID, UndoStep(t)
  PROVE  \E rec \in LogRecord :
           /\ rec = chain[t][Len(chain[t])]
           /\ leaf' \in [Key -> [TxID -> Cell]]
           /\ late' \in [Key -> [TxID -> Nat]]
           /\ appended' \in Nat
           /\ leaf'[rec.key][t] \in {"absent", "nil"}
           /\ \A k \in Key, u \in TxID : k # rec.key \/ u # t =>
                leaf'[k][u] = leaf[k][u] /\ late'[k][u] = late[k][u]
<1>1. PICK rec : rec = chain[t][Len(chain[t])]  OBVIOUS
<1>2. rec \in LogRecord  BY <1>1 DEF TypeOK, UndoStep
<1>3. UndoRecord(t, rec)  BY <1>1 DEF UndoStep
<1>4. /\ leaf' \in [Key -> [TxID -> Cell]]
      /\ late' \in [Key -> [TxID -> Nat]]
      /\ appended' \in Nat
      /\ leaf'[rec.key][t] \in {"absent", "nil"}
      /\ \A k \in Key, u \in TxID : k # rec.key \/ u # t =>
           leaf'[k][u] = leaf[k][u] /\ late'[k][u] = late[k][u]
  BY <1>2, <1>3, UndoneCell
<1> QED  BY <1>1, <1>2, <1>4

(* Every step keeps the types. *)
LEMMA TypeStep ==
  ASSUME TypeOK, [Next]_vars
  PROVE  TypeOK'
<1> USE BoundAssumption DEF TypeOK, TxID
<1>1. CASE Begin
  BY <1>1 DEF Begin, Status
<1>2. ASSUME NEW t \in TxID, NEW k \in Key, NEW c \in Val \cup {"tombstone"},
             Upsert(t, k, c) \/ UpsertFails(t, k, c)
      PROVE  TypeOK'
  <2>0. WriteCell(t, k, c)  BY <1>2 DEF Upsert, UpsertFails
  <2>1. leaf' \in [Key -> [TxID -> Cell]]
    <3>1. c \in Cell  BY DEF Cell
    <3> QED  BY <2>0, <3>1 DEF WriteCell
  <2>2. [op |-> IF c = "tombstone" THEN "delete" ELSE "insert", key |-> k] \in LogRecord
    BY DEF LogRecord
  <2>3. chain' \in [TxID -> Seq(LogRecord)]
    <3>1. CASE Upsert(t, k, c)  BY <2>2, <3>1 DEF Upsert
    <3>2. CASE UpsertFails(t, k, c)  BY <3>2 DEF UpsertFails
    <3> QED  BY <1>2, <3>1, <3>2
  <2>4. late' \in [Key -> [TxID -> Nat]] /\ appended' \in Nat
    BY <2>0 DEF WriteCell
  <2> QED  BY <1>2, <2>1, <2>3, <2>4 DEF Upsert, UpsertFails, Fail
<1>3. ASSUME NEW t \in TxID, StartRollback(t) PROVE TypeOK'
  BY <1>3 DEF StartRollback, Status
<1>4. ASSUME NEW t \in TxID, Commit(t) PROVE TypeOK'
  <2>1. <<>> \in Seq(LogRecord)  OBVIOUS
  <2> QED  BY <1>4, <2>1 DEF Commit, Status
<1>5. ASSUME NEW t \in TxID, UndoStep(t) PROVE TypeOK'
  <2>1. chain[t] \in Seq(LogRecord) /\ chain[t] # <<>>  BY <1>5 DEF UndoStep
  <2>2. SubSeq(chain[t], 1, Len(chain[t]) - 1) \in Seq(LogRecord)  BY <2>1
  <2>3. chain' \in [TxID -> Seq(LogRecord)]  BY <1>5, <2>2 DEF UndoStep
  <2>4. /\ leaf' \in [Key -> [TxID -> Cell]]
        /\ late' \in [Key -> [TxID -> Nat]]
        /\ appended' \in Nat
    BY <1>5, UndoStepEffect
  <2> QED  BY <1>5, <2>3, <2>4 DEF UndoStep
<1>6. ASSUME NEW t \in TxID, FinishRollback(t) PROVE TypeOK'
  BY <1>6 DEF FinishRollback, Status
<1>7. CASE StartVacuum
  BY <1>7, MinActiveType DEF StartVacuum
<1>8. CASE VacuumLeaf
  BY <1>8 DEF VacuumLeaf, Cell
<1>9. CASE PruneTables
  <2>1. chain' \in [TxID -> Seq(LogRecord)]  BY <1>9 DEF PruneTables
  <2>2. forgotten' \in SUBSET TxID  BY <1>9 DEF PruneTables
  <2> QED  BY <1>9, <2>1, <2>2 DEF PruneTables, MaxTxID, Status
<1>10. ASSUME NEW t \in TxID, GetLastLSN(t) \/ CommitFails(t) PROVE TypeOK'
  BY <1>10 DEF GetLastLSN, CommitFails, Fail
<1>11. ASSUME NEW t \in TxID, UndoSkips(t) \/ RollbackFails(t) PROVE TypeOK'
  <2>1. chain[t] \in Seq(LogRecord) /\ chain[t] # <<>>
    BY <1>11 DEF UndoSkips, RollbackFails
  <2>2. /\ SubSeq(chain[t], 1, Len(chain[t]) - 1) \in Seq(LogRecord)
        /\ <<>> \in Seq(LogRecord)
    BY <2>1
  <2>3. chain' \in [TxID -> Seq(LogRecord)]
    BY <1>11, <2>2 DEF UndoSkips, RollbackFails
  <2>4. rolling' \in SUBSET TxID /\ marked' \in SUBSET rolling' /\ failed' \in SUBSET TxID
    BY <1>11 DEF UndoSkips, RollbackFails, Fail
  <2> QED  BY <1>11, <2>3, <2>4 DEF UndoSkips, RollbackFails
<1>12. CASE VacuumLeafFails
  BY <1>12 DEF VacuumLeafFails
<1>13. CASE UNCHANGED vars
  BY <1>13 DEF vars
<1> QED
  BY <1>1, <1>2, <1>3, <1>4, <1>5, <1>6, <1>7, <1>8, <1>9, <1>10, <1>11, <1>12, <1>13
  DEF Next, TxnNext, ClientStep, RollbackStep, UpsertConflict, Vacuum

(* The states start out well typed. *)
LEMMA TypeInit == Init => TypeOK
BY BoundAssumption DEF Init, TypeOK, TxID, MaxTxID, Cell, Status

(* Type correctness of the engine: the state variables of TransactionManager, *)
(* the leaf and the vacuum goroutine keep their types.                        *)
THEOREM TypeCorrect == Spec => []TypeOK
<1>1. TypeOK /\ [Next]_vars => TypeOK'  BY TypeStep
<1> QED  BY <1>1, TypeInit, PTL DEF Spec

-----------------------------------------------------------------------------
(* The inductive invariant *)

(* Identifiers above begun have left no trace. *)
Identifiers ==
  \A t \in TxID :
    /\ outcome[t] = "none" <=> t > begun
    /\ outcome[t] = "none" =>
         txnTable[t] = "none" /\ chain[t] = <<>> /\ \A k \in Key : ~Present(k, t)

(* The table agrees with what became of a transaction. *)
Table ==
  \A t \in TxID :
    /\ outcome[t] = "running" <=> txnTable[t] = "running"
    /\ outcome[t] = "committed" => txnTable[t] \in {"committed", "none"}
    /\ outcome[t] = "aborted" => txnTable[t] \in {"rollingback", "rolledback", "none"}
    /\ t \in rolling => outcome[t] = "aborted"

(* What is not undone yet is still on the chain, unless a failure or a      *)
(* prune took it away.                                                      *)
UndoPending ==
  \A t \in TxID :
    /\ outcome[t] = "aborted" /\ t \notin rolling => chain[t] = <<>>
    /\ outcome[t] \in {"running", "aborted"} /\ t \notin failed \cup forgotten =>
         \A k \in Key : leaf[k][t] \notin {"absent", "nil"} =>
           \E i \in 1 .. Len(chain[t]) : chain[t][i].key = k

(* Only undo appends a slot behind the sorted run. *)
LateAborted ==
  \A k \in Key, t \in TxID : late[k][t] # 0 => outcome[t] = "aborted"

IInv ==
  TypeOK /\ Identifiers /\ Table /\ FirstUpdaterWins /\ UndoPending /\ LateAborted

(* The transaction table and the life of a transaction change together. *)
LEMMA TableStep ==
  ASSUME TypeOK, Identifiers, Table, [Next]_vars
  PROVE  Table'
<1> USE BoundAssumption DEF TypeOK, TxID, Table, Identifiers
<1>1. CASE Begin
  <2>1. begun + 1 \in TxID /\ outcome[begun + 1] = "none"  BY <1>1 DEF Begin
  <2>2. ASSUME NEW u \in TxID, u # begun + 1
        PROVE  outcome'[u] = outcome[u] /\ txnTable'[u] = txnTable[u]
    BY <1>1, <2>2 DEF Begin
  <2>3. outcome'[begun + 1] = "running" /\ txnTable'[begun + 1] = "running"
    BY <1>1, <2>1 DEF Begin
  <2>4. rolling' = rolling  BY <1>1 DEF Begin
  <2> HIDE DEF TypeOK, Identifiers, TxID
  <2> QED  BY <2>1, <2>2, <2>3, <2>4
<1>2. ASSUME NEW t \in TxID, NEW k \in Key, NEW c \in Val \cup {"tombstone"},
             Upsert(t, k, c) \/ UpsertFails(t, k, c)
      PROVE  Table'
  BY <1>2 DEF Upsert, UpsertFails, WriteCell
<1>3. ASSUME NEW t \in TxID, StartRollback(t) PROVE Table'
  BY <1>3 DEF StartRollback, Running
<1>4. ASSUME NEW t \in TxID, Commit(t) PROVE Table'
  BY <1>4 DEF Commit, Running
<1>5. ASSUME NEW t \in TxID, UndoStep(t) PROVE Table'
  BY <1>5 DEF UndoStep
<1>6. ASSUME NEW t \in TxID, FinishRollback(t) PROVE Table'
  BY <1>6 DEF FinishRollback
<1>7. CASE StartVacuum \/ VacuumLeaf \/ VacuumLeafFails
  BY <1>7 DEF StartVacuum, VacuumLeaf, VacuumLeafFails
<1>8. CASE PruneTables
  BY <1>8 DEF PruneTables, Pruned
<1>10. ASSUME NEW t \in TxID,
              GetLastLSN(t) \/ CommitFails(t) \/ UndoSkips(t) \/ RollbackFails(t)
       PROVE  Table'
  BY <1>10 DEF GetLastLSN, CommitFails, UndoSkips, RollbackFails
<1>9. CASE UNCHANGED vars
  BY <1>9 DEF vars
<1> QED
  BY <1>1, <1>2, <1>3, <1>4, <1>5, <1>6, <1>7, <1>8, <1>9, <1>10
  DEF Next, TxnNext, ClientStep, RollbackStep, UpsertConflict, Vacuum

(* Transactions leave traces only after they began. *)
LEMMA IdentifiersStep ==
  ASSUME TypeOK, Identifiers, Table, [Next]_vars
  PROVE  Identifiers'
<1> USE BoundAssumption DEF TypeOK, TxID, Identifiers
<1>1. CASE Begin
  <2>1. begun + 1 \in TxID /\ begun' = begun + 1 /\ begun \in Nat  BY <1>1 DEF Begin
  <2>2. ASSUME NEW u \in TxID, u # begun + 1
        PROVE  outcome'[u] = outcome[u] /\ txnTable'[u] = txnTable[u]
    BY <1>1, <2>2 DEF Begin
  <2>3. outcome'[begun + 1] = "running"
    BY <1>1, <2>1 DEF Begin
  <2>4. leaf' = leaf /\ chain' = chain  BY <1>1 DEF Begin
  <2>5. ASSUME NEW u \in TxID
        PROVE  /\ outcome'[u] = "none" <=> u > begun'
               /\ outcome'[u] = "none" =>
                    /\ txnTable'[u] = "none" /\ chain'[u] = <<>>
                    /\ \A k \in Key : ~Present(k, u)'
    <3>1. CASE u = begun + 1  BY <2>1, <2>3, <3>1
    <3>2. CASE u # begun + 1  BY <2>1, <2>2, <2>4, <3>2 DEF Present
    <3> QED  BY <3>1, <3>2
  <2> HIDE DEF TypeOK
  <2> QED  BY <2>5
<1>2. ASSUME NEW t \in TxID, NEW k \in Key, NEW c \in Val \cup {"tombstone"},
             Upsert(t, k, c) \/ UpsertFails(t, k, c)
      PROVE  Identifiers'
  <2>1. outcome[t] = "running"  BY <1>2 DEF Upsert, UpsertFails, WriteCell, Running, Table
  <2>2. /\ outcome' = outcome /\ txnTable' = txnTable /\ begun' = begun
        /\ \A u \in TxID : u # t =>
             chain'[u] = chain[u] /\ \A j \in Key : leaf'[j][u] = leaf[j][u]
    <3>1. outcome' = outcome /\ txnTable' = txnTable /\ begun' = begun
      BY <1>2 DEF Upsert, UpsertFails
    <3>2. leaf' = [leaf EXCEPT ![k][t] = c]  BY <1>2 DEF Upsert, UpsertFails, WriteCell
    <3>3. \A u \in TxID : u # t => chain'[u] = chain[u]
      BY <1>2 DEF Upsert, UpsertFails
    <3> QED  BY <3>1, <3>2, <3>3
  <2> HIDE DEF TypeOK, TxID
  <2>3. ASSUME NEW u \in TxID
        PROVE  /\ outcome'[u] = "none" <=> u > begun'
               /\ outcome'[u] = "none" =>
                    /\ txnTable'[u] = "none" /\ chain'[u] = <<>>
                    /\ \A j \in Key : leaf'[j][u] = "absent"
    <3>1. CASE u = t  BY <2>1, <2>2, <3>1
    <3>2. CASE u # t
      <4>1. outcome[u] = "none" => \A j \in Key : leaf[j][u] = "absent"  BY DEF Present
      <4> QED  BY <2>2, <3>2, <4>1
    <3> QED  BY <3>1, <3>2
  <2> QED  BY <2>3 DEF Present
<1>3. ASSUME NEW t \in TxID, StartRollback(t) PROVE Identifiers'
  <2>1. outcome[t] = "running"  BY <1>3 DEF StartRollback, Running, Table
  <2> QED  BY <1>3, <2>1 DEF StartRollback, Present
<1>4. ASSUME NEW t \in TxID, Commit(t) PROVE Identifiers'
  <2>1. outcome[t] = "running"  BY <1>4 DEF Commit, Running, Table
  <2> QED  BY <1>4, <2>1 DEF Commit, Present
<1>5. ASSUME NEW t \in TxID, UndoStep(t) PROVE Identifiers'
  <2>1. outcome[t] = "aborted"  BY <1>5 DEF UndoStep, Table
  <2>2. \A k \in Key, u \in TxID : u # t => leaf'[k][u] = leaf[k][u]
    <3> HIDE DEF TypeOK, Identifiers, TxID
    <3> QED  BY <1>5, UndoStepEffect
  <2>3. /\ outcome' = outcome /\ txnTable' = txnTable /\ begun' = begun
        /\ \A u \in TxID : u # t => chain'[u] = chain[u]
    BY <1>5 DEF UndoStep
  <2>4. ASSUME NEW u \in TxID
        PROVE  /\ outcome'[u] = "none" <=> u > begun'
               /\ outcome'[u] = "none" =>
                    /\ txnTable'[u] = "none" /\ chain'[u] = <<>>
                    /\ \A k \in Key : leaf'[k][u] = "absent"
    <3>1. CASE u = t
      BY <2>1, <2>3, <3>1
    <3>2. CASE u # t
      <4>1. /\ outcome'[u] = outcome[u] /\ txnTable'[u] = txnTable[u]
            /\ chain'[u] = chain[u] /\ begun' = begun
            /\ \A k \in Key : leaf'[k][u] = leaf[k][u]
        BY <2>2, <2>3, <3>2, Zenon
      <4>2. /\ outcome[u] = "none" <=> u > begun
            /\ outcome[u] = "none" =>
                 /\ txnTable[u] = "none" /\ chain[u] = <<>>
                 /\ \A k \in Key : leaf[k][u] = "absent"
        BY Zenon DEF Present
      <4> QED  BY <4>1, <4>2, Zenon
    <3> QED  BY <3>1, <3>2
  <2> QED  BY <2>4 DEF Present
<1>6. ASSUME NEW t \in TxID, FinishRollback(t) PROVE Identifiers'
  <2>1. outcome[t] = "aborted"  BY <1>6 DEF FinishRollback, Table
  <2> QED  BY <1>6, <2>1 DEF FinishRollback, Present
<1>7. CASE StartVacuum \/ VacuumLeafFails
  BY <1>7 DEF StartVacuum, VacuumLeafFails, Present
<1>8. CASE VacuumLeaf
  BY <1>8 DEF VacuumLeaf, Present
<1>9. CASE PruneTables
  BY <1>9 DEF PruneTables, Present
<1>10. CASE UNCHANGED vars
  BY <1>10 DEF vars, Present
<1>11. ASSUME NEW t \in TxID, GetLastLSN(t) \/ CommitFails(t) PROVE Identifiers'
  BY <1>11 DEF GetLastLSN, CommitFails, Present
<1>12. ASSUME NEW t \in TxID, UndoSkips(t) \/ RollbackFails(t) PROVE Identifiers'
  <2>1. outcome[t] = "aborted"  BY <1>12 DEF UndoSkips, RollbackFails, Table
  <2>2. /\ outcome' = outcome /\ txnTable' = txnTable /\ begun' = begun /\ leaf' = leaf
        /\ \A u \in TxID : u # t => chain'[u] = chain[u]
    BY <1>12 DEF UndoSkips, RollbackFails
  <2> QED  BY <2>1, <2>2 DEF Present
<1> QED
  BY <1>1, <1>2, <1>3, <1>4, <1>5, <1>6, <1>7, <1>8, <1>9, <1>10, <1>11, <1>12
  DEF Next, TxnNext, ClientStep, RollbackStep, UpsertConflict, Vacuum

(* First updater wins, step by step: a write meets no other live version    *)
(* younger than its own, a commit was the only live writer.                 *)
LEMMA WinsStep ==
  ASSUME TypeOK, Identifiers, Table, FirstUpdaterWins, [Next]_vars
  PROVE  FirstUpdaterWins'
<1> USE DEF FirstUpdaterWins
<1>1. CASE Begin
  <2>1. begun + 1 \in TxID /\ \A k \in Key : ~Present(k, begun + 1)
    BY <1>1, BoundAssumption DEF Begin, Identifiers, TypeOK, TxID
  <2>2. \A u \in TxID : u # begun + 1 => outcome'[u] = outcome[u]
    BY <1>1 DEF Begin, TypeOK
  <2>3. leaf' = leaf  BY <1>1 DEF Begin
  <2> QED  BY <2>1, <2>2, <2>3 DEF Present
<1>2. ASSUME NEW t \in TxID, NEW k \in Key, NEW c \in Val \cup {"tombstone"},
             Upsert(t, k, c) \/ UpsertFails(t, k, c)
      PROVE  FirstUpdaterWins'
  <2>1. outcome' = outcome /\ outcome[t] = "running"
    BY <1>2 DEF Upsert, UpsertFails, WriteCell, Running, Table
  <2>2. \A j \in Key, u \in TxID : j # k \/ u # t => leaf'[j][u] = leaf[j][u]
    BY <1>2 DEF Upsert, UpsertFails, WriteCell, TypeOK
  <2>3. ASSUME NEW u \in TxID, u # t, Present(k, u)
        PROVE  /\ outcome[u] # "running"
               /\ outcome[u] = "committed" => u < t
    <3>1. ~(GetStatus(u) = "running") /\ ~(GetStatus(u) = "committed" /\ u > t)
      BY <1>2, <2>3 DEF Upsert, UpsertFails, WriteCell, Conflict
    <3>2. outcome[u] = "running" => GetStatus(u) = "running"
      BY DEF Table, GetStatus
    <3>3. outcome[u] = "committed" => GetStatus(u) = "committed"
      BY DEF Table, GetStatus
    <3> QED  BY <2>3, <3>1, <3>2, <3>3, BoundAssumption DEF TxID
  <2>4. ASSUME NEW j \in Key, NEW r \in TxID, NEW u \in TxID, r # u,
               leaf'[j][r] # "absent", outcome[r] = "running",
               leaf'[j][u] # "absent", outcome[u] \in {"running", "committed"}
        PROVE  outcome[u] = "committed" /\ u < r
    <3>1. CASE j = k /\ r = t
      BY <2>2, <2>3, <2>4, <3>1 DEF Present
    <3>2. CASE j = k /\ u = t
      BY <2>2, <2>3, <2>4, <3>2 DEF Present
    <3>3. CASE j # k \/ (r # t /\ u # t)
      BY <2>2, <2>4, <3>3 DEF Present
    <3> QED  BY <3>1, <3>2, <3>3
  <2> QED  BY <2>1, <2>4 DEF Present
<1>3. ASSUME NEW t \in TxID, StartRollback(t) PROVE FirstUpdaterWins'
  BY <1>3 DEF StartRollback, Present, TypeOK
<1>4. ASSUME NEW t \in TxID, Commit(t) PROVE FirstUpdaterWins'
  <2>1. outcome[t] = "running"  BY <1>4 DEF Commit, Running, Table
  <2> QED  BY <1>4, <2>1 DEF Commit, Present, TypeOK
<1>5. ASSUME NEW t \in TxID, UndoStep(t) PROVE FirstUpdaterWins'
  <2>1. outcome' = outcome /\ outcome[t] = "aborted"  BY <1>5 DEF UndoStep, Table
  <2>2. \A k \in Key, u \in TxID : u # t => leaf'[k][u] = leaf[k][u]
    BY <1>5, UndoStepEffect
  <2> QED  BY <2>1, <2>2 DEF Present
<1>6. ASSUME NEW t \in TxID, FinishRollback(t) PROVE FirstUpdaterWins'
  BY <1>6 DEF FinishRollback, Present
<1>7. CASE StartVacuum \/ VacuumLeafFails \/ PruneTables
  BY <1>7 DEF StartVacuum, VacuumLeafFails, PruneTables, Present
<1>10. ASSUME NEW t \in TxID,
              GetLastLSN(t) \/ CommitFails(t) \/ UndoSkips(t) \/ RollbackFails(t)
       PROVE  FirstUpdaterWins'
  BY <1>10 DEF GetLastLSN, CommitFails, UndoSkips, RollbackFails, Present
<1>8. CASE VacuumLeaf
  <2>1. \A k \in Key, u \in TxID : leaf'[k][u] \in {"absent", leaf[k][u]}
    BY <1>8 DEF VacuumLeaf
  <2>2. outcome' = outcome  BY <1>8 DEF VacuumLeaf
  <2> QED  BY <2>1, <2>2 DEF Present
<1>9. CASE UNCHANGED vars
  BY <1>9 DEF vars, Present
<1> QED
  BY <1>1, <1>2, <1>3, <1>4, <1>5, <1>6, <1>7, <1>8, <1>9, <1>10
  DEF Next, TxnNext, ClientStep, RollbackStep, UpsertConflict, Vacuum

(* Undo loses no record: a version that is not undone has one on the chain. *)
LEMMA PendingStep ==
  ASSUME TypeOK, Identifiers, Table, UndoPending, [Next]_vars
  PROVE  UndoPending'
<1> USE DEF UndoPending
<1>1. CASE Begin
  <2>1. begun + 1 \in TxID /\ \A k \in Key : leaf[k][begun + 1] = "absent"
    BY <1>1, BoundAssumption DEF Begin, Identifiers, TypeOK, TxID, Present
  <2>2. \A u \in TxID : u # begun + 1 => outcome'[u] = outcome[u]
    BY <1>1 DEF Begin, TypeOK
  <2>3. outcome'[begun + 1] = "running"  BY <1>1, <2>1 DEF Begin, TypeOK
  <2>4. /\ leaf' = leaf /\ chain' = chain /\ rolling' = rolling
        /\ failed' = failed /\ forgotten' = forgotten
    BY <1>1 DEF Begin
  <2> QED  BY <2>1, <2>2, <2>3, <2>4
<1>2. ASSUME NEW t \in TxID, NEW k \in Key, NEW c \in Val \cup {"tombstone"}, Upsert(t, k, c)
      PROVE  UndoPending'
  <2>1. /\ outcome' = outcome /\ rolling' = rolling /\ outcome[t] = "running"
        /\ failed' = failed /\ forgotten' = forgotten
    BY <1>2 DEF Upsert, WriteCell, Running, Table
  <2>2. \A j \in Key, u \in TxID : j # k \/ u # t => leaf'[j][u] = leaf[j][u]
    BY <1>2 DEF Upsert, WriteCell, TypeOK
  <2>3. \A u \in TxID : u # t => chain'[u] = chain[u]
    BY <1>2 DEF Upsert, WriteCell, TypeOK
  <2>4. PICK rec \in LogRecord : rec.key = k /\ chain'[t] = Append(chain[t], rec)
    <3>1. [op |-> IF c = "tombstone" THEN "delete" ELSE "insert", key |-> k] \in LogRecord
      BY DEF LogRecord
    <3> QED  BY <1>2, <3>1 DEF Upsert, WriteCell, TypeOK
  <2>5. chain[t] \in Seq(LogRecord)  BY DEF TypeOK
  <2>6. /\ Len(chain'[t]) = Len(chain[t]) + 1 /\ Len(chain[t]) \in Nat
        /\ \A i \in 1 .. Len(chain[t]) : chain'[t][i] = chain[t][i]
        /\ chain'[t][Len(chain[t]) + 1] = rec
    BY <2>4, <2>5
  <2>7. ASSUME NEW j \in Key, t \notin failed \cup forgotten, leaf'[j][t] \notin {"absent", "nil"}
        PROVE  \E i \in 1 .. Len(chain'[t]) : chain'[t][i].key = j
    <3>1. CASE j = k
      BY <2>4, <2>6, <3>1
    <3>2. CASE j # k
      <4>1. PICK i \in 1 .. Len(chain[t]) : chain[t][i].key = j
        BY <2>1, <2>2, <2>7, <3>2
      <4> QED  BY <2>6, <4>1
    <3> QED  BY <3>1, <3>2
  <2> QED  BY <2>1, <2>2, <2>3, <2>7
<1>3. ASSUME NEW t \in TxID, StartRollback(t) PROVE UndoPending'
  <2>1. outcome[t] = "running"  BY <1>3 DEF StartRollback, Running, Table
  <2>2. /\ leaf' = leaf /\ chain' = chain /\ rolling' = rolling \cup {t}
        /\ outcome'[t] = "aborted" /\ failed' = failed /\ forgotten' = forgotten
        /\ \A u \in TxID : u # t => outcome'[u] = outcome[u]
    BY <1>3 DEF StartRollback, TypeOK
  <2> QED  BY <2>1, <2>2
<1>4. ASSUME NEW t \in TxID, Commit(t) PROVE UndoPending'
  <2>1. /\ leaf' = leaf /\ rolling' = rolling /\ outcome'[t] = "committed"
        /\ failed' = failed /\ forgotten' = forgotten
        /\ \A u \in TxID : u # t => outcome'[u] = outcome[u] /\ chain'[u] = chain[u]
    BY <1>4 DEF Commit, TypeOK
  <2> QED  BY <2>1
<1>5. ASSUME NEW t \in TxID, UndoStep(t) PROVE UndoPending'
  <2>1. /\ outcome' = outcome /\ rolling' = rolling /\ t \in rolling
        /\ failed' = failed /\ forgotten' = forgotten
    BY <1>5 DEF UndoStep
  <2>2. PICK rec \in LogRecord :
          /\ rec = chain[t][Len(chain[t])]
          /\ leaf'[rec.key][t] \in {"absent", "nil"}
          /\ \A k \in Key, u \in TxID : k # rec.key \/ u # t => leaf'[k][u] = leaf[k][u]
    BY <1>5, UndoStepEffect
  <2>3. /\ chain[t] \in Seq(LogRecord) /\ chain[t] # <<>>
        /\ chain'[t] = SubSeq(chain[t], 1, Len(chain[t]) - 1)
        /\ \A u \in TxID : u # t => chain'[u] = chain[u]
    BY <1>5 DEF UndoStep, TypeOK
  <2>4. /\ Len(chain'[t]) = Len(chain[t]) - 1 /\ Len(chain[t]) \in Nat
        /\ \A i \in 1 .. Len(chain[t]) - 1 : chain'[t][i] = chain[t][i]
    BY <2>3
  <2>5. ASSUME NEW k \in Key, t \notin failed \cup forgotten, leaf'[k][t] \notin {"absent", "nil"}
        PROVE  \E i \in 1 .. Len(chain'[t]) : chain'[t][i].key = k
    <3>1. k # rec.key /\ leaf[k][t] \notin {"absent", "nil"}  BY <2>2, <2>5
    <3>2. outcome[t] = "aborted"  BY <2>1 DEF Table
    <3>3. PICK i \in 1 .. Len(chain[t]) : chain[t][i].key = k  BY <2>5, <3>1, <3>2
    <3>4. i # Len(chain[t])  BY <2>2, <3>1, <3>3
    <3> QED  BY <2>4, <3>3, <3>4
  <2>6. ASSUME NEW u \in TxID, u # t
        PROVE  /\ chain'[u] = chain[u] /\ outcome'[u] = outcome[u]
               /\ \A k \in Key : leaf'[k][u] = leaf[k][u]
    BY <2>1, <2>2, <2>3, <2>6
  <2> QED  BY <2>1, <2>5, <2>6
<1>6. ASSUME NEW t \in TxID, FinishRollback(t) PROVE UndoPending'
  BY <1>6 DEF FinishRollback
<1>7. CASE StartVacuum \/ VacuumLeafFails
  BY <1>7 DEF StartVacuum, VacuumLeafFails
<1>10. CASE PruneTables
  <2>1. leaf' = leaf /\ outcome' = outcome /\ rolling' = rolling /\ failed' = failed
    BY <1>10 DEF PruneTables
  <2>2. ASSUME NEW t \in TxID
        PROVE  chain'[t] = chain[t] \/ (chain'[t] = <<>> /\ t \in forgotten')
    BY <1>10, <2>2 DEF PruneTables
  <2>3. forgotten \subseteq forgotten'  BY <1>10 DEF PruneTables
  <2> QED  BY <2>1, <2>2, <2>3
<1>11. ASSUME NEW t \in TxID, GetLastLSN(t) \/ CommitFails(t) PROVE UndoPending'
  BY <1>11 DEF GetLastLSN, CommitFails, Fail
<1>12. ASSUME NEW t \in TxID, NEW k \in Key, NEW c \in Val \cup {"tombstone"},
              UpsertFails(t, k, c)
       PROVE  UndoPending'
  <2>1. /\ outcome' = outcome /\ rolling' = rolling /\ chain' = chain
        /\ failed' = failed \cup {t} /\ forgotten' = forgotten
        /\ \A j \in Key, u \in TxID : u # t => leaf'[j][u] = leaf[j][u]
    BY <1>12 DEF UpsertFails, WriteCell, Fail, TypeOK
  <2> QED  BY <2>1
<1>13. ASSUME NEW t \in TxID, UndoSkips(t) \/ RollbackFails(t) PROVE UndoPending'
  <2>1. /\ leaf' = leaf /\ outcome' = outcome /\ forgotten' = forgotten
        /\ failed' = failed \cup {t} /\ t \in rolling
        /\ \A u \in TxID : u # t => chain'[u] = chain[u]
        /\ rolling' = rolling \/ (rolling' = rolling \ {t} /\ chain'[t] = <<>>)
    BY <1>13 DEF UndoSkips, RollbackFails, Fail, TypeOK
  <2> QED  BY <2>1
<1>8. CASE VacuumLeaf
  <2>1. \A k \in Key, u \in TxID : leaf'[k][u] \in {"absent", leaf[k][u]}
    BY <1>8 DEF VacuumLeaf
  <2>2. /\ outcome' = outcome /\ chain' = chain /\ rolling' = rolling
        /\ failed' = failed /\ forgotten' = forgotten
    BY <1>8 DEF VacuumLeaf
  <2> QED  BY <2>1, <2>2
<1>9. CASE UNCHANGED vars
  BY <1>9 DEF vars
<1> QED
  BY <1>1, <1>2, <1>3, <1>4, <1>5, <1>6, <1>7, <1>8, <1>9, <1>10, <1>11, <1>12, <1>13
  DEF Next, TxnNext, ClientStep, RollbackStep, UpsertConflict, Vacuum

(* A slot behind the sorted run belongs to a transaction being rolled back, *)
(* or to what it left; upsertCell sorts all of them in again.               *)
LEMMA LateStep ==
  ASSUME TypeOK, Identifiers, Table, LateAborted, [Next]_vars
  PROVE  LateAborted'
<1> USE DEF LateAborted
<1>1. CASE Begin
  <2>1. begun + 1 \in TxID /\ outcome[begun + 1] = "none"
    BY <1>1, BoundAssumption DEF Begin, Identifiers, TypeOK, TxID
  <2>2. late' = late /\ \A u \in TxID : u # begun + 1 => outcome'[u] = outcome[u]
    BY <1>1 DEF Begin, TypeOK
  <2> QED  BY <2>1, <2>2
<1>2. ASSUME NEW t \in TxID, NEW k \in Key, NEW c \in Val \cup {"tombstone"},
             Upsert(t, k, c) \/ UpsertFails(t, k, c)
      PROVE  LateAborted'
  BY <1>2 DEF Upsert, UpsertFails, WriteCell
<1>3. ASSUME NEW t \in TxID, StartRollback(t) PROVE LateAborted'
  BY <1>3 DEF StartRollback, TypeOK
<1>4. ASSUME NEW t \in TxID, Commit(t) PROVE LateAborted'
  <2>1. outcome[t] = "running"  BY <1>4 DEF Commit, Running, Table
  <2>2. late' = late /\ \A u \in TxID : u # t => outcome'[u] = outcome[u]
    BY <1>4 DEF Commit, TypeOK
  <2> QED  BY <2>1, <2>2
<1>5. ASSUME NEW t \in TxID, UndoStep(t) PROVE LateAborted'
  <2>1. outcome' = outcome /\ outcome[t] = "aborted"  BY <1>5 DEF UndoStep, Table
  <2>2. \A k \in Key, u \in TxID : u # t => late'[k][u] = late[k][u]
    BY <1>5, UndoStepEffect
  <2> QED  BY <2>1, <2>2
<1>6. ASSUME NEW t \in TxID, FinishRollback(t) PROVE LateAborted'
  BY <1>6 DEF FinishRollback
<1>7. CASE StartVacuum \/ VacuumLeafFails \/ PruneTables
  BY <1>7 DEF StartVacuum, VacuumLeafFails, PruneTables
<1>10. ASSUME NEW t \in TxID,
              GetLastLSN(t) \/ CommitFails(t) \/ UndoSkips(t) \/ RollbackFails(t)
       PROVE  LateAborted'
  BY <1>10 DEF GetLastLSN, CommitFails, UndoSkips, RollbackFails
<1>8. CASE VacuumLeaf
  <2>1. \A k \in Key, u \in TxID : late'[k][u] \in {0, late[k][u]}
    BY <1>8 DEF VacuumLeaf
  <2>2. outcome' = outcome  BY <1>8 DEF VacuumLeaf
  <2> QED  BY <2>1, <2>2
<1>9. CASE UNCHANGED vars
  BY <1>9 DEF vars
<1> QED
  BY <1>1, <1>2, <1>3, <1>4, <1>5, <1>6, <1>7, <1>8, <1>9, <1>10
  DEF Next, TxnNext, ClientStep, RollbackStep, UpsertConflict, Vacuum

(* The invariant holds of the empty database and is kept by every step. *)
LEMMA IInvInit == Init => IInv
<1> SUFFICES ASSUME Init PROVE IInv  OBVIOUS
<1>1. TypeOK  BY TypeInit
<1>2. Identifiers
  BY BoundAssumption DEF Init, Identifiers, Present, TxID
<1>3. Table /\ FirstUpdaterWins /\ UndoPending /\ LateAborted
  BY DEF Init, Table, FirstUpdaterWins, UndoPending, LateAborted
<1> QED  BY <1>1, <1>2, <1>3 DEF IInv

(* Every step of transactions, rollback and vacuum preserves the invariant. *)
LEMMA IInvStep ==
  ASSUME IInv, [Next]_vars
  PROVE  IInv'
BY TypeStep, IdentifiersStep, TableStep, WinsStep, PendingStep, LateStep DEF IInv

(* The inductive invariant holds in every reachable state of the engine. *)
LEMMA Invariance == Spec => []IInv
<1>1. IInv /\ [Next]_vars => IInv'  BY IInvStep
<1> QED  BY <1>1, IInvInit, PTL DEF Spec

-----------------------------------------------------------------------------
(* Safety *)

(* First updater wins: with any number of transactions and keys the live    *)
(* version a running transaction holds is the youngest of its key, and      *)
(* upsertCell never lets two running transactions hold one key.             *)
THEOREM FirstUpdaterWinsHolds == Spec => []FirstUpdaterWins
<1>1. IInv => FirstUpdaterWins  BY DEF IInv
<1> QED  BY <1>1, Invariance, PTL

(* GetStatus tells the truth about running and committed transactions,      *)
(* whatever PruneTables has deleted.                                        *)
THEOREM StatusAgreesHolds == Spec => []StatusAgrees
<1>1. IInv => StatusAgrees
  BY DEF IInv, Table, StatusAgrees, GetStatus
<1> QED  BY <1>1, Invariance, PTL

(* Rollback leaves nothing of a transaction but nil cells, however its undo *)
(* steps interleave with other writers and the vacuum, if no I/O failed on  *)
(* its behalf and no prune took its chain away before Rollback had read it. *)
THEOREM RolledBackDataErasedHolds == Spec => []RolledBackDataErased
<1>1. IInv => RolledBackDataErased
  <2> SUFFICES ASSUME IInv, NEW t \in TxID, outcome[t] = "aborted", t \notin rolling,
                      t \notin failed \cup forgotten, NEW k \in Key
               PROVE  leaf[k][t] \in {"absent", "nil"}
    BY DEF RolledBackDataErased
  <2>1. chain[t] = <<>>  BY DEF IInv, UndoPending
  <2>2. ~ \E i \in 1 .. Len(chain[t]) : chain[t][i].key = k  BY <2>1
  <2> QED  BY <2>2 DEF IInv, UndoPending
<1> QED  BY <1>1, Invariance, PTL

-----------------------------------------------------------------------------
(* Vacuum *)

(* The version FindLatest settles on is the greatest visible one. *)
LEMMA BestIsGreatest ==
  ASSUME NEW k, NEW reader, NEW best \in TxID,
         IsVersionVisible(k, best, reader),
         \A t \in TxID : IsVersionVisible(k, t, reader) => t <= best
  PROVE  BestVersion(k, reader) = best
<1> DEFINE visible == {t \in TxID : IsVersionVisible(k, t, reader)}
<1>1. best \in visible /\ \A u \in visible : u <= best  OBVIOUS
<1>2. BestVersion(k, reader) = CHOOSE t \in visible : \A u \in visible : u <= t
  BY <1>1 DEF BestVersion
<1>3. /\ BestVersion(k, reader) \in visible
      /\ \A u \in visible : u <= BestVersion(k, reader)
  BY <1>1, <1>2
<1> QED  BY <1>1, <1>3, BoundAssumption DEF TxID

(* If a version is visible there is a greatest one. *)
LEMMA GreatestVisible ==
  ASSUME NEW k, NEW reader, NEW t \in TxID, IsVersionVisible(k, t, reader)
  PROVE  \E best \in TxID :
           /\ IsVersionVisible(k, best, reader)
           /\ \A u \in TxID : IsVersionVisible(k, u, reader) => u <= best
<1> DEFINE visible == {u \in TxID : IsVersionVisible(k, u, reader)}
<1>1. visible \in SUBSET (0 .. MaxTxn) /\ visible # {} /\ MaxTxn \in Nat
  BY BoundAssumption DEF TxID
<1>2. \E x \in visible : \A y \in visible : y <= x
  BY <1>1, GreatestExists
<1> QED  BY <1>2

(* Below the watermark the slots are in key order, so that a version        *)
(* overridden by one below the watermark is followed by such a one.         *)
LEMMA OverriddenIsDropped ==
  ASSUME IInv, WatermarkHolds, NEW k \in Key, NEW t \in TxID, NEW b \in TxID,
         Present(k, t), Present(k, b), t < b, b < vacuum.minActive
  PROVE  Dropped(k, t, vacuum.minActive)
<1> DEFINE S == {u \in TxID : Present(k, u) /\ late[k][u] = 0 /\ u > t}
<1>1. TxID \subseteq Nat /\ vacuum.minActive \in Nat /\ Key \subseteq Nat
  BY BoundAssumption, KeyAssumption DEF TxID, IInv, TypeOK, MaxTxID
<1>2. outcome[t] = "committed" /\ outcome[b] = "committed"
  BY <1>1 DEF WatermarkHolds
<1>3. late[k][t] = 0 /\ late[k][b] = 0
  BY <1>2 DEF IInv, LateAborted
<1>4. b \in S  BY <1>1, <1>3
<1>5. PICK u \in S : \A w \in S : u <= w
  BY <1>1, <1>4, LeastExists
<1>6. u < vacuum.minActive  BY <1>1, <1>4, <1>5
<1>7. NextVersion(k, t, u)
  <2>1. Before(k, t, k, u)  BY <1>3, <1>5 DEF Before
  <2>2. ASSUME NEW j \in Key, NEW w \in TxID, Present(j, w),
               Before(k, t, j, w), Before(j, w, k, u)
        PROVE  FALSE
    <3>1. late[j][w] \in Nat  BY DEF IInv, TypeOK
    <3>2. late[j][w] = 0  BY <1>3, <1>5, <2>2, <3>1 DEF Before
    <3>3. j = k /\ t < w /\ w < u  BY <1>1, <1>3, <1>5, <2>2, <3>2 DEF Before
    <3>4. w \in S  BY <1>1, <2>2, <3>2, <3>3
    <3> QED  BY <1>1, <1>5, <3>3, <3>4
  <2> QED  BY <1>5, <2>1, <2>2 DEF NextVersion
<1> QED  BY <1>5, <1>6, <1>7 DEF Dropped

(* The neighbour that condemns a version is committed, visible to every     *)
(* reader at or above the watermark, and younger.                           *)
LEMMA NeighbourIsBetter ==
  ASSUME IInv, WatermarkHolds, NEW k \in Key, NEW t \in TxID, NEW u \in TxID,
         NEW reader \in vacuum.minActive .. MaxTxID,
         NextVersion(k, t, u), u < vacuum.minActive
  PROVE  t < u /\ IsVersionVisible(k, u, reader)
<1>1. TxID \subseteq Nat /\ vacuum.minActive \in Nat /\ Key \subseteq Nat /\ MaxTxID \in Nat
  BY BoundAssumption, KeyAssumption DEF TxID, IInv, TypeOK, MaxTxID
<1>2. Present(k, u) /\ outcome[u] = "committed"
  BY DEF NextVersion, WatermarkHolds
<1>3. late[k][u] = 0 /\ late[k][t] \in Nat
  BY <1>2 DEF IInv, LateAborted, TypeOK
<1>4. t < u  BY <1>1, <1>3 DEF NextVersion, Before
<1>5. GetStatus(u) = "committed"  BY <1>2 DEF IInv, Table, GetStatus
<1>6. u <= reader  BY <1>1
<1> QED  BY <1>2, <1>4, <1>5, <1>6 DEF IsVersionVisible

(* vacuumLeaf under a watermark that holds changes no answer of FindLatest. *)
LEMMA SweepReads ==
  ASSUME IInv, VacuumLeaf, WatermarkHolds, NEW k \in Key,
         NEW reader \in vacuum.minActive .. MaxTxID
  PROVE  FindLatest(k, reader)' = FindLatest(k, reader)
<1> DEFINE m == vacuum.minActive
           visible == {t \in TxID : IsVersionVisible(k, t, reader)}
           remain == {t \in TxID : IsVersionVisible(k, t, reader)'}
<1>1. TxID \subseteq Nat /\ m \in Nat
  BY BoundAssumption DEF TxID, IInv, TypeOK, MaxTxID
<1>2. /\ \A t \in TxID : leaf'[k][t] = IF Dropped(k, t, m) THEN "absent" ELSE leaf[k][t]
      /\ txnTable' = txnTable
  BY DEF VacuumLeaf
<1>3. ASSUME NEW t \in TxID PROVE t \in remain <=> t \in visible /\ ~Dropped(k, t, m)
  <2>1. Present(k, t)' <=> Present(k, t) /\ ~Dropped(k, t, m)  BY <1>2 DEF Present
  <2>2. GetStatus(t)' = GetStatus(t)  BY <1>2 DEF GetStatus
  <2> QED  BY <2>1, <2>2 DEF IsVersionVisible
<1>4. BestVersion(k, reader)' =
        IF remain = {} THEN 0 ELSE CHOOSE t \in remain : \A u \in remain : u <= t
  BY DEF BestVersion
<1>5. CASE visible = {}
  <2>1. remain = {}  BY <1>3, <1>5
  <2> QED  BY <1>4, <1>5, <2>1 DEF FindLatest, BestVersion
<1>6. CASE visible # {}
  <2>1. PICK b \in TxID : /\ IsVersionVisible(k, b, reader)
                          /\ \A u \in TxID : IsVersionVisible(k, u, reader) => u <= b
    BY <1>6, GreatestVisible
  <2>2. BestVersion(k, reader) = b  BY <2>1, BestIsGreatest
  <2>3. b # 0 /\ b \in visible /\ \A u \in visible : u <= b
    BY <2>1, BoundAssumption DEF TxID
  <2>4. CASE ~Dropped(k, b, m)
    <3>1. b \in remain /\ \A u \in remain : u <= b  BY <1>3, <2>3, <2>4
    <3>2. /\ BestVersion(k, reader)' \in remain
          /\ \A u \in remain : u <= BestVersion(k, reader)'
      BY <1>4, <3>1
    <3>3. \A x \in remain : (\A u \in remain : u <= x) => x = b
      <4>1. \A x \in Nat : x <= b /\ b <= x => x = b  BY <1>1
      <4> QED  BY <1>1, <3>1, <4>1
    <3>4. BestVersion(k, reader)' = b  BY <3>2, <3>3, Zenon
    <3>5. leaf'[k][b] = leaf[k][b]  BY <1>2, <2>4
    <3> QED  BY <2>2, <3>4, <3>5 DEF FindLatest
  <2>5. CASE Dropped(k, b, m)
    <3>1. leaf[k][b] = "tombstone" /\ b < m
      <4>1. ASSUME NEW u \in TxID, NextVersion(k, b, u), u < m PROVE FALSE
        <5>1. b < u /\ IsVersionVisible(k, u, reader)  BY <4>1, NeighbourIsBetter
        <5> QED  BY <1>1, <2>1, <5>1
      <4> QED  BY <2>5, <4>1 DEF Dropped
    <3>2. ASSUME NEW t \in remain PROVE FALSE
      <4>1. t \in visible /\ ~Dropped(k, t, m)  BY <1>3
      <4>2. t # b /\ t <= b  BY <2>3, <2>5, <4>1
      <4>3. Present(k, t) /\ Present(k, b) /\ t < b
        BY <1>1, <2>1, <4>1, <4>2 DEF IsVersionVisible
      <4> QED  BY <3>1, <4>1, <4>3, OverriddenIsDropped
    <3>3. remain = {}  BY <3>2
    <3>4. FindLatest(k, reader)' = "absent"  BY <1>4, <3>3 DEF FindLatest
    <3> QED  BY <2>2, <3>1, <3>4 DEF FindLatest
  <2> QED  BY <2>4, <2>5
<1> QED  BY <1>5, <1>6

(* The contract of vacuumLeaf for every leaf: if only committed versions    *)
(* lie below the watermark, the sweep is invisible to all readers at or     *)
(* above it.                                                                *)
THEOREM VacuumContractHolds == Spec => VacuumContract
<1>1. IInv => [VacuumLeaf /\ WatermarkHolds => SweepKeepsReads]_vars
  BY SweepReads DEF SweepKeepsReads
<1> QED  BY <1>1, Invariance, PTL DEF VacuumContract
=============================================================================
