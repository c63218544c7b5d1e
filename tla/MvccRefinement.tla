--------------------------- MODULE MvccRefinement ----------------------------
(***************************************************************************)
(* Proofs that the engine implements TxnStore between its sweeps, and of   *)
(* what can change the answer to a read.                                   *)
(***************************************************************************)
EXTENDS MvccProofs

USE DEF hist

(* The refinement mapping for version, by name. *)
Visible ==
  [k \in Key |-> [t \in TxID |-> IF outcome[t] = "aborted" THEN "absent" ELSE leaf[k][t]]]

(* A write of the engine is a write of the store, logged or not. *)
LEMMA UpsertRefines ==
  ASSUME IInv, NEW t \in TxID, NEW k \in Key, NEW c \in Val \cup {"tombstone"},
         Upsert(t, k, c) \/ UpsertFails(t, k, c)
  PROVE  Store!Write(t, k, c)
<1>0. WriteCell(t, k, c)  BY DEF Upsert, UpsertFails
<1>1. outcome[t] = "running" /\ outcome' = outcome /\ begun' = begun
  BY <1>0 DEF Upsert, UpsertFails, WriteCell, Running, IInv, Table
<1>2. ~Store!Locked(k, t)
  <2> SUFFICES ASSUME NEW u \in TxID \ {t}, Visible[k][u] # "absent",
                      outcome[u] = "running" \/ (outcome[u] = "committed" /\ u > t)
               PROVE  FALSE
    BY DEF Store!Locked, Visible, TxID, Store!TxID
  <2>1. Present(k, u)  BY DEF Visible, Present
  <2>2. GetStatus(u) = outcome[u]  BY DEF IInv, Table, GetStatus
  <2> QED  BY <1>0, <2>1, <2>2 DEF WriteCell, Conflict
<1>3. Visible' = [Visible EXCEPT ![k][t] = c]
  BY <1>0, <1>1 DEF Visible, WriteCell, IInv, TypeOK
<1> QED  BY <1>1, <1>2, <1>3 DEF Store!Write, Visible

(* Every step but a sweep is a step of the store or invisible to it:        *)
(* Rollback's first statement is the abort, what follows changes nothing.   *)
LEMMA StepRefines ==
  ASSUME IInv, [Next]_vars, ~VacuumLeaf
  PROVE  [Store!Next]_Store!vars
<1>0. TypeOK /\ Table /\ Identifiers  BY DEF IInv
<1>1. CASE Begin
  <2>1. begun + 1 \in TxID  BY <1>0, <1>1, BoundAssumption DEF Begin, TypeOK, TxID
  <2>2. /\ \A u \in TxID : u # begun + 1 => outcome'[u] = outcome[u]
        /\ outcome[begun + 1] = "none" /\ outcome'[begun + 1] = "running" /\ leaf' = leaf
    BY <1>0, <1>1, <2>1, BoundAssumption DEF Begin, TypeOK, TxID, Identifiers
  <2>3. Visible' = Visible  BY <2>1, <2>2 DEF Visible
  <2> QED  BY <1>1, <2>3 DEF Begin, Store!Next, Store!Begin, Visible
<1>2. ASSUME NEW t \in TxID, NEW k \in Key, NEW c \in Val \cup {"tombstone"},
             Upsert(t, k, c) \/ UpsertFails(t, k, c)
      PROVE  Store!Next
  BY <1>2, UpsertRefines DEF Store!Next, Store!TxID, TxID
<1>3. ASSUME NEW t \in TxID, StartRollback(t) PROVE Store!Next
  <2>1. outcome[t] = "running"  BY <1>0, <1>3 DEF StartRollback, Running, Table
  <2>2. Visible' = [k \in Key |-> [Visible[k] EXCEPT ![t] = "absent"]]
    BY <1>0, <1>3 DEF StartRollback, Visible, TypeOK
  <2>3. Store!Abort(t)  BY <1>3, <2>1, <2>2 DEF StartRollback, Store!Abort, Visible
  <2> QED  BY <2>3 DEF Store!Next, Store!TxID, TxID
<1>4. ASSUME NEW t \in TxID, Commit(t) PROVE Store!Next
  <2>1. outcome[t] = "running"  BY <1>0, <1>4 DEF Commit, Running, Table
  <2>2. Visible' = Visible
    BY <1>0, <1>4, <2>1 DEF Commit, Visible, TypeOK
  <2>3. Store!Commit(t)  BY <1>4, <2>1, <2>2 DEF Commit, Store!Commit, Visible
  <2> QED  BY <2>3 DEF Store!Next, Store!TxID, TxID
<1>5. ASSUME NEW t \in TxID, UndoStep(t) PROVE UNCHANGED Store!vars
  <2>1. outcome' = outcome /\ begun' = begun /\ outcome[t] = "aborted"
    BY <1>0, <1>5 DEF UndoStep, Table
  <2>2. \A k \in Key, u \in TxID : u # t => leaf'[k][u] = leaf[k][u]
    BY <1>0, <1>5, UndoStepEffect
  <2>3. Visible' = Visible  BY <2>1, <2>2 DEF Visible
  <2> QED  BY <2>1, <2>3 DEF Store!vars, Visible
<1>6. ASSUME NEW t \in TxID, FinishRollback(t) PROVE UNCHANGED Store!vars
  BY <1>6 DEF FinishRollback, Store!vars
<1>7. ASSUME NEW t \in TxID,
             GetLastLSN(t) \/ CommitFails(t) \/ UndoSkips(t) \/ RollbackFails(t)
      PROVE  UNCHANGED Store!vars
  BY <1>7 DEF GetLastLSN, CommitFails, UndoSkips, RollbackFails, Store!vars
<1>8. CASE StartVacuum \/ VacuumLeafFails \/ PruneTables
  BY <1>8 DEF StartVacuum, VacuumLeafFails, PruneTables, Store!vars
<1>9. CASE UNCHANGED vars
  BY <1>9 DEF vars, Store!vars
<1> QED
  BY <1>1, <1>2, <1>3, <1>4, <1>5, <1>6, <1>7, <1>8, <1>9
  DEF Next, TxnNext, ClientStep, RollbackStep, UpsertConflict, Vacuum

(* The engine starts as an empty store. *)
LEMMA InitRefines == Init => Store!Init
BY DEF Init, Store!Init, Store!TxID, TxID

(* Every step of the engine but the vacuum's sweep implements the store of  *)
(* versions with atomic aborts, for any number of keys, payloads and        *)
(* transactions, with failures and prunes at any moment.                    *)
THEOREM ImplementsStoreHolds == Spec => ImplementsStore
<1>1. IInv /\ [Next]_vars => [VacuumLeaf \/ Store!Next]_(Store!vars)
  BY StepRefines
<1> QED  BY <1>1, InitRefines, Invariance, PTL DEF Spec, ImplementsStore

(* An engine whose vacuum never gets to rewrite the leaf is the store, even *)
(* though its passes prune the tables.                                      *)
THEOREM StoreImplemented == Spec /\ [][~VacuumLeaf]_vars => Store!Spec
<1>1. IInv /\ [Next]_vars /\ [~VacuumLeaf]_vars => [Store!Next]_(Store!vars)
  <2> SUFFICES ASSUME IInv, [Next]_vars, [~VacuumLeaf]_vars PROVE [Store!Next]_(Store!vars)
    OBVIOUS
  <2>1. CASE ~VacuumLeaf  BY <2>1, StepRefines
  <2>2. CASE UNCHANGED vars  BY <2>2 DEF vars, Store!vars
  <2> QED  BY <2>1, <2>2
<1> QED  BY <1>1, InitRefines, Invariance, PTL DEF Spec, Store!Spec

-----------------------------------------------------------------------------
(* While no version of the key belongs to a forgotten abort, a version is   *)
(* visible to others exactly if its transaction committed.                  *)
CommittedVisible ==
  \A k \in Key, t, u \in TxID : Listed(k) =>
    (IsVersionVisible(k, u, t) <=>
       Present(k, u) /\ u <= t /\ (u = t \/ outcome[u] = "committed"))

(* GetStatus tells the listed transactions apart. *)
LEMMA VisibleIsCommitted == IInv => CommittedVisible
<1> SUFFICES ASSUME IInv, NEW k \in Key, NEW t \in TxID, NEW u \in TxID, Listed(k)
             PROVE  IsVersionVisible(k, u, t) <=>
                      Present(k, u) /\ u <= t /\ (u = t \/ outcome[u] = "committed")
  BY DEF CommittedVisible
<1>1. outcome[u] \in {"none", "running", "committed", "aborted"}  BY DEF IInv, TypeOK
<1>2. Present(k, u) => outcome[u] # "none"  BY DEF IInv, Identifiers
<1>3. Present(k, u) => (GetStatus(u) = "committed" <=> outcome[u] = "committed")
  BY <1>1, <1>2 DEF IInv, Table, Listed, GetStatus
<1> QED  BY <1>3 DEF IsVersionVisible

(* Outside a sweep nobody touches a committed version, and only a running   *)
(* transaction commits, with its versions as they are.                      *)
LEMMA CommittedStays ==
  ASSUME IInv, [Next]_vars, ~VacuumLeaf, NEW u \in TxID
  PROVE  /\ outcome[u] = "committed" =>
              outcome'[u] = "committed" /\ \A k \in Key : leaf'[k][u] = leaf[k][u]
         /\ outcome[u] # "committed" /\ outcome'[u] = "committed" =>
              outcome[u] = "running" /\ \A k \in Key : leaf'[k][u] = leaf[k][u]
<1>0. TypeOK /\ Table /\ Identifiers  BY DEF IInv
<1>1. CASE Begin
  <2>1. begun + 1 \in TxID /\ outcome[begun + 1] = "none"
    BY <1>0, <1>1, BoundAssumption DEF Begin, TypeOK, TxID, Identifiers
  <2>2. leaf' = leaf /\ outcome' = [outcome EXCEPT ![begun + 1] = "running"]
    BY <1>1 DEF Begin
  <2> QED  BY <1>0, <2>1, <2>2 DEF TypeOK
<1>2. ASSUME NEW t \in TxID, NEW k \in Key, NEW c \in Val \cup {"tombstone"},
             Upsert(t, k, c) \/ UpsertFails(t, k, c)
      PROVE  outcome' = outcome /\ \A j \in Key : outcome[u] # "running" => leaf'[j][u] = leaf[j][u]
  <2>1. WriteCell(t, k, c) /\ outcome' = outcome  BY <1>2 DEF Upsert, UpsertFails
  <2>2. outcome[t] = "running" /\ leaf' = [leaf EXCEPT ![k][t] = c]
    BY <1>0, <2>1 DEF WriteCell, Running, Table
  <2> QED  BY <1>0, <2>1, <2>2 DEF TypeOK
<1>3. ASSUME NEW t \in TxID, StartRollback(t) \/ Commit(t)
      PROVE  /\ leaf' = leaf /\ outcome[t] = "running"
             /\ outcome'[u] = outcome[u] \/ u = t
  BY <1>0, <1>3 DEF StartRollback, Commit, Running, Table, TypeOK
<1>4. ASSUME NEW t \in TxID, UndoStep(t)
      PROVE  outcome' = outcome /\ \A j \in Key : outcome[u] # "aborted" => leaf'[j][u] = leaf[j][u]
  <2>1. outcome' = outcome /\ outcome[t] = "aborted"  BY <1>0, <1>4 DEF UndoStep, Table
  <2>2. \A k \in Key : u # t => leaf'[k][u] = leaf[k][u]
    BY <1>0, <1>4, UndoStepEffect
  <2> QED  BY <2>1, <2>2
<1>5. ASSUME NEW t \in TxID,
             \/ GetLastLSN(t) \/ CommitFails(t) \/ UndoSkips(t) \/ RollbackFails(t)
             \/ FinishRollback(t)
      PROVE  outcome' = outcome /\ leaf' = leaf
  BY <1>5 DEF GetLastLSN, CommitFails, UndoSkips, RollbackFails, FinishRollback
<1>6. CASE StartVacuum \/ VacuumLeafFails \/ PruneTables \/ UNCHANGED vars
  BY <1>6 DEF StartVacuum, VacuumLeafFails, PruneTables, vars
<1>7. ASSUME NEW t \in TxID, ClientStep(t) \/ RollbackStep(t)
      PROVE  /\ outcome[u] = "committed" =>
                  outcome'[u] = "committed" /\ \A k \in Key : leaf'[k][u] = leaf[k][u]
             /\ outcome[u] # "committed" /\ outcome'[u] = "committed" =>
                  outcome[u] = "running" /\ \A k \in Key : leaf'[k][u] = leaf[k][u]
  BY <1>2, <1>3, <1>4, <1>5, <1>7 DEF ClientStep, RollbackStep, UpsertConflict
<1> QED  BY <1>1, <1>6, <1>7 DEF Next, TxnNext, Vacuum

(* FindLatest depends on the visible versions and nothing else. *)
LEMMA SameVersionsSameRead ==
  ASSUME NEW k, NEW t,
         \A u \in TxID : IsVersionVisible(k, u, t)' <=> IsVersionVisible(k, u, t),
         \A u \in TxID : IsVersionVisible(k, u, t) => leaf'[k][u] = leaf[k][u]
  PROVE  FindLatest(k, t)' = FindLatest(k, t)
<1> DEFINE seen == {u \in TxID : IsVersionVisible(k, u, t)}
<1>1. seen' = seen  OBVIOUS
<1>2. BestVersion(k, t) = IF seen = {} THEN 0 ELSE CHOOSE u \in seen : \A w \in seen : w <= u
  BY DEF BestVersion
<1>3. BestVersion(k, t)' = IF seen' = {} THEN 0 ELSE CHOOSE u \in seen' : \A w \in seen' : w <= u
  BY DEF BestVersion
<1>4. BestVersion(k, t)' = BestVersion(k, t)
  <2> HIDE DEF seen
  <2> QED  BY <1>1, <1>2, <1>3
<1>5. CASE seen = {}  BY <1>2, <1>4, <1>5 DEF FindLatest
<1>6. CASE seen # {}
  <2>1. PICK v \in TxID : IsVersionVisible(k, v, t)  BY <1>6
  <2>2. PICK b \in TxID : /\ IsVersionVisible(k, b, t)
                          /\ \A u \in TxID : IsVersionVisible(k, u, t) => u <= b
    BY <2>1, GreatestVisible
  <2>3. BestVersion(k, t) = b  BY <2>2, BestIsGreatest
  <2> QED  BY <1>4, <2>2, <2>3 DEF FindLatest
<1> QED  BY <1>5, <1>6

(* The GET of a running transaction changes only by its own write or by the *)
(* commit of an older transaction, for any number of transactions, keys and *)
(* vacuum passes.                                                           *)
THEOREM ReadsRepeatHolds == Spec => ReadsRepeat
<1> DEFINE Repeats ==
      \A t \in Running, k \in Key :
        (/\ outcome'[t] = "running"
         /\ Listed(k) /\ Listed(k)'
         /\ VacuumLeaf => WatermarkHolds /\ t >= vacuum.minActive)
        => \/ OwnWrite(k, t) \/ OlderCommit(k, t)
           \/ FindLatest(k, t)' = FindLatest(k, t)
<1>1. ASSUME IInv, CommittedVisible, CommittedVisible', [Next]_vars PROVE Repeats
  <2> SUFFICES ASSUME NEW t \in Running, NEW k \in Key,
                      outcome'[t] = "running", Listed(k), Listed(k)',
                      VacuumLeaf => WatermarkHolds /\ t >= vacuum.minActive,
                      ~OwnWrite(k, t), ~OlderCommit(k, t)
               PROVE  FindLatest(k, t)' = FindLatest(k, t)
    OBVIOUS
  <2>1. t \in TxID /\ t \in Nat /\ MaxTxn \in Nat /\ t <= MaxTxn
    BY BoundAssumption DEF Running, TxID
  <2>2. CASE VacuumLeaf
    <3>1. t \in vacuum.minActive .. MaxTxID
      BY <1>1, <2>1, <2>2 DEF IInv, TypeOK, MaxTxID
    <3> QED  BY <1>1, <2>2, <3>1, SweepReads
  <2>3. CASE ~VacuumLeaf
    <3>1. leaf'[k][t] = leaf[k][t]  BY <2>3 DEF OwnWrite
    <3>2. ASSUME NEW u \in TxID
          PROVE  /\ IsVersionVisible(k, u, t)' <=> IsVersionVisible(k, u, t)
                 /\ IsVersionVisible(k, u, t) => leaf'[k][u] = leaf[k][u]
      <4>1. IsVersionVisible(k, u, t) <=>
              leaf[k][u] # "absent" /\ u <= t /\ (u = t \/ outcome[u] = "committed")
        BY <1>1, <2>1 DEF CommittedVisible, Present
      <4>2. IsVersionVisible(k, u, t)' <=>
              leaf'[k][u] # "absent" /\ u <= t /\ (u = t \/ outcome'[u] = "committed")
        BY <1>1, <2>1 DEF CommittedVisible, Present
      <4>3. CASE u = t  BY <3>1, <4>1, <4>2, <4>3
      <4>4. CASE u # t
        <5>1. /\ outcome[u] = "committed" =>
                   outcome'[u] = "committed" /\ leaf'[k][u] = leaf[k][u]
              /\ outcome[u] # "committed" /\ outcome'[u] = "committed" =>
                   outcome[u] = "running" /\ leaf'[k][u] = leaf[k][u]
          BY <1>1, <2>3, CommittedStays
        <5>2. u <= t => u < t  BY <2>1, <4>4, BoundAssumption DEF TxID
        <5> QED  BY <4>1, <4>2, <4>4, <5>1, <5>2 DEF OlderCommit, Present
      <4> QED  BY <4>3, <4>4
    <3> QED  BY <3>2, SameVersionsSameRead
  <2> QED  BY <2>2, <2>3
<1>2. IInv /\ CommittedVisible /\ CommittedVisible' /\ [Next]_vars => [Repeats]_vars
  BY <1>1
<1> QED  BY <1>2, VisibleIsCommitted, Invariance, PTL DEF Spec, ReadsRepeat
=============================================================================
