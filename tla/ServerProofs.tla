---------------------------- MODULE ServerProofs -----------------------------
(***************************************************************************)
(* Proofs about Server, for any set of connections on top of any instance  *)
(* of the engine.                                                          *)
(***************************************************************************)
EXTENDS Server, MvccProofs

USE DEF hist

(* What a step may do to the transactions that run and to their versions:   *)
(* a new transaction has none, one that ends keeps them, and nobody but its *)
(* own client adds one.                                                     *)
Starts(t) ==
  /\ t \in TxID \ Running /\ Running' = Running \cup {t}
  /\ leaf' = leaf /\ failed' = failed /\ \A k \in Key : ~Present(k, t)

Ends(t) ==
  t \in Running /\ Running' = Running \ {t} /\ leaf' = leaf /\ failed' = failed

Writes(t) ==
  /\ t \in Running /\ Running' = Running /\ failed \subseteq failed'
  /\ \A k \in Key, u \in TxID \ {t} : leaf'[k][u] = leaf[k][u]

Spares ==
  /\ Running' = Running /\ failed \subseteq failed'
  /\ \A k \in Key, u \in Running : leaf'[k][u] \in {"absent", leaf[k][u]}

(* Begin of the transaction manager. *)
LEMMA BeginStarts ==
  ASSUME IInv, Begin
  PROVE  Starts(begun + 1)
<1> USE DEF IInv, TypeOK
<1>1. begun + 1 \in TxID /\ begun \in Nat  BY BoundAssumption DEF Begin, TxID
<1>2. outcome[begun + 1] = "none"  BY <1>1 DEF Identifiers
<1>3. txnTable[begun + 1] = "none" /\ \A k \in Key : ~Present(k, begun + 1)
  BY <1>1, <1>2 DEF Identifiers
<1>4. Running' = Running \cup {begun + 1}
  BY <1>1 DEF Running, Begin
<1> QED  BY <1>1, <1>3, <1>4 DEF Starts, Running, Begin

(* Commit and the start of Rollback. *)
LEMMA ClientEnds ==
  ASSUME IInv, NEW t, Commit(t) \/ StartRollback(t)
  PROVE  Ends(t)
BY DEF IInv, TypeOK, Commit, StartRollback, Running, Ends

(* upsertCell without conflict, logged or not. *)
LEMMA UpsertWrites ==
  ASSUME IInv, NEW t, NEW k \in Key, NEW c, Upsert(t, k, c) \/ UpsertFails(t, k, c)
  PROVE  Writes(t)
<1>0. WriteCell(t, k, c) /\ txnTable' = txnTable /\ failed \subseteq failed'
  BY DEF Upsert, UpsertFails, Fail
<1>1. t \in Running /\ leaf' = [leaf EXCEPT ![k][t] = c]
  BY <1>0 DEF WriteCell
<1>2. \A j \in Key, u \in TxID \ {t} : leaf'[j][u] = leaf[j][u]
  BY <1>1 DEF IInv, TypeOK
<1> QED  BY <1>0, <1>1, <1>2 DEF Writes, Running

(* A commit whose record is refused changes nothing in the engine. *)
LEMMA CommitFailsWrites ==
  ASSUME NEW t, CommitFails(t)
  PROVE  Writes(t)
BY DEF CommitFails, Fail, Writes, Running

(* The turns of Rollback's loop, its end, and the vacuum goroutine. *)
LEMMA OthersSpare ==
  ASSUME IInv, Vacuum \/ \E t \in TxID : RollbackStep(t)
  PROVE  Spares
<1> USE DEF IInv, TypeOK
<1>1. ASSUME NEW t \in TxID, UndoStep(t) PROVE Spares
  <2>1. t \notin Running  BY <1>1 DEF UndoStep, Table, Running
  <2>2. \A k \in Key, u \in TxID : u # t => leaf'[k][u] = leaf[k][u]
    BY <1>1, UndoStepEffect
  <2>3. Running' = Running /\ failed' = failed  BY <1>1 DEF UndoStep, Running
  <2> QED  BY <2>1, <2>2, <2>3 DEF Spares, Running
<1>2. ASSUME NEW t \in TxID, FinishRollback(t) PROVE Spares
  <2>1. t \notin Running  BY <1>2 DEF FinishRollback, Table, Running
  <2>2. Running' = Running  BY <1>2, <2>1 DEF FinishRollback, Running
  <2> QED  BY <1>2, <2>2 DEF Spares, FinishRollback
<1>3. CASE StartVacuum \/ VacuumLeafFails
  BY <1>3 DEF StartVacuum, VacuumLeafFails, Spares, Running
<1>4. CASE VacuumLeaf
  <2>1. Running' = Running /\ failed' = failed  BY <1>4 DEF VacuumLeaf, Running
  <2>2. \A k \in Key, u \in TxID : leaf'[k][u] \in {"absent", leaf[k][u]}
    BY <1>4 DEF VacuumLeaf
  <2> QED  BY <2>1, <2>2 DEF Spares, Running
<1>5. CASE PruneTables
  <2>1. Running' = Running  BY <1>5 DEF PruneTables, Pruned, Running
  <2> QED  BY <1>5, <2>1 DEF PruneTables, Spares
<1>6. ASSUME NEW t \in TxID, GetLastLSN(t) \/ UndoSkips(t) \/ RollbackFails(t) PROVE Spares
  BY <1>6 DEF GetLastLSN, UndoSkips, RollbackFails, Fail, Spares, Running
<1> QED  BY <1>1, <1>2, <1>3, <1>4, <1>5, <1>6 DEF Vacuum, RollbackStep

-----------------------------------------------------------------------------
(* The inductive invariant *)

Sessions == session \in [Client -> [at : Place, tx : 0 .. MaxTxn]]

(* The identifier of a session inside a transaction is a real one, and an   *)
(* auto-commit transaction has written nothing before its command runs.     *)
Owned ==
  \A c \in Client :
    /\ session[c].at \in {"intx", "auto", "done"} => session[c].tx \in TxID
    /\ session[c].at = "auto" => \A k \in Key : ~Present(k, session[c].tx)

SInv == IInv /\ Sessions /\ Owned /\ SessionInLiveTxn /\ OrphansHoldNoKey

(* The part of the invariant about sessions. *)
SessInv == Sessions /\ Owned /\ SessionInLiveTxn /\ OrphansHoldNoKey

(* BEGIN, and the start of an auto-commit command. *)
LEMMA StartKeeps ==
  ASSUME SInv, NEW c \in Client, NEW t, NEW a \in {"intx", "auto"},
         Starts(t), session[c].at = "idle", Goto(c, a, t)
  PROVE  SessInv'
<1> USE DEF SInv, Sessions
<1>1. /\ t \in TxID /\ t \notin Running /\ Running' = Running \cup {t}
      /\ leaf' = leaf /\ failed' = failed /\ \A k \in Key : ~Present(k, t)
  BY DEF Starts
<1>2. /\ session'[c] = [at |-> a, tx |-> t]
      /\ \A d \in Client \ {c} : session'[d] = session[d]
  BY DEF Goto
<1>3. Sessions'  BY <1>1 DEF Goto, Place, TxID
<1>4. Owned'  BY <1>1, <1>2 DEF Owned, Present
<1>5. SessionInLiveTxn'
  BY <1>1, <1>2 DEF SessionInLiveTxn, InTx
<1>6. ASSUME NEW u \in TxID, u \in Running' \ failed', \A d \in Client : ~InTx(d, u)'
      PROVE  \A k \in Key : ~Present(k, u)'
  <2>1. u # t  BY <1>2, <1>6 DEF InTx
  <2>2. u \in Running \ failed /\ \A d \in Client : ~InTx(d, u)
    BY <1>1, <1>2, <1>6, <2>1 DEF InTx
  <2> QED  BY <1>1, <2>2 DEF OrphansHoldNoKey, Present
<1> QED  BY <1>3, <1>4, <1>5, <1>6 DEF SessInv, OrphansHoldNoKey, Running

(* COMMIT, ROLLBACK, a conflict, a disconnect, the end of auto-commit. *)
LEMMA EndKeeps ==
  ASSUME SInv, NEW c \in Client, NEW a \in {"idle", "rollback", "closing"},
         NEW x \in {0, session[c].tx},
         session[c].at \in {"intx", "auto", "done"},
         Ends(session[c].tx), Goto(c, a, x)
  PROVE  SessInv'
<1> USE DEF SInv, Sessions
<1> DEFINE t == session[c].tx
<1>1. /\ t \in Running /\ t \in TxID /\ Running' = Running \ {t}
      /\ leaf' = leaf /\ failed' = failed
  BY DEF Ends, Running
<1>2. /\ session'[c] = [at |-> a, tx |-> x]
      /\ \A d \in Client \ {c} : session'[d] = session[d]
  BY DEF Goto
<1>3. Sessions'  BY <1>1, BoundAssumption DEF Goto, Place, TxID
<1>4. Owned'  BY <1>1, <1>2 DEF Owned, Present
<1>5. InTx(c, t)  BY DEF InTx
<1>6. \A d \in Client \ {c} : ~InTx(d, t)
  BY <1>1, <1>5 DEF SessionInLiveTxn
<1>7. SessionInLiveTxn'
  BY <1>1, <1>2, <1>6 DEF SessionInLiveTxn, InTx
<1>8. ASSUME NEW u \in TxID, u \in Running' \ failed', \A d \in Client : ~InTx(d, u)'
      PROVE  \A k \in Key : ~Present(k, u)'
  <2>1. u \in Running \ failed /\ \A d \in Client : ~InTx(d, u)
    BY <1>1, <1>2, <1>8 DEF InTx
  <2> QED  BY <1>1, <2>1 DEF OrphansHoldNoKey, Present
<1> QED  BY <1>3, <1>4, <1>7, <1>8 DEF SessInv, OrphansHoldNoKey, Running

(* SET and DELETE, in a transaction and in auto-commit mode. *)
LEMMA WriteKeeps ==
  ASSUME SInv, NEW c \in Client, Writes(session[c].tx),
         \/ session[c].at = "intx" /\ session' = session
         \/ session[c].at = "auto" /\ Goto(c, "done", session[c].tx)
  PROVE  SessInv'
<1> USE DEF SInv, Sessions
<1> DEFINE t == session[c].tx
<1>1. /\ t \in Running /\ t \in TxID /\ Running' = Running /\ failed \subseteq failed'
      /\ \A k \in Key, u \in TxID \ {t} : leaf'[k][u] = leaf[k][u]
  BY DEF Writes, Running
<1>2. /\ session'[c].tx = t /\ session'[c].at \in {"intx", "done"}
      /\ \A d \in Client \ {c} : session'[d] = session[d]
  BY DEF Goto
<1>3. Sessions'  BY <1>1, BoundAssumption DEF Goto, Place, TxID
<1>4. \A d \in Client, u \in TxID : InTx(d, u)' <=> InTx(d, u)
  BY <1>2 DEF InTx
<1>5. SessionInLiveTxn'  BY <1>1, <1>4 DEF SessionInLiveTxn
<1>6. \A d \in Client \ {c} : ~InTx(d, t)
  BY <1>1 DEF SessionInLiveTxn, InTx
<1>7. Owned'
  <2>1. ASSUME NEW d \in Client \ {c}, session[d].at = "auto"
        PROVE  session[d].tx \in TxID \ {t}
    BY <1>1, <1>6, <2>1 DEF Owned, InTx
  <2> QED  BY <1>1, <1>2, <2>1 DEF Owned, Present
<1>8. ASSUME NEW u \in TxID, u \in Running' \ failed', \A d \in Client : ~InTx(d, u)'
      PROVE  \A k \in Key : ~Present(k, u)'
  <2>1. u # t  BY <1>1, <1>2, <1>8 DEF InTx
  <2>2. u \in Running \ failed /\ \A d \in Client : ~InTx(d, u)
    BY <1>1, <1>4, <1>8
  <2> QED  BY <1>1, <2>1, <2>2 DEF OrphansHoldNoKey, Present
<1> QED  BY <1>3, <1>5, <1>7, <1>8 DEF SessInv, OrphansHoldNoKey, Running

(* A COMMIT or an auto-commit write that failed: its session forgets the    *)
(* transaction, which goes on running.                                      *)
LEMMA AbandonKeeps ==
  ASSUME SInv, NEW c \in Client, Writes(session[c].tx), session[c].tx \in failed',
         session[c].at \in {"intx", "auto", "done"}, Goto(c, "idle", 0)
  PROVE  SessInv'
<1> USE DEF SInv, Sessions
<1> DEFINE t == session[c].tx
<1>1. /\ t \in Running /\ t \in TxID /\ Running' = Running /\ failed \subseteq failed'
      /\ \A k \in Key, u \in TxID \ {t} : leaf'[k][u] = leaf[k][u]
  BY DEF Writes, Running
<1>2. /\ session'[c] = [at |-> "idle", tx |-> 0]
      /\ \A d \in Client \ {c} : session'[d] = session[d]
  BY DEF Goto
<1>3. Sessions'  BY <1>1, BoundAssumption DEF Goto, Place, TxID
<1>4. \A d \in Client, u \in TxID : InTx(d, u)' <=> d # c /\ InTx(d, u)
  BY <1>2 DEF InTx
<1>5. SessionInLiveTxn'  BY <1>1, <1>4 DEF SessionInLiveTxn
<1>6. \A d \in Client \ {c} : ~InTx(d, t)
  BY <1>1 DEF SessionInLiveTxn, InTx
<1>7. Owned'
  <2>1. ASSUME NEW d \in Client \ {c}, session[d].at = "auto"
        PROVE  session[d].tx \in TxID \ {t}
    BY <1>1, <1>6, <2>1 DEF Owned, InTx
  <2> QED  BY <1>1, <1>2, <2>1 DEF Owned, Present
<1>8. ASSUME NEW u \in TxID, u \in Running' \ failed', \A d \in Client : ~InTx(d, u)'
      PROVE  \A k \in Key : ~Present(k, u)'
  <2>1. u # t  BY <1>8
  <2>2. InTx(c, t)  BY DEF InTx
  <2>3. ~InTx(c, u)  BY <2>1 DEF InTx
  <2>4. u \in Running \ failed /\ \A d \in Client : ~InTx(d, u)
    BY <1>1, <1>4, <1>8, <2>3
  <2> QED  BY <1>1, <2>1, <2>4 DEF OrphansHoldNoKey, Present
<1> QED  BY <1>3, <1>5, <1>7, <1>8 DEF SessInv, OrphansHoldNoKey, Running

(* Commands that write nothing, connections that open and close, and the    *)
(* steps of rollback and vacuum: a session may leave an auto-commit         *)
(* transaction behind only while it has no version.                         *)
LEMMA SpareKeeps ==
  ASSUME SInv, Spares,
         \/ session' = session
         \/ \E c \in Client :
              \/ /\ session[c].at \notin {"intx", "auto", "done"}
                 /\ \E a \in {"idle", "closed"} : Goto(c, a, 0)
              \/ session[c].at = "auto" /\ Goto(c, "idle", 0)
              \/ session[c].at = "auto" /\ Goto(c, "done", session[c].tx)
  PROVE  SessInv'
<1> USE DEF SInv, Sessions
<1>1. /\ Running' = Running /\ Running \subseteq TxID /\ failed \subseteq failed'
      /\ \A k \in Key, u \in Running : leaf'[k][u] \in {"absent", leaf[k][u]}
  BY DEF Spares, Running
<1>2. Sessions'  BY BoundAssumption DEF Goto, Place
<1>3. \A d \in Client, u \in TxID : InTx(d, u)' => InTx(d, u)
  BY DEF InTx, Goto
<1>4. SessionInLiveTxn'  BY <1>1, <1>3 DEF SessionInLiveTxn
<1>5. ASSUME NEW d \in Client, session'[d].at \in {"intx", "auto", "done"}
      PROVE  /\ session[d].at \in {"intx", "auto", "done"} /\ session'[d].tx = session[d].tx
             /\ session'[d].at = "auto" => session[d].at = "auto"
  BY <1>5 DEF Goto
<1>6. Owned'
  <2>1. ASSUME NEW d \in Client, session'[d].at = "auto"
        PROVE  \A k \in Key : ~Present(k, session[d].tx)'
    <3>1. /\ session'[d].tx = session[d].tx /\ session[d].tx \in TxID
          /\ session[d].at = "auto"
      BY <1>5, <2>1 DEF Owned
    <3>2. session[d].tx \in Running
      BY <3>1 DEF SessionInLiveTxn, InTx
    <3>3. \A k \in Key : leaf[k][session[d].tx] = "absent"
      BY <3>1 DEF Owned, Present
    <3>4. \A k \in Key : leaf'[k][session[d].tx] = "absent"
      BY <1>1, <3>2, <3>3
    <3> QED  BY <3>1, <3>4 DEF Present
  <2>2. ASSUME NEW d \in Client, session'[d].at \in {"intx", "auto", "done"}
        PROVE  session'[d].tx \in TxID
    BY <1>5, <2>2 DEF Owned
  <2> QED  BY <2>1, <2>2 DEF Owned
<1>7. ASSUME NEW u \in TxID, u \in Running' \ failed', \A d \in Client : ~InTx(d, u)'
      PROVE  \A k \in Key : ~Present(k, u)'
  <2>1. \A k \in Key : ~Present(k, u)
    <3>1. CASE \A d \in Client : ~InTx(d, u)
      BY <1>1, <1>7, <3>1 DEF OrphansHoldNoKey
    <3>2. ASSUME NEW d \in Client, InTx(d, u) PROVE \A k \in Key : ~Present(k, u)
      <4>1. session[d].at = "auto" /\ session[d].tx = u
        BY <1>7, <3>2 DEF InTx, Goto
      <4> QED  BY <4>1 DEF Owned
    <3> QED  BY <3>1, <3>2
  <2> QED  BY <1>1, <1>7, <2>1 DEF Present
<1> QED  BY <1>2, <1>4, <1>6, <1>7 DEF SessInv, OrphansHoldNoKey, Running

(* A step of the server that leaves the engine alone spares every version. *)
LEMMA UnchangedSpares ==
  ASSUME UNCHANGED vars
  PROVE  Spares
BY DEF vars, Spares, Running

(* Every command is one of these steps. *)
LEMMA SessionStep ==
  ASSUME SInv, [ServerNext]_svars
  PROVE  SessInv'
<1>i. IInv  BY DEF SInv
<1>1. ASSUME NEW c \in Client, Accept(c) PROVE SessInv'
  BY <1>1, UnchangedSpares, SpareKeeps DEF Accept
<1>2. ASSUME NEW c \in Client, CmdBegin(c) \/ AutoBegin(c) PROVE SessInv'
  BY <1>i, <1>2, BeginStarts, StartKeeps DEF CmdBegin, AutoBegin
<1>3. ASSUME NEW c \in Client, CmdCommit(c) \/ AutoCommit(c) PROVE SessInv'
  <2>1. session[c].at \in {"intx", "done"} /\ Goto(c, "idle", 0)
    BY <1>3 DEF CmdCommit, AutoCommit
  <2>2. CASE Commit(session[c].tx)  BY <1>i, <2>1, <2>2, ClientEnds, EndKeeps
  <2>3. CASE CommitFails(session[c].tx)
    <3>1. session[c].tx \in failed'  BY <2>3 DEF CommitFails, Fail
    <3> QED  BY <2>1, <2>3, <3>1, CommitFailsWrites, AbandonKeeps
  <2> QED  BY <1>3, <2>2, <2>3 DEF CmdCommit, AutoCommit
<1>4. ASSUME NEW c \in Client, CmdRollback(c) PROVE SessInv'
  BY <1>i, <1>4, ClientEnds, EndKeeps DEF CmdRollback
<1>5. ASSUME NEW c \in Client, NEW k \in Key, NEW v \in Val \cup {"tombstone"}, CmdWrite(c, k, v)
      PROVE  SessInv'
  <2>1. CASE /\ Upsert(session[c].tx, k, v) \/ UpsertFails(session[c].tx, k, v)
             /\ UNCHANGED session
    <3>1. Writes(session[c].tx)  BY <1>i, <2>1, UpsertWrites
    <3> QED  BY <1>5, <2>1, <3>1, WriteKeeps DEF CmdWrite
  <2>2. CASE UpsertConflict(session[c].tx, k) /\ Goto(c, "rollback", session[c].tx)
    BY <1>i, <1>5, <2>2, ClientEnds, EndKeeps DEF CmdWrite, UpsertConflict
  <2> QED  BY <1>5, <2>1, <2>2 DEF CmdWrite
<1>6. ASSUME NEW c \in Client, NEW k \in Key, NEW v \in Val \cup {"tombstone"}, AutoWrite(c, k, v)
      PROVE  SessInv'
  <2>1. CASE Upsert(session[c].tx, k, v) /\ Goto(c, "done", session[c].tx)
    <3>1. Writes(session[c].tx)  BY <1>i, <2>1, UpsertWrites
    <3> QED  BY <1>6, <2>1, <3>1, WriteKeeps DEF AutoWrite
  <2>2. CASE UpsertConflict(session[c].tx, k) /\ Goto(c, "rollback", session[c].tx)
    BY <1>i, <1>6, <2>2, ClientEnds, EndKeeps DEF AutoWrite, UpsertConflict
  <2>3. CASE UpsertFails(session[c].tx, k, v) /\ Goto(c, "idle", 0)
    <3>1. Writes(session[c].tx)  BY <1>i, <2>3, UpsertWrites
    <3>2. session[c].tx \in failed'  BY <2>3 DEF UpsertFails, Fail
    <3> QED  BY <1>6, <2>3, <3>1, <3>2, AbandonKeeps DEF AutoWrite
  <2> QED  BY <1>6, <2>1, <2>2, <2>3 DEF AutoWrite
<1>7. ASSUME NEW c \in Client, NEW k \in Key, AutoGet(c, k) PROVE SessInv'
  BY <1>7, UnchangedSpares, SpareKeeps DEF AutoGet
<1>8. ASSUME NEW c \in Client, AutoMalformed(c) \/ AutoFails(c) PROVE SessInv'
  BY <1>8, UnchangedSpares, SpareKeeps DEF AutoMalformed, AutoFails
<1>9. ASSUME NEW c \in Client, Disconnect(c) PROVE SessInv'
  <2>1. CASE session[c].at = "idle" /\ Goto(c, "closed", 0) /\ UNCHANGED vars
    BY <2>1, UnchangedSpares, SpareKeeps
  <2>2. CASE /\ session[c].at = "intx" /\ StartRollback(session[c].tx)
             /\ Goto(c, "closing", session[c].tx)
    BY <1>i, <2>2, ClientEnds, EndKeeps
  <2> QED  BY <1>9, <2>1, <2>2 DEF Disconnect
<1>10. ASSUME NEW c \in Client, Undo(c) PROVE SessInv'
  <2>1. session[c].tx \in TxID /\ RollbackStep(session[c].tx)
    BY <1>i, <1>10 DEF Undo, RollbackStep, GetLastLSN, UndoStep, UndoSkips, RollbackFails,
                       FinishRollback, IInv, TypeOK
  <2>2. Spares  BY <1>i, <2>1, OthersSpare
  <2>3. session[c].at \notin {"intx", "auto", "done"}  BY <1>10 DEF Undo
  <2>4. \/ session' = session
        \/ \E a \in {"idle", "closed"} : Goto(c, a, 0)
    BY <1>10 DEF Undo
  <2> QED  BY <2>2, <2>3, <2>4, SpareKeeps
<1>11. CASE ServerVacuum
  BY <1>i, <1>11, OthersSpare, SpareKeeps DEF ServerVacuum
<1>12. CASE UNCHANGED svars
  BY <1>12, UnchangedSpares, SpareKeeps DEF svars
<1> QED
  BY <1>1, <1>2, <1>3, <1>4, <1>5, <1>6, <1>7, <1>8, <1>9, <1>10, <1>11, <1>12
  DEF ServerNext

-----------------------------------------------------------------------------
(* The server on the engine *)

(* Every step of the server is a step of the engine or leaves it alone. *)
LEMMA EngineStep ==
  ASSUME TypeOK, [ServerNext]_svars
  PROVE  [Next]_vars
<1>1. \A t : t \in Running \/ t \in rolling => t \in TxID
  BY DEF TypeOK, Running
<1>2. ASSUME NEW c \in Client,
             \/ Accept(c) \/ AutoMalformed(c) \/ AutoFails(c)
             \/ \E k \in Key : AutoGet(c, k)
      PROVE  UNCHANGED vars
  BY <1>2 DEF Accept, AutoMalformed, AutoFails, AutoGet
<1>3. ASSUME NEW c \in Client, CmdBegin(c) \/ AutoBegin(c) PROVE Begin
  BY <1>3 DEF CmdBegin, AutoBegin
<1>4. ASSUME NEW c \in Client, CmdCommit(c) \/ AutoCommit(c) \/ CmdRollback(c)
      PROVE  \E t \in TxID : ClientStep(t)
  BY <1>1, <1>4 DEF CmdCommit, AutoCommit, CmdRollback, Commit, CommitFails, StartRollback,
                    ClientStep
<1>5. ASSUME NEW c \in Client, NEW k \in Key, NEW v \in Val \cup {"tombstone"},
             CmdWrite(c, k, v) \/ AutoWrite(c, k, v)
      PROVE  \E t \in TxID : ClientStep(t)
  <2>1. \/ Upsert(session[c].tx, k, v) \/ UpsertFails(session[c].tx, k, v)
        \/ UpsertConflict(session[c].tx, k)
    BY <1>5 DEF CmdWrite, AutoWrite
  <2>2. session[c].tx \in TxID
    BY <1>1, <2>1 DEF Upsert, UpsertFails, WriteCell, UpsertConflict, StartRollback
  <2> QED  BY <2>1, <2>2 DEF ClientStep
<1>6. ASSUME NEW c \in Client, Disconnect(c)
      PROVE  UNCHANGED vars \/ \E t \in TxID : ClientStep(t)
  BY <1>1, <1>6 DEF Disconnect, StartRollback, ClientStep
<1>7. ASSUME NEW c \in Client, Undo(c) PROVE \E t \in TxID : RollbackStep(t)
  BY <1>1, <1>7 DEF Undo, GetLastLSN, UndoStep, UndoSkips, RollbackFails, FinishRollback,
                    RollbackStep, TypeOK
<1>8. CASE ServerVacuum
  BY <1>8 DEF ServerVacuum, Next
<1>9. CASE UNCHANGED svars
  BY <1>9 DEF svars
<1> QED
  BY <1>2, <1>3, <1>4, <1>5, <1>6, <1>7, <1>8, <1>9 DEF ServerNext, Next, TxnNext

(* The invariant holds at the start and is kept by every step. *)
LEMMA ServerInvariance == ServerSpec => []SInv
<1>1. ServerInit => SInv
  <2> SUFFICES ASSUME ServerInit PROVE SInv  OBVIOUS
  <2>1. IInv  BY IInvInit DEF ServerInit
  <2>2. Sessions /\ Owned
    BY BoundAssumption DEF ServerInit, Sessions, Owned, Place
  <2>3. SessionInLiveTxn /\ OrphansHoldNoKey
    BY DEF ServerInit, Init, SessionInLiveTxn, OrphansHoldNoKey, InTx, Running
  <2> QED  BY <2>1, <2>2, <2>3 DEF SInv
<1>2. SInv /\ [ServerNext]_svars => SInv'
  <2> SUFFICES ASSUME SInv, [ServerNext]_svars PROVE SInv'  OBVIOUS
  <2>1. IInv'  BY EngineStep, IInvStep DEF SInv, IInv
  <2>2. SessInv'  BY SessionStep
  <2> QED  BY <2>1, <2>2 DEF SInv, SessInv
<1> QED  BY <1>1, <1>2, PTL DEF ServerSpec

(* The sessions of the server keep their types on top of the engine's. *)
THEOREM ServerTypeCorrect == ServerSpec => []ServerTypeOK
<1>1. SInv => ServerTypeOK  BY DEF SInv, IInv, Sessions, ServerTypeOK
<1> QED  BY <1>1, ServerInvariance, PTL

(* handleConnection never leaves InTx set for a transaction that is over or *)
(* that another connection works in, for any number of connections.         *)
THEOREM SessionInLiveTxnHolds == ServerSpec => []SessionInLiveTxn
<1>1. SInv => SessionInLiveTxn  BY DEF SInv
<1> QED  BY <1>1, ServerInvariance, PTL

(* A transaction no connection works in any more locks no key, whichever    *)
(* way its client, a conflict, a read error or a lost connection left it:   *)
(* only a refused append of the log leaves a writer behind.                 *)
THEOREM OrphansHoldNoKeyHolds == ServerSpec => []OrphansHoldNoKey
<1>1. SInv => OrphansHoldNoKey  BY DEF SInv
<1> QED  BY <1>1, ServerInvariance, PTL

(* The server implements the engine's specification, so that everything     *)
(* proved of the engine (MvccProofs) holds under any number of connections. *)
THEOREM ServerImplementsEngine == ServerSpec => Spec
<1>1. ServerInit => Init  BY DEF ServerInit
<1>2. SInv /\ [ServerNext]_svars => [Next]_vars
  BY EngineStep DEF SInv, IInv
<1> QED  BY <1>1, <1>2, ServerInvariance, PTL DEF ServerSpec, Spec
=============================================================================
