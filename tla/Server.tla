------------------------------- MODULE Server -------------------------------
(***************************************************************************)
(* The TCP server (server.go) on top of the engine: one goroutine per      *)
(* connection runs handleConnection, which executes the commands of its    *)
(* client one after the other, inside an explicit transaction or in        *)
(* auto-commit mode, and rolls an open transaction back when the           *)
(* connection ends.                                                        *)
(***************************************************************************)
EXTENDS Mvcc

CONSTANT Client

VARIABLE session  \* session[c].at: what the goroutine of c is doing;
                  \* session[c].tx: the transaction it is doing it for

svars == <<vars, session>>

(* idle, intx: waiting for a command outside and inside BEGIN ... COMMIT;   *)
(* auto, done: an auto-commit command before its execution and before its   *)
(* commit; rollback, closing: inside Rollback, for a command and in the     *)
(* deferred function; closed: no connection.                                *)
Place == {"idle", "intx", "auto", "done", "rollback", "closing", "closed"}

ServerTypeOK ==
  /\ TypeOK
  /\ session \in [Client -> [at : Place, tx : 0 .. MaxTxn]]

ServerInit ==
  /\ Init
  /\ session = [c \in Client |-> [at |-> "closed", tx |-> 0]]

Goto(c, at, tx) == session' = [session EXCEPT ![c] = [at |-> at, tx |-> tx]]

Accept(c) ==
  /\ session[c].at = "closed"
  /\ Goto(c, "idle", 0)
  /\ UNCHANGED vars

CmdBegin(c) ==
  /\ session[c].at = "idle"
  /\ Begin
  /\ Goto(c, "intx", begun + 1)

(* COMMIT answers OK and leaves the transaction also when Commit failed. *)
CmdCommit(c) ==
  /\ session[c].at = "intx"
  /\ Commit(session[c].tx) \/ CommitFails(session[c].tx)
  /\ Goto(c, "idle", 0)

CmdRollback(c) ==
  /\ session[c].at = "intx"
  /\ StartRollback(session[c].tx)
  /\ Goto(c, "rollback", session[c].tx)

(* Mutant: executeCommand leaves InTx set after a failed write. *)
CmdWriteKeepsInTx(c, k, v) ==
  /\ session[c].at = "intx"
  /\ \/ Upsert(session[c].tx, k, v) \/ UpsertFails(session[c].tx, k, v)
     \/ UpsertConflict(session[c].tx, k)
  /\ UNCHANGED session

(* SET or DELETE inside a transaction: only a conflict ends it, any other   *)
(* error is reported and the transaction goes on.                           *)
CmdWrite(c, k, v) ==
  /\ session[c].at = "intx"
  /\ \/ /\ Upsert(session[c].tx, k, v) \/ UpsertFails(session[c].tx, k, v)
        /\ UNCHANGED session
     \/ /\ UpsertConflict(session[c].tx, k)
        /\ Goto(c, "rollback", session[c].tx)

AutoBegin(c) ==
  /\ session[c].at = "idle"
  /\ Begin
  /\ Goto(c, "auto", begun + 1)

(* An error that is no conflict ends the command and leaves the transaction *)
(* as it is: running, and with the cell in the page when Append failed.     *)
AutoWrite(c, k, v) ==
  /\ session[c].at = "auto"
  /\ \/ /\ Upsert(session[c].tx, k, v)
        /\ Goto(c, "done", session[c].tx)
     \/ /\ UpsertFails(session[c].tx, k, v)
        /\ Goto(c, "idle", 0)
     \/ /\ UpsertConflict(session[c].tx, k)
        /\ Goto(c, "rollback", session[c].tx)

(* GET outside a transaction: an error, "key not found" included, ends the  *)
(* command without commit or rollback.                                      *)
AutoGet(c, k) ==
  /\ session[c].at = "auto"
  /\ IF FindLatest(k, session[c].tx) = "absent"
     THEN Goto(c, "idle", 0)
     ELSE Goto(c, "done", session[c].tx)
  /\ UNCHANGED vars

(* GET, SET or DELETE cannot fetch a page on the way to its leaf. *)
AutoFails(c) ==
  /\ session[c].at = "auto"
  /\ Goto(c, "idle", 0)
  /\ UNCHANGED vars

(* A usage message or an unknown command: no error, nothing executed. *)
AutoMalformed(c) ==
  /\ session[c].at = "auto"
  /\ Goto(c, "done", session[c].tx)
  /\ UNCHANGED vars

AutoCommit(c) ==
  /\ session[c].at = "done"
  /\ Commit(session[c].tx) \/ CommitFails(session[c].tx)
  /\ Goto(c, "idle", 0)

(* Mutant: no deferred rollback. *)
DisconnectOnly(c) ==
  /\ session[c].at \in {"idle", "intx"}
  /\ Goto(c, "closed", 0)
  /\ UNCHANGED vars

(* QUIT, EXIT or a dropped connection, and the deferred function. *)
Disconnect(c) ==
  \/ /\ session[c].at = "idle"
     /\ Goto(c, "closed", 0)
     /\ UNCHANGED vars
  \/ /\ session[c].at = "intx"
     /\ StartRollback(session[c].tx)
     /\ Goto(c, "closing", session[c].tx)

(* Rollback runs on the goroutine of the connection, and its error is       *)
(* dropped.                                                                 *)
Undo(c) ==
  /\ session[c].at \in {"rollback", "closing"}
  /\ \/ /\ \/ GetLastLSN(session[c].tx)
           \/ UndoStep(session[c].tx)
           \/ UndoSkips(session[c].tx)
        /\ UNCHANGED session
     \/ /\ RollbackFails(session[c].tx) \/ FinishRollback(session[c].tx)
        /\ Goto(c, IF session[c].at = "rollback" THEN "idle" ELSE "closed", 0)

ServerVacuum == Vacuum /\ UNCHANGED session

ServerNext ==
  \/ \E c \in Client :
       \/ Accept(c) \/ CmdBegin(c) \/ CmdCommit(c) \/ CmdRollback(c)
       \/ AutoBegin(c) \/ AutoFails(c) \/ AutoMalformed(c) \/ AutoCommit(c)
       \/ Disconnect(c) \/ Undo(c)
       \/ \E k \in Key : AutoGet(c, k)
       \/ \E k \in Key, v \in Val \cup {"tombstone"} : CmdWrite(c, k, v) \/ AutoWrite(c, k, v)
  \/ ServerVacuum

ServerSpec == ServerInit /\ [][ServerNext]_svars

(* A goroutine inside Rollback is not blocked by its client. *)
ServerFairSpec == ServerSpec /\ \A c \in Client : WF_svars(Undo(c))

-----------------------------------------------------------------------------
(* The transaction a session is working in. *)
InTx(c, t) == session[c].at \in {"intx", "auto", "done"} /\ session[c].tx = t

(* A client inside a transaction is inside a live one of its own: neither   *)
(* a conflict of its own nor anything another connection does leaves InTx   *)
(* set for a transaction that is over (handleConnection, executeCommand).   *)
SessionInLiveTxn ==
  \A c \in Client, t \in TxID : InTx(c, t) =>
    /\ t \in Running
    /\ \A d \in Client \ {c} : ~InTx(d, t)

(* A running transaction no connection works in any more holds no version,  *)
(* so no key stays locked by it: the deferred rollback covers all writers,  *)
(* except those left behind by a refused append, whose COMMIT or write      *)
(* reports no conflict.                                                     *)
OrphansHoldNoKey ==
  \A t \in Running \ failed : (\A c \in Client : ~InTx(c, t)) =>
    \A k \in Key : ~Present(k, t)

(* After a disconnect the open transaction ends and its writes disappear,   *)
(* unless an I/O error or a prune that overtook the rollback kept them.     *)
DisconnectReleases ==
  \A c \in Client, t \in TxID :
    session[c].at = "closing" /\ session[c].tx = t ~>
      /\ t \notin Running
      /\ \/ \A k \in Key : leaf[k][t] \in {"absent", "nil"}
         \/ t \in failed \cup forgotten
=============================================================================
