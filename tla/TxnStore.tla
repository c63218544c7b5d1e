------------------------------ MODULE TxnStore ------------------------------
(***************************************************************************)
(* What the transactional engine promises its writers while no garbage is  *)
(* collected: a store of versions in which a transaction writes under its  *)
(* own identifier, the first updater of a key wins, commit publishes all   *)
(* of a transaction's versions and abort removes all of them, each in one  *)
(* step.  A writer is stopped by a running writer and by a younger commit  *)
(* only: an older transaction that committed after the writer began is     *)
(* overwritten, which docs/anomalies.md counts as a lost update.           *)
(***************************************************************************)
EXTENDS Integers

CONSTANTS Key, Val, MaxTxn

VARIABLES state,    \* state[t]: what has become of transaction t
          version,  \* version[k][t]: what t wrote to k, "absent" if nothing
          last      \* the youngest transaction begun

vars == <<state, version, last>>

TxID == 1 .. MaxTxn

Init ==
  /\ state = [t \in TxID |-> "none"]
  /\ version = [k \in Key |-> [t \in TxID |-> "absent"]]
  /\ last = 0

Begin ==
  /\ last < MaxTxn
  /\ last' = last + 1
  /\ state' = [state EXCEPT ![last + 1] = "running"]
  /\ UNCHANGED version

Locked(k, t) ==
  \E u \in TxID \ {t} :
    /\ version[k][u] # "absent"
    /\ state[u] = "running" \/ (state[u] = "committed" /\ u > t)

Write(t, k, c) ==
  /\ state[t] = "running"
  /\ ~Locked(k, t)
  /\ version' = [version EXCEPT ![k][t] = c]
  /\ UNCHANGED <<state, last>>

Commit(t) ==
  /\ state[t] = "running"
  /\ state' = [state EXCEPT ![t] = "committed"]
  /\ UNCHANGED <<version, last>>

Abort(t) ==
  /\ state[t] = "running"
  /\ state' = [state EXCEPT ![t] = "aborted"]
  /\ version' = [k \in Key |-> [version[k] EXCEPT ![t] = "absent"]]
  /\ UNCHANGED last

Next ==
  \/ Begin
  \/ \E t \in TxID :
       \/ Commit(t)
       \/ Abort(t)
       \/ \E k \in Key, c \in Val \cup {"tombstone"} : Write(t, k, c)

Spec == Init /\ [][Next]_vars
=============================================================================
