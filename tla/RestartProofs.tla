---------------------------- MODULE RestartProofs ----------------------------
(***************************************************************************)
(* Proofs about the log of Restart, for any number of transactions,        *)
(* crashes and failing writes.                                             *)
(***************************************************************************)
EXTENDS Restart, Extrema, SequenceTheorems, TLAPS

(* The shape of the log, whatever the page images in it are.                *)
IsSeq(s) == s \in Seq({s[i] : i \in DOMAIN s})

IsPiece(r) ==
  /\ r = [op |-> r.op, txn |-> r.txn, page |-> r.page, img |-> r.img, lsn |-> r.lsn,
          off |-> r.off, len |-> r.len, ok |-> r.ok, synced |-> r.synced]
  /\ r.lsn \in Nat /\ r.off \in Nat /\ r.len \in Nat /\ r.ok \in BOOLEAN

IsHist(h) ==
  /\ h = [told |-> h.told, acked |-> h.acked, seen |-> h.seen,
          cut |-> h.cut, shrunk |-> h.shrunk, shifted |-> h.shifted]
  /\ h.shifted \in BOOLEAN

LogShape ==
  /\ IsSeq(log) /\ \A i \in DOMAIN log : IsPiece(log[i])
  /\ cur \in Nat /\ IsHist(hist)

(* Between the write and the sync of Append its record is the last one, not *)
(* synced; the magic word is only written to an empty file.                 *)
InAppend ==
  /\ io = "sync" =>
       /\ at \in Appending /\ log # <<>>
       /\ log[Len(log)].ok /\ log[Len(log)].synced = "no"
       /\ at = "commit" => log[Len(log)].op = "commit" /\ log[Len(log)].txn = who
  /\ at = "magic" /\ io = "write" => log = <<>>

(* Acknowledged commits are synced, not only in the file. *)
Kept(l, acked) ==
  \A t \in acked : \E i \in DOMAIN l :
    l[i].op = "commit" /\ l[i].txn = t /\ l[i].ok /\ l[i].synced = "yes"

(* As long as no write has failed half way, WAL counts the bytes of the file. *)
Counted == at # "down" /\ ~hist.shifted => cur = FileSize

LInv == LogShape /\ InAppend /\ Kept(log, hist.acked) /\ Counted /\ LSNIsOffset

-----------------------------------------------------------------------------
(* The log file *)

(* A sequence has positions 1 .. Len. *)
LEMMA SeqShape ==
  ASSUME NEW s, IsSeq(s)
  PROVE  Len(s) \in Nat /\ DOMAIN s = 1 .. Len(s) /\ (s # <<>> => Len(s) \in 1 .. Len(s))
<1>1. Len(s) \in Nat /\ DOMAIN s = 1 .. Len(s)  BY LenProperties DEF IsSeq
<1>2. s # <<>> => Len(s) # 0  BY EmptySeq DEF IsSeq
<1> QED  BY <1>1, <1>2

(* One more piece at the end. *)
LEMMA AppendShape ==
  ASSUME NEW s, IsSeq(s), NEW e
  PROVE  LET l == Append(s, e)
         IN  /\ IsSeq(l) /\ Len(l) = Len(s) + 1 /\ DOMAIN l = 1 .. Len(s) + 1
             /\ l # <<>> /\ l[Len(s) + 1] = e /\ \A i \in 1 .. Len(s) : l[i] = s[i]
<1> DEFINE S == {s[i] : i \in DOMAIN s} \cup {e}
           l == Append(s, e)
<1>1. s \in Seq(S)  BY SeqMonotonic DEF IsSeq
<1>2. Len(s) \in Nat  BY <1>1, LenProperties
<1>3. /\ l \in Seq(S) /\ Len(l) = Len(s) + 1 /\ l[Len(s) + 1] = e
      /\ \A i \in 1 .. Len(s) : l[i] = s[i]
  <2> HIDE DEF S
  <2>1. e \in S  BY DEF S
  <2> QED  BY <1>1, <2>1
<1>4. DOMAIN l = 1 .. Len(s) + 1  BY <1>3, LenProperties
<1>5. l # <<>>  BY <1>2, <1>3, EmptySeq
<1>6. \A i \in 1 .. Len(l) : l[i] \in {l[j] : j \in DOMAIN l}
  BY <1>3, <1>4
<1>7. IsSeq(l)
  <2> HIDE DEF l
  <2>1. l = [i \in 1 .. Len(l) |-> l[i]]  BY <1>3, LenProperties
  <2>2. Len(l) \in Nat  BY <1>3, LenProperties
  <2> QED  BY <1>6, <2>1, <2>2 DEF IsSeq
<1> QED  BY <1>3, <1>4, <1>5, <1>7

(* A function on 1 .. n is a sequence. *)
LEMMA FunctionShape ==
  ASSUME NEW n \in Nat, NEW l, l = [i \in 1 .. n |-> l[i]]
  PROVE  IsSeq(l) /\ Len(l) = n /\ DOMAIN l = 1 .. n
<1>1. DOMAIN l = 1 .. n  OBVIOUS
<1>2. l \in [1 .. n -> {l[i] : i \in DOMAIN l}]  BY <1>1
<1>3. IsSeq(l)  BY <1>2 DEF IsSeq
<1>4. DOMAIN l = 1 .. Len(l) /\ Len(l) \in Nat  BY <1>3, SeqShape
<1> QED  BY <1>1, <1>3, <1>4

-----------------------------------------------------------------------------
(* The parts of Append *)

(* The end of the file is a number. *)
LEMMA FileSizeNat ==
  ASSUME LogShape
  PROVE  FileSize \in Nat
<1>1. log # <<>> => IsPiece(log[Len(log)])  BY SeqShape DEF LogShape
<1> QED  BY <1>1 DEF FileSize, IsPiece

(* A record that was cut short. *)
LEMMA DamagedPiece ==
  ASSUME NEW r, IsPiece(r), NEW n \in Nat
  PROVE  IsPiece([r EXCEPT !.len = n, !.ok = FALSE])
<1>1. ASSUME NEW q, IsPiece(q), NEW ok \in BOOLEAN
      PROVE  IsPiece([q EXCEPT !.ok = ok])
  BY <1>1 DEF IsPiece
<1>2. IsPiece([r EXCEPT !.len = n])  BY DEF IsPiece
<1>3. IsPiece([[r EXCEPT !.len = n] EXCEPT !.ok = FALSE])  BY <1>1, <1>2
<1> QED  BY <1>3

(* The record of a step begins where the file ends, with the LSN of WAL. *)
LEMMA RecordShape ==
  ASSUME LogShape, at \in Appending
  PROVE  /\ IsPiece(RecordOf) /\ RecordOf.ok /\ RecordOf.synced = "no"
         /\ RecordOf.lsn = cur /\ RecordOf.off = FileSize
         /\ at = "commit" => RecordOf.op = "commit" /\ RecordOf.txn = who
         /\ at = "magic" => RecordOf.len = 4
<1>1. cur \in Nat /\ FileSize \in Nat  BY FileSizeNat DEF LogShape
<1>2. ASSUME NEW op \in {"magic", "fullpage", "insert", "clr", "commit", "abort"},
             NEW t, NEW p, NEW img
      PROVE  /\ IsPiece(Piece(op, t, p, img))
             /\ Piece(op, t, p, img).op = op /\ Piece(op, t, p, img).txn = t
             /\ Piece(op, t, p, img).ok /\ Piece(op, t, p, img).synced = "no"
             /\ Piece(op, t, p, img).lsn = cur /\ Piece(op, t, p, img).off = FileSize
             /\ op = "magic" => Piece(op, t, p, img).len = 4
  <2>1. SizeOf(op) \in Nat /\ (op = "magic" => SizeOf(op) = 4)  BY DEF SizeOf
  <2> HIDE DEF SizeOf
  <2> QED  BY <1>1, <2>1 DEF Piece, IsPiece
<1>3. \/ at = "magic" /\ \E img : RecordOf = Piece("magic", 0, MetaPageID, img)
      \/ /\ at \notin {"magic", "commit"}
         /\ \E op \in {"fullpage", "insert", "clr", "abort"} :
              \E t, p, img : RecordOf = Piece(op, t, p, img)
      \/ at = "commit" /\ \E img : RecordOf = Piece("commit", who, MetaPageID, img)
  BY DEF RecordOf, Appending
<1> QED  BY <1>2, <1>3

(* Write: the record is at the end of the file, counted and not yet synced. *)
LEMMA WriteStep ==
  ASSUME LInv, AppendWrite
  PROVE  LInv'
<1> DEFINE r == RecordOf
           n == Len(log)
<1>1. /\ LogShape /\ at \in Appending /\ log' = Append(log, r) /\ hist' = hist
      /\ at' = at /\ io' = "sync" /\ who' = who
      /\ cur' = IF at = "magic" THEN 4 ELSE cur + r.len
  BY DEF AppendWrite, LInv
<1>2. /\ IsPiece(r) /\ r.ok /\ r.synced = "no" /\ r.lsn = cur /\ r.off = FileSize
      /\ at = "commit" => r.op = "commit" /\ r.txn = who
      /\ at = "magic" => r.len = 4
  BY <1>1, RecordShape
<1> HIDE DEF r
<1>3. /\ n \in Nat /\ DOMAIN log = 1 .. n  BY <1>1, SeqShape DEF LogShape
<1>4. /\ IsSeq(log') /\ Len(log') = n + 1 /\ DOMAIN log' = 1 .. n + 1
      /\ log' # <<>> /\ log'[n + 1] = r /\ \A i \in 1 .. n : log'[i] = log[i]
  BY <1>1, AppendShape DEF LogShape
<1>5. LogShape'
  <2>1. cur' \in Nat  BY <1>1, <1>2 DEF LogShape, IsPiece
  <2>2. \A i \in 1 .. n + 1 : IsPiece(log'[i])
    BY <1>1, <1>2, <1>3, <1>4 DEF LogShape
  <2> QED  BY <1>1, <1>4, <2>1, <2>2 DEF LogShape
<1>6. InAppend'  BY <1>1, <1>2, <1>4 DEF InAppend
<1>7. Kept(log, hist.acked)'
  BY <1>1, <1>3, <1>4 DEF Kept, LInv
<1>8. Counted'
  <2> SUFFICES ASSUME ~hist.shifted PROVE cur' = FileSize'
    BY <1>1 DEF Counted
  <2>1. FileSize' = FileSize + r.len  BY <1>2, <1>4 DEF FileSize
  <2>2. cur = FileSize /\ cur \in Nat  BY <1>1 DEF LInv, Counted, LogShape, Appending
  <2>3. at = "magic" => FileSize = 0
    BY DEF LInv, InAppend, AppendWrite, FileSize
  <2> QED  BY <1>1, <1>2, <2>1, <2>2, <2>3
<1>9. LSNIsOffset'
  <2>1. ~hist.shifted => cur = FileSize  BY <1>1 DEF LInv, Counted, Appending
  <2> QED  BY <1>1, <1>2, <1>3, <1>4, <2>1 DEF LSNIsOffset, LInv
<1> QED  BY <1>5, <1>6, <1>7, <1>8, <1>9 DEF LInv

(* The rest of Append when the pieces of the log only change their sync     *)
(* state, and none that was synced loses it.                                *)
LEMMA ReturnStep ==
  ASSUME LInv, at \in Appending, NEW ok \in BOOLEAN, Return(ok), cur' = cur,
         hist' = HistAfter(ok), IsSeq(log'), DOMAIN log' = DOMAIN log, Len(log') = Len(log),
         \A i \in DOMAIN log : \E s :
           /\ log'[i] = [log[i] EXCEPT !.synced = s]
           /\ log[i].synced = "yes" => s = "yes",
         Kept(log', hist'.acked)
  PROVE  LInv'
<1> USE DEF LInv
<1>1. \A i \in DOMAIN log :
        /\ IsPiece(log'[i]) /\ log'[i].ok = log[i].ok /\ log'[i].op = log[i].op
        /\ log'[i].lsn = log[i].lsn /\ log'[i].off = log[i].off /\ log'[i].len = log[i].len
  BY DEF LogShape, IsPiece
<1>2. IsHist(hist') /\ hist'.shifted = hist.shifted
  BY DEF HistAfter, LogShape, IsHist
<1>3. at' \notin {"magic", "down"} /\ io' = "write"
  BY DEF Return, AtAfter, Appending
<1>4. LogShape'  BY <1>1, <1>2 DEF LogShape
<1>5. InAppend'  BY <1>3 DEF InAppend
<1>6. FileSize' = FileSize
  <2>1. log = <<>> <=> log' = <<>>  BY EmptySeq DEF LogShape, IsSeq
  <2>2. log # <<>> => Len(log) \in DOMAIN log  BY SeqShape DEF LogShape
  <2> QED  BY <1>1, <2>1, <2>2 DEF FileSize
<1>7. Counted'  BY <1>2, <1>6 DEF Counted, Appending
<1>8. LSNIsOffset'  BY <1>1, <1>2 DEF LSNIsOffset
<1> QED  BY <1>4, <1>5, <1>7, <1>8

(* Sync: the record is durable, and a commit is acknowledged. *)
LEMMA SyncStep ==
  ASSUME LInv, AppendSync
  PROVE  LInv'
<1>1. /\ at \in Appending /\ io = "sync" /\ cur' = cur /\ hist' = HistAfter(TRUE) /\ Return(TRUE)
      /\ log' = [i \in DOMAIN log |->
           [log[i] EXCEPT !.synced = IF @ = "no" THEN "yes" ELSE @]]
  BY DEF AppendSync
<1>2. Len(log) \in Nat /\ DOMAIN log = 1 .. Len(log) /\ Len(log) \in DOMAIN log
  BY <1>1, SeqShape DEF LInv, LogShape, InAppend
<1>3. IsSeq(log') /\ DOMAIN log' = DOMAIN log /\ Len(log') = Len(log)
  BY <1>1, <1>2, FunctionShape
<1>4. \A i \in DOMAIN log :
        /\ log'[i] = [log[i] EXCEPT !.synced = IF @ = "no" THEN "yes" ELSE @]
        /\ log'[i].synced = IF log[i].synced = "no" THEN "yes" ELSE log[i].synced
        /\ log'[i].op = log[i].op /\ log'[i].txn = log[i].txn /\ log'[i].ok = log[i].ok
  BY <1>1 DEF LInv, LogShape, IsPiece
<1>5. Kept(log', hist'.acked)
  <2>1. hist'.acked = hist.acked \/ (at = "commit" /\ hist'.acked = hist.acked \cup {who})
    BY <1>1 DEF HistAfter, LInv, LogShape, IsHist
  <2>2. Kept(log', hist.acked)  BY <1>3, <1>4 DEF Kept, LInv
  <2>3. at = "commit" => Kept(log', {who})
    <3> SUFFICES ASSUME at = "commit" PROVE Kept(log', {who})  OBVIOUS
    <3>1. LET l == log[Len(log)]
          IN  l.op = "commit" /\ l.txn = who /\ l.ok /\ l.synced = "no"
      BY <1>1 DEF LInv, InAppend
    <3>2. LET l == log'[Len(log)]
          IN  l.op = "commit" /\ l.txn = who /\ l.ok /\ l.synced = "yes"
      BY <1>2, <1>4, <3>1
    <3> QED  BY <1>2, <1>3, <3>2 DEF Kept
  <2> QED  BY <2>1, <2>2, <2>3 DEF Kept
<1> QED  BY <1>1, <1>3, <1>4, <1>5, ReturnStep

(* A failing sync takes nothing back that an earlier one has covered. *)
LEMMA SyncFailsStep ==
  ASSUME LInv, AppendSyncFails
  PROVE  LInv'
<1>1. /\ at \in Appending /\ io = "sync" /\ cur' = cur /\ hist' = HistAfter(FALSE) /\ Return(FALSE)
      /\ log' = [log EXCEPT ![Len(log)].synced = "failed"]
  BY DEF AppendSyncFails
<1>2. /\ Len(log) \in Nat /\ DOMAIN log = 1 .. Len(log) /\ Len(log) \in DOMAIN log
      /\ log[Len(log)].synced = "no"
  BY <1>1, SeqShape DEF LInv, LogShape, InAppend
<1>3. IsSeq(log') /\ DOMAIN log' = DOMAIN log /\ Len(log') = Len(log)
  <2>1. log' = [i \in 1 .. Len(log) |-> log'[i]]  BY <1>1, <1>2
  <2> QED  BY <1>2, <2>1, FunctionShape
<1>4. \A i \in DOMAIN log :
        log'[i] = IF i = Len(log) THEN [log[i] EXCEPT !.synced = "failed"] ELSE log[i]
  BY <1>1, <1>2
<1>5. \A i \in DOMAIN log : \E s :
        /\ log'[i] = [log[i] EXCEPT !.synced = s]
        /\ log[i].synced = "yes" => s = "yes"
  <2> TAKE i \in DOMAIN log
  <2>1. CASE i = Len(log)  BY <1>2, <1>4, <2>1
  <2>2. CASE i # Len(log)
    <3>1. log'[i] = log[i] /\ log[i] = [log[i] EXCEPT !.synced = log[i].synced]
      BY <1>4, <2>2 DEF LInv, LogShape, IsPiece
    <3> QED  BY <3>1
  <2> QED  BY <2>1, <2>2
<1>6. Kept(log', hist'.acked)
  <2>1. hist'.acked = hist.acked  BY <1>1 DEF HistAfter, LInv, LogShape, IsHist
  <2>2. \A i \in DOMAIN log : log[i].synced = "yes" => log'[i] = log[i]
    BY <1>2, <1>4
  <2> QED  BY <1>3, <2>1, <2>2 DEF Kept, LInv
<1> QED  BY <1>1, <1>3, <1>5, <1>6, ReturnStep

(* A failing write leaves nothing, or bytes that shift the later records.   *)
LEMMA WriteFailsStep ==
  ASSUME LInv, AppendWriteFails
  PROVE  LInv'
<1>1. PICK n \in {0, PartLen} :
        /\ log' = IF n = 0 THEN log
                  ELSE Append(log, [RecordOf EXCEPT !.len = n, !.ok = FALSE])
        /\ hist' = [HistAfter(FALSE) EXCEPT !.shifted = @ \/ n # 0 \/ at = "magic"]
  BY DEF AppendWriteFails
<1>2. at \in Appending /\ Return(FALSE) /\ cur' = IF at = "magic" THEN 4 ELSE cur
  BY DEF AppendWriteFails
<1>3. at' \notin {"magic", "down"} /\ io' = "write"
  BY <1>2 DEF Return, AtAfter, Appending
<1>4. IsHist(hist') /\ hist'.acked = hist.acked
  BY <1>1 DEF HistAfter, LInv, LogShape, IsHist
<1>5. /\ hist'.shifted <=> (hist.shifted \/ n # 0 \/ at = "magic")
  BY <1>1 DEF HistAfter, LInv, LogShape, IsHist
<1>6. CASE n = 0
  <2>1. log' = log  BY <1>1, <1>6
  <2>2. LogShape'  BY <1>2, <1>4, <2>1 DEF LInv, LogShape
  <2>3. InAppend'  BY <1>3 DEF InAppend
  <2>4. Counted'  BY <1>2, <1>5, <2>1 DEF LInv, Counted, FileSize, Appending
  <2>5. LSNIsOffset'  BY <1>5, <2>1 DEF LInv, LSNIsOffset
  <2> QED  BY <1>4, <2>1, <2>2, <2>3, <2>4, <2>5 DEF LInv
<1>7. CASE n # 0
  <2> DEFINE r == [RecordOf EXCEPT !.len = n, !.ok = FALSE]
             m == Len(log)
  <2>1. IsPiece(r)
    <3>1. IsPiece(RecordOf) /\ n \in Nat
      BY <1>1, <1>2, RecordShape DEF LInv, PartLen
    <3> QED  BY <3>1, DamagedPiece
  <2> HIDE DEF r
  <2>2. m \in Nat /\ DOMAIN log = 1 .. m  BY SeqShape DEF LInv, LogShape
  <2>3. /\ IsSeq(log') /\ DOMAIN log' = 1 .. m + 1
        /\ log'[m + 1] = r /\ \A i \in 1 .. m : log'[i] = log[i]
    BY <1>1, <1>7, AppendShape DEF LInv, LogShape, r
  <2>4. \A i \in 1 .. m + 1 : IsPiece(log'[i])
    BY <2>1, <2>2, <2>3 DEF LInv, LogShape
  <2>5. LogShape'  BY <1>2, <1>4, <2>3, <2>4 DEF LInv, LogShape
  <2>6. InAppend'  BY <1>3 DEF InAppend
  <2>7. Kept(log', hist'.acked)
    BY <1>4, <2>2, <2>3 DEF LInv, Kept
  <2>8. Counted' /\ LSNIsOffset'  BY <1>5, <1>7 DEF Counted, LSNIsOffset
  <2> QED  BY <2>5, <2>6, <2>7, <2>8 DEF LInv
<1> QED  BY <1>6, <1>7

-----------------------------------------------------------------------------
(* The other steps *)

(* Steps outside Append write nothing to the log. *)
LEMMA QuietStep ==
  ASSUME LInv, log' = log, cur' = cur, IsHist(hist'),
         hist'.acked = hist.acked, hist'.shifted = hist.shifted,
         \/ UNCHANGED <<at, io, who>>
         \/ at \notin Appending \cup {"down"} /\ io' = io /\ at' # "magic"
  PROVE  LInv'
<1> USE DEF LInv
<1>1. LogShape'  BY DEF LogShape
<1>2. InAppend'  BY DEF InAppend
<1>3. Counted'  BY DEF Counted, FileSize
<1>4. LSNIsOffset'  BY DEF LSNIsOffset
<1> QED  BY <1>1, <1>2, <1>3, <1>4

(* NewWAL counts from the end of the file. *)
LEMMA NewWALStep ==
  ASSUME LInv, NewWAL
  PROVE  LInv'
<1> USE DEF LInv, NewWAL
<1>1. FileSize \in Nat  BY FileSizeNat
<1>2. LogShape'  BY <1>1 DEF LogShape
<1>3. InAppend'  BY DEF InAppend, Appending
<1>4. Counted'  BY DEF Counted, FileSize
<1>5. LSNIsOffset'  BY DEF LSNIsOffset
<1> QED  BY <1>2, <1>3, <1>4, <1>5

(* The memory of WAL is lost; acknowledged commits must survive in the log. *)
LEMMA StopStep ==
  ASSUME LInv, Stop, IsHist(hist'), IsSeq(log'),
         hist'.acked = hist.acked, hist'.shifted = hist.shifted,
         \A i \in DOMAIN log' :
           /\ i \in DOMAIN log /\ IsPiece(log'[i])
           /\ log'[i].lsn = log[i].lsn /\ log'[i].off = log[i].off
           /\ log'[i].op = log[i].op /\ (log'[i].ok => log[i].ok),
         \A i \in DOMAIN log : log[i].synced = "yes" => i \in DOMAIN log' /\ log'[i] = log[i]
  PROVE  LInv'
<1> USE DEF LInv
<1>1. at' = "down" /\ io' = "write" /\ cur' = 0  BY DEF Stop
<1>2. LogShape'  BY <1>1 DEF LogShape
<1>3. InAppend'  BY <1>1 DEF InAppend
<1>4. Kept(log', hist'.acked)  BY DEF Kept
<1>5. Counted'  BY <1>1 DEF Counted
<1>6. LSNIsOffset'  BY DEF LSNIsOffset
<1> QED  BY <1>2, <1>3, <1>4, <1>5, <1>6

(* The last synced piece, if any. *)
LEMMA LastSafeIs ==
  ASSUME LogShape
  PROVE  LastSafe \in 0 .. Len(log) /\ \A i \in Safe : i <= LastSafe
<1> DEFINE S == {0} \cup Safe
<1>1. Len(log) \in Nat /\ S \in SUBSET (0 .. Len(log)) /\ S # {}
  BY SeqShape DEF LogShape, Safe
<1>2. LastSafe = CHOOSE x \in S : \A y \in S : x >= y  BY DEF LastSafe, Max
<1> HIDE DEF S
<1>3. PICK z \in S : \A y \in S : y <= z
  BY <1>1, GreatestExists
<1>4. \A y \in S : z >= y  BY <1>1, <1>3
<1>5. LastSafe \in S /\ \A y \in S : LastSafe >= y
  BY <1>2, <1>4
<1>6. \A y \in S : y <= LastSafe  BY <1>1, <1>5
<1> QED  BY <1>1, <1>5, <1>6 DEF S

(* What a power failure leaves of the log: all synced pieces as they were.  *)
LEMMA SurvivingLog ==
  ASSUME LogShape, NEW n \in LastSafe .. Len(log), NEW bad \in SUBSET (1 .. n \ Safe),
         log' = Remains(n, bad)
  PROVE  /\ IsSeq(log')
         /\ \A i \in DOMAIN log' :
              /\ i \in DOMAIN log /\ IsPiece(log'[i])
              /\ log'[i].lsn = log[i].lsn /\ log'[i].off = log[i].off
              /\ log'[i].op = log[i].op /\ (log'[i].ok => log[i].ok)
         /\ \A i \in DOMAIN log : log[i].synced = "yes" => i \in DOMAIN log' /\ log'[i] = log[i]
<1>1. Len(log) \in Nat /\ DOMAIN log = 1 .. Len(log)  BY SeqShape DEF LogShape
<1>2. LastSafe \in 0 .. Len(log) /\ \A i \in Safe : i <= LastSafe  BY LastSafeIs
<1>3. n \in Nat /\ n <= Len(log)  BY <1>1, <1>2
<1>4. \A i \in Safe : i \in 1 .. n  BY <1>1, <1>2, <1>3 DEF Safe
<1>5. IsSeq(log') /\ DOMAIN log' = 1 .. n
  <2>1. log' = [i \in 1 .. n |-> log'[i]]  BY DEF Remains
  <2> QED  BY <1>3, <2>1, FunctionShape
<1>6. ASSUME NEW i \in 1 .. n
      PROVE  /\ i \in DOMAIN log /\ IsPiece(log'[i])
             /\ log'[i].lsn = log[i].lsn /\ log'[i].off = log[i].off
             /\ log'[i].op = log[i].op /\ (log'[i].ok => log[i].ok)
  <2>1. i \in DOMAIN log /\ IsPiece(log[i])  BY <1>1, <1>3 DEF LogShape
  <2>2. CASE i \notin bad
    <3>1. log'[i] = log[i]  BY <2>2 DEF Remains
    <3> QED  BY <2>1, <3>1
  <2>3. CASE i \in bad
    <3>1. PICK m \in Nat : log'[i] = [log[i] EXCEPT !.len = m, !.ok = FALSE]
      BY <2>1, <2>3 DEF Remains, PartLen, IsPiece
    <3>2. IsPiece(log'[i])
      <4>1. IsPiece([log[i] EXCEPT !.len = m, !.ok = FALSE])  BY <2>1, DamagedPiece
      <4> QED  BY <3>1, <4>1
    <3>3. /\ log'[i].lsn = log[i].lsn /\ log'[i].off = log[i].off
          /\ log'[i].op = log[i].op /\ log'[i].ok = FALSE
      BY <2>1, <3>1 DEF IsPiece
    <3> QED  BY <2>1, <3>2, <3>3
  <2> QED  BY <2>2, <2>3
<1>7. ASSUME NEW i \in Safe PROVE i \in DOMAIN log' /\ log'[i] = log[i]
  BY <1>4, <1>5 DEF Remains
<1> QED  BY <1>5, <1>6, <1>7 DEF Safe

-----------------------------------------------------------------------------
(* The invariant *)

LEMMA LInvInit == Init => LInv
<1> SUFFICES ASSUME Init PROVE LInv  OBVIOUS
<1>1. IsSeq(log) /\ DOMAIN log = {}
  <2>1. log \in Seq({log[i] : i \in DOMAIN log})  BY EmptySeq DEF Init
  <2>2. Len(log) = 0  BY DEF Init
  <2> QED  BY <2>1, <2>2, SeqShape DEF IsSeq
<1>2. LogShape  BY <1>1 DEF Init, LogShape, IsHist
<1> QED  BY <1>1, <1>2 DEF Init, LInv, InAppend, Kept, Counted, LSNIsOffset

LEMMA LInvStep ==
  ASSUME LInv, [Next]_vars
  PROVE  LInv'
<1>h. IsHist(hist) /\ hist.acked = hist.acked  BY DEF LInv, LogShape
<1>1. CASE AppendWrite  BY <1>1, WriteStep
<1>2. CASE AppendWriteFails  BY <1>2, WriteFailsStep
<1>3. CASE AppendSync  BY <1>3, SyncStep
<1>4. CASE AppendSyncFails  BY <1>4, SyncFailsStep
<1>5. CASE NewWAL  BY <1>5, NewWALStep
<1>6. CASE Recover
  <2>1. /\ log' = log /\ cur' = cur /\ io' = io /\ at = "recover" /\ at' \in {"failed", "undo"}
        /\ hist' = hist \/ \E S : hist' = [hist EXCEPT !.seen = S]
    BY <1>6 DEF Recover
  <2>2. IsHist(hist') /\ hist'.acked = hist.acked /\ hist'.shifted = hist.shifted
    BY <1>h, <2>1 DEF IsHist
  <2> QED  BY <2>1, <2>2, QuietStep DEF Appending
<1>7. CASE Undo
  <2>1. /\ log' = log /\ cur' = cur /\ io' = io /\ hist' = hist
        /\ at = "undo" /\ at' # "magic"
    BY <1>7 DEF Undo
  <2> QED  BY <1>h, <2>1, QuietStep DEF Appending
<1>8. CASE UndoEnd \/ ReadRoot \/ AllocateMeta \/ AllocateRoot
  <2>1. /\ log' = log /\ cur' = cur /\ io' = io /\ hist' = hist
        /\ at \in {"undo", "stat", "allocRoot"} /\ at' # "magic"
    BY <1>8 DEF UndoEnd, ReadRoot, AllocateMeta, AllocateRoot
  <2> QED  BY <1>h, <2>1, QuietStep DEF Appending
<1>9. ASSUME NEW t \in Txn, Set(t) \/ Commit(t) PROVE LInv'
  <2>1. /\ log' = log /\ cur' = cur /\ io' = io /\ hist' = hist
        /\ at = "up" /\ at' # "magic"
    BY <1>9 DEF Set, Commit
  <2> QED  BY <1>h, <2>1, QuietStep DEF Appending
<1>10. ASSUME NEW p \in PageID, Evict(p) \/ WriteBack(p) PROVE LInv'
  BY <1>h, <1>10, QuietStep DEF Evict, WriteBack
<1>11. CASE Close \/ ProcessCrash
  <2>1. Stop /\ log' = log /\ (hist' = hist \/ hist' = [hist EXCEPT !.cut = CutNow])
    BY <1>11 DEF Close, ProcessCrash
  <2>2. IsHist(hist') /\ hist'.acked = hist.acked /\ hist'.shifted = hist.shifted
    BY <1>h, <2>1 DEF IsHist
  <2>3. IsSeq(log') /\ \A i \in DOMAIN log' : i \in DOMAIN log /\ IsPiece(log'[i])
    BY <2>1 DEF LInv, LogShape
  <2> QED  BY <2>1, <2>2, <2>3, StopStep
<1>12. CASE PowerFailure
  <2>1. PICK n \in LastSafe .. Len(log) : \E bad \in SUBSET (1 .. n \ Safe) :
          log' = Remains(n, bad)
    BY <1>12 DEF PowerFailure
  <2>2. PICK bad \in SUBSET (1 .. n \ Safe) : log' = Remains(n, bad)
    BY <2>1
  <2>3. Stop /\ hist' = [hist EXCEPT !.cut = CutNow, !.shrunk = @ \/ disk # db]
    BY <1>12 DEF PowerFailure
  <2>4. IsHist(hist') /\ hist'.acked = hist.acked /\ hist'.shifted = hist.shifted
    BY <1>h, <2>3 DEF IsHist
  <2> QED  BY <2>2, <2>3, <2>4, SurvivingLog, StopStep DEF LInv
<1>13. CASE UNCHANGED vars
  BY <1>h, <1>13, QuietStep DEF vars
<1> QED
  BY <1>1, <1>2, <1>3, <1>4, <1>5, <1>6, <1>7, <1>8, <1>9, <1>10, <1>11, <1>12, <1>13
  DEF Next, Progress

LEMMA LogInvariance == Spec => []LInv
<1>1. LInv /\ [Next]_vars => LInv'  BY LInvStep
<1> QED  BY <1>1, LInvInit, PTL DEF Spec

(* The commit record of a transaction for which Append returned no error is *)
(* in the log, whole, after any number of crashes, torn tails, failing      *)
(* writes and syncs, and restarts.                                          *)
THEOREM AckedInLogHolds == Spec => []AckedInLog
<1>1. LInv => AckedInLog  BY DEF LInv, Kept, AckedInLog
<1> QED  BY <1>1, LogInvariance, PTL

(* NewWAL and Append keep LSNs equal to byte offsets, torn tails included,  *)
(* until a write fails half way.                                            *)
THEOREM LSNIsOffsetHolds == Spec => []LSNIsOffset
<1>1. LInv => LSNIsOffset  BY DEF LInv
<1> QED  BY <1>1, LogInvariance, PTL
=============================================================================
