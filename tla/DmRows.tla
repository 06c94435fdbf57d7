------------------------------- MODULE DmRows -------------------------------
(***************************************************************************)
(* The rows of the direct-message history, the persisted blob, and how a   *)
(* copy read from an SD card is merged into the rows in RAM: the pure part *)
(* of main/mesh/dm_store.c.                                                *)
(*                                                                         *)
(* The ring buffer keeps its rows in increasing seq order, so it is a set  *)
(* of rows here; "the oldest" is the row with the smallest seq.  A row     *)
(* keeps the fields decisions depend on.  Message text, contact, radio     *)
(* metadata, error codes, the attempt and the display counters             *)
(* total_written and dropped_oldest are abstracted away.                   *)
(***************************************************************************)
EXTENDS DmDelivery, FiniteSets

CONSTANTS
  Capacity,      \* D1L_DM_STORE_CAPACITY
  Digests        \* identity digests of inbound messages

ASSUME CapacityAssumption == Capacity \in Nat \ {0}

(* D1L_DM_ACK_DISPATCH_MAX: how many ACKs one inbound message may cost.    *)
AckDispatchMax == 2

AckStates == {"LEGACY", "PENDING", "SENT", "RETRYABLE", "TERMINAL"}

(* A row of d1l_dm_entry_t.  id is the delivery session of an outbound row *)
(* and the identity digest of an inbound one; hash is the outbound ACK     *)
(* hash, which a flood retry rebinds.                                      *)
TxRow(seq, session) ==
  [seq |-> seq, dir |-> "tx", id |-> session, hash |-> 0, st |-> "QUEUED",
   rev |-> 1, ackSt |-> "LEGACY", ackN |-> 0]

RxRow(seq, digest) ==
  [seq |-> seq, dir |-> "rx", id |-> digest, hash |-> 0,
   st |-> "NOT_APPLICABLE", rev |-> 0, ackSt |-> "RETRYABLE", ackN |-> 0]

Ids(rows) == {r.id : r \in rows}
Seqs(rows) == {r.seq : r \in rows}
RowWithId(rows, id) == CHOOSE r \in rows : r.id = id
Oldest(rows) == CHOOSE r \in rows : \A s \in rows : r.seq <= s.seq
Latest(rows) == CHOOSE r \in rows : \A s \in rows : s.seq <= r.seq
Newest(rows, n) == {r \in rows : Cardinality({s \in rows : s.seq >= r.seq}) <= n}
Larger(a, b) == IF a >= b THEN a ELSE b

-----------------------------------------------------------------------------
(* A blob: d1l_dm_store_blob_t.  EmptyBlob is what reset_store_locked      *)
(* leaves in RAM.                                                          *)
EmptyBlob ==
  [epoch |-> 1, crev |-> 1, lineage |-> 0, nextSeq |-> 1, rows |-> {}]

(* ack_metadata_is_valid and delivery_metadata_is_valid.                   *)
AckMetadataValid(r) ==
  IF r.dir = "tx"
  THEN r.ackSt = "LEGACY" /\ r.ackN = 0
  ELSE \/ r.ackSt \in {"PENDING", "SENT"} /\ r.ackN \in 1 .. AckDispatchMax
       \/ r.ackSt = "RETRYABLE" /\ r.ackN \in {0, 1}
       \/ r.ackSt = "TERMINAL"  /\ r.ackN = AckDispatchMax

DeliveryMetadataValid(r) ==
  IF r.dir = "tx"
  THEN r.st \in DeliveryStates \ {"NOT_APPLICABLE"} /\ r.rev > 0
  ELSE r.st = "NOT_APPLICABLE" /\ r.rev = 0

(* blob_layout_is_valid: a blob that fails it is lost at the next boot.    *)
BlobValid(b) ==
  /\ b.epoch > 0 /\ b.crev > 0 /\ b.nextSeq > 0
  /\ Cardinality(b.rows) <= Capacity
  /\ \A r \in b.rows : /\ r.seq > 0 /\ r.seq < b.nextSeq
                       /\ AckMetadataValid(r)
                       /\ DeliveryMetadataValid(r)
  /\ \A r, s \in b.rows : r # s => r.seq # s.seq /\ r.id # s.id

-----------------------------------------------------------------------------
(* What a reboot does to the rows it loads.                                *)
AckAlwaysRetryable(r) ==     \* mutant: the budget is not looked at
  IF r.dir = "rx" /\ r.ackSt = "PENDING" THEN [r EXCEPT !.ackSt = "RETRYABLE"] ELSE r

NormalizedAck(r) ==
  IF r.dir = "rx" /\ r.ackSt = "PENDING"
  THEN [r EXCEPT !.ackSt = IF r.ackN >= AckDispatchMax THEN "TERMINAL"
                                                       ELSE "RETRYABLE"]
  ELSE r

NormalizedDelivery(r) ==
  IF r.dir = "tx" /\ InterruptedByReboot(r.st)
  THEN [r EXCEPT !.st = "INTERRUPTED_BY_REBOOT", !.rev = @ + 1]
  ELSE r

(* normalize_interrupted_ack_locked then normalize_interrupted_delivery:   *)
(* each counts one content revision when it changed a row.                 *)
Normalized(b) ==
  LET acks == {NormalizedAck(r) : r \in b.rows}
      rows == {NormalizedDelivery(r) : r \in acks}
      bump(changed) == IF changed THEN 1 ELSE 0
  IN [b EXCEPT !.rows = rows,
               !.crev = @ + bump(acks # b.rows) + bump(rows # acks)]

-----------------------------------------------------------------------------
(* Merging two copies of one row.                                          *)
AckRank(s) ==
  CASE s = "TERMINAL" -> 4 [] s = "SENT" -> 3 [] s = "RETRYABLE" -> 2
    [] s = "PENDING" -> 1 [] OTHER -> 0

MergeAckByRevision(dest, src, srcNewer) ==   \* mutant: the budget is not compared
  IF dest.dir = "rx" /\ srcNewer
  THEN [dest EXCEPT !.ackSt = src.ackSt, !.ackN = src.ackN]
  ELSE dest

MergeAck(dest, src, srcNewer) ==
  IF /\ dest.dir = "rx"
     /\ \/ src.ackN > dest.ackN
        \/ /\ src.ackN = dest.ackN
           /\ \/ AckRank(src.ackSt) > AckRank(dest.ackSt)
              \/ srcNewer /\ src.ackSt = dest.ackSt
  THEN [dest EXCEPT !.ackSt = src.ackSt, !.ackN = src.ackN]
  ELSE dest

MergeDelivery(dest, src, srcNewer) ==
  IF /\ dest.dir = "tx"
     /\ src.rev > dest.rev \/ (srcNewer /\ src.rev = dest.rev)
  THEN [dest EXCEPT !.st = src.st, !.rev = src.rev]
  ELSE dest

MergeRow(dest, src, srcNewer) ==
  MergeDelivery(MergeAck(dest, src, srcNewer), src, srcNewer)

(* delivery_session_id_conflicts: the same session with another ACK hash.  *)
SessionConflict(rows, others) ==
  \E r \in rows, s \in others : r.id = s.id /\ r.hash # s.hash

-----------------------------------------------------------------------------
(* merge_same_epoch_locked.  bootNext is s_boot_next_seq while the store   *)
(* has been mutated since init, and larger than every seq otherwise: rows  *)
(* at or above it are live rows of this boot, which give way to an SD row  *)
(* that claims the same seq; an older row keeps its seq and the SD row     *)
(* moves.                                                                  *)
MergeSameEpoch(ram, prim, bootNext) ==
  LET newer    == prim.crev > ram.crev
      unknown  == {c \in prim.rows : c.id \notin Ids(ram.rows)}
      clashing == {c \in unknown : c.seq \in Seqs(ram.rows)}
      base     == Larger(ram.nextSeq, prim.nextSeq)
      fresh(seq) == base + Cardinality({c \in clashing : c.seq < seq})
      merged(r) == IF r.id \in Ids(prim.rows)
                   THEN MergeRow(r, RowWithId(prim.rows, r.id), newer)
                   ELSE r
      moved(r, yields) == IF yields THEN [r EXCEPT !.seq = fresh(r.seq)] ELSE r
      own   == {moved(merged(r), r.seq \in Seqs(clashing) /\ r.seq >= bootNext) :
                  r \in ram.rows}
      added == {moved(c, c \in clashing /\ c.seq < bootNext) : c \in unknown}
      result == [ram EXCEPT !.rows = Newest(own \union added, Capacity),
                            !.nextSeq = base + Cardinality(clashing),
                            !.crev = Larger(ram.crev, prim.crev)]
  IN IF result = ram THEN ram ELSE [result EXCEPT !.crev = @ + 1]

(* The other branch of merge_primary_locked: the SD copy wins the history. *)
(* Its rows absorb what RAM knows of them; of the rest only live rows and  *)
(* pending ACK reservations are appended again, oldest first.              *)
Absorb(b, r, bootNext) ==
  IF r.id \in Ids(b.rows)
  THEN [b EXCEPT !.rows = {IF s.id = r.id THEN MergeRow(s, r, TRUE) ELSE s : s \in b.rows}]
  ELSE IF r.seq >= bootNext \/ r.ackSt = "PENDING"
  THEN [b EXCEPT !.rows = Newest(b.rows \union {[r EXCEPT !.seq = b.nextSeq]}, Capacity),
                 !.nextSeq = @ + 1]
  ELSE b

MergeDominating(ram, prim, bootNext) ==
  LET overlay == {r \in ram.rows : r.dir = "rx" \/ r.seq >= bootNext}
      absorbed[rows \in SUBSET overlay] ==
        IF rows = {} THEN prim
        ELSE Absorb(absorbed[rows \ {Latest(rows)}], Latest(rows), bootNext)
      result == [absorbed[overlay] EXCEPT !.crev = Larger(@, ram.crev)]
      differs == result # prim \/ \E r \in ram.rows : r.seq >= bootNext
  IN IF differs THEN [result EXCEPT !.crev = @ + 1] ELSE prim

(* merge_primary_locked: the merged blob, or ram itself when the SD copy   *)
(* is refused.  authoritative is s_device_lineage_authoritative.           *)
RefusedByEpochOnly(ram, prim, authoritative) ==   \* mutant: any lineage is let in
  prim.lineage = ram.lineage /\ prim.epoch < ram.epoch

MergeRefused(ram, prim, authoritative) ==
  \/ authoritative /\ prim.lineage # ram.lineage
  \/ prim.lineage = ram.lineage /\ prim.epoch < ram.epoch

(* The overlay of the dominating branch holds only these rows.             *)
MergeFails(ram, prim, authoritative, bootNext) ==
  LET compared == IF prim.lineage = ram.lineage /\ prim.epoch = ram.epoch
                  THEN ram.rows
                  ELSE {r \in ram.rows : r.seq >= bootNext}
  IN /\ ~MergeRefused(ram, prim, authoritative)
     /\ SessionConflict(compared, prim.rows)

MergePrimary(ram, prim, authoritative, bootNext) ==
  IF MergeRefused(ram, prim, authoritative) THEN ram
  ELSE IF prim.lineage = ram.lineage /\ prim.epoch = ram.epoch
       THEN MergeSameEpoch(ram, prim, bootNext)
       ELSE MergeDominating(ram, prim, bootNext)
=============================================================================
