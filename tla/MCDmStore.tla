----------------------------- MODULE MCDmStore ------------------------------
(***************************************************************************)
(* DmStore on small instances.  A card may come from another device: its   *)
(* lineage and epoch are its own, or those of a history never cleared, as  *)
(* this device's is; an upgraded device counted epochs without lineages.   *)
(* OldFirmware left a snapshot in NVS, of a history that was never         *)
(* cleared.                                                                *)
(***************************************************************************)
EXTENDS DmStore

CONSTANTS card1, d1, d2


ForeignBlob ==
  [epoch |-> 2, crev |-> 4, lineage |-> 9, nextSeq |-> 2,
   rows |-> {[RxRow(1, d1) EXCEPT !.ackSt = "SENT", !.ackN = 1]}]
BlankCards == {NoBlob}
UpgradedBlob == [ForeignBlob EXCEPT !.lineage = 0, !.epoch = 3]
KinBlob ==
  [epoch |-> 1, crev |-> 2, lineage |-> 0, nextSeq |-> 3,
   rows |-> {[RxRow(2, d1) EXCEPT !.ackSt = "TERMINAL", !.ackN = 2]}]
MixedCards == {NoBlob, ForeignBlob, UpgradedBlob, KinBlob}

OldSnapshot ==
  [epoch |-> 1, crev |-> 3, lineage |-> 0, nextSeq |-> 3,
   rows |-> {[RxRow(1, d1) EXCEPT !.ackSt = "PENDING", !.ackN = 1], RxRow(2, d2)}]
NewDevice == {NoBlob}
OldFirmware == {OldSnapshot}
=============================================================================
