------------------------------ MODULE MCParts -------------------------------
(***************************************************************************)
(* Three more parts of the firmware, checked for safety: the Mesh task's   *)
(* loop, a store's files on the card with the factory reset, and the boot  *)
(* of the retained partition.  They share no variable, so a behaviour runs *)
(* one of them, picked at the start.                                       *)
(***************************************************************************)
EXTENDS OwnerLoop, CardStore, RetainedPartition, TLC

CONSTANTS c1, c2

VARIABLE part

TheCards == {c1, c2}
Interchangeable == Permutations(TheCards)

vars == <<part, laneVars, cardVars, partitionVars>>

Init ==
  /\ part \in {"loop", "card", "partition"}
  /\ LaneInit /\ PartitionInit /\ CardInit
  /\ part # "card" => \A c \in Cards : current[c] = 0
  /\ part # "partition" => region = "blank" /\ meta = Blanks /\ legacy = 0

InLoop(A) == part = "loop" /\ A /\ UNCHANGED <<part, cardVars, partitionVars>>
InCard(A) == part = "card" /\ A /\ UNCHANGED <<part, laneVars, partitionVars>>
InPartition(A) == part = "partition" /\ A /\ UNCHANGED <<part, laneVars, cardVars>>

Next == InLoop(LaneNext) \/ InCard(CardNext) \/ InPartition(PartitionNext)

Spec == Init /\ [][Next]_vars

(* The three parts' variables keep their types, their queues, counters and *)
(* generations their bounds.                                               *)
PartsTypeOK == LaneTypeOK /\ CardTypeOK /\ PartitionTypeOK
=============================================================================
