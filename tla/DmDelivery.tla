----------------------------- MODULE DmDelivery -----------------------------
(***************************************************************************)
(* The delivery life cycle of one outbound direct message and the volatile *)
(* owner record the Mesh task keeps for it: main/mesh/dm_delivery_state.c. *)
(* Pure definitions, used by DmRows, DmStore and DmRuntime.                *)
(***************************************************************************)
EXTENDS Naturals

(* d1l_dm_delivery_state_t, without the STATE_COUNT sentinel.              *)
DeliveryStates ==
  {"NOT_APPLICABLE", "QUEUED", "WAITING_RADIO", "TX_ACTIVE", "TX_DONE",
   "AWAITING_ACK", "ACKNOWLEDGED", "RETRY_WAIT", "RETRY_TX", "FAILED_RADIO",
   "FAILED_TIMEOUT", "FAILED_QUEUE", "INTERRUPTED_BY_REBOOT", "CANCELLED"}

(* The successors the switch of d1l_dm_delivery_transition_allowed lists;  *)
(* the ACKNOWLEDGED edges are the separate rule above the switch.          *)
SuccessorsOf ==
  LET failed == {"QUEUED", "RETRY_WAIT", "CANCELLED"}
  IN [s \in DeliveryStates |->
       CASE s = "QUEUED"        -> {"WAITING_RADIO", "FAILED_QUEUE", "CANCELLED"}
         [] s = "WAITING_RADIO" -> {"TX_ACTIVE", "FAILED_QUEUE", "RETRY_WAIT", "CANCELLED"}
         [] s = "TX_ACTIVE"     -> {"TX_DONE", "FAILED_RADIO", "RETRY_WAIT", "CANCELLED"}
         [] s = "TX_DONE"       -> {"AWAITING_ACK", "RETRY_WAIT", "FAILED_TIMEOUT", "CANCELLED"}
         [] s = "AWAITING_ACK"  -> {"RETRY_WAIT", "FAILED_TIMEOUT", "CANCELLED"}
         [] s = "RETRY_WAIT"    -> {"RETRY_TX", "FAILED_TIMEOUT", "CANCELLED"}
         [] s = "RETRY_TX"      -> {"WAITING_RADIO", "TX_ACTIVE", "FAILED_QUEUE",
                                    "FAILED_RADIO", "RETRY_WAIT", "CANCELLED"}
         [] s \in {"FAILED_RADIO", "FAILED_TIMEOUT", "FAILED_QUEUE"} -> failed
         [] s = "INTERRUPTED_BY_REBOOT" -> failed \union {"FAILED_TIMEOUT"}
         [] OTHER -> {}]

TransitionAllowed(from, to) ==
  /\ from # to
  /\ from # "NOT_APPLICABLE"
  /\ \/ /\ to = "ACKNOWLEDGED"
        /\ from \notin {"FAILED_QUEUE", "CANCELLED"}
     \/ to \in SuccessorsOf[from]

InterruptedByReboot(s) ==
  s \in {"WAITING_RADIO", "TX_ACTIVE", "TX_DONE", "AWAITING_ACK", "RETRY_TX"}

Terminal(s) ==
  s \in {"ACKNOWLEDGED", "FAILED_RADIO", "FAILED_TIMEOUT", "FAILED_QUEUE",
         "INTERRUPTED_BY_REBOOT", "CANCELLED"}

-----------------------------------------------------------------------------
(* d1l_dm_delivery_owner_t: "active" is having a session at all.           *)
NoSession == 0
NoOwner == [session |-> NoSession, rev |-> 0, hash |-> 0, state |-> "NOT_APPLICABLE"]

OwnerActive(owner) == owner.session # NoSession

(* d1l_dm_delivery_owner_begin of an inactive owner.                       *)
OwnerBegin(session, hash) ==
  [session |-> session, rev |-> 1, hash |-> hash, state |-> "QUEUED"]

(* d1l_dm_delivery_owner_apply: when it answers true ...                   *)
OwnerAccepts(owner, session, expectedRev, next, nextRev) ==
  /\ OwnerActive(owner)
  /\ owner.session = session
  /\ owner.rev = expectedRev
  /\ nextRev = expectedRev + 1
  /\ TransitionAllowed(owner.state, next)
  /\ next = "ACKNOWLEDGED" => owner.state = "AWAITING_ACK"

(* ... and what it then writes.                                            *)
OwnerAfter(owner, next, nextRev) == [owner EXCEPT !.state = next, !.rev = nextRev]

OwnerAckMatches(owner, hash) ==
  /\ OwnerActive(owner)
  /\ owner.state = "AWAITING_ACK"
  /\ owner.hash = hash
=============================================================================
