----------------------------- MODULE DmOutcome -----------------------------
(***************************************************************************)
(* What a device promises about the direct messages it sends, without the  *)
(* store, the radio and the peer.  One message is in the sender's hands at *)
(* a time.  It is transmitted at most twice and its outcome is decided     *)
(* once: acknowledged, after a transmission, or failed.  The effects of an *)
(* acknowledgement run once.  A reboot may undo a failure or lose a        *)
(* message, but never an acknowledgement it has shown while the card was   *)
(* in the slot, as long as the card stays there.                           *)
(***************************************************************************)
EXTENDS Naturals

CONSTANTS
  Messages,
  None        \* no message, not in Messages

VARIABLES
  outcome,    \* what the history shows of each message
  onAir,      \* how often it was transmitted
  credited,   \* whether the effects of its ACK have run
  current,    \* the message being delivered, or None
  card        \* whether the SD card is in the slot

vars == <<outcome, onAir, credited, current, card>>

Outcomes == {"unsent", "open", "acknowledged", "failed", "forgotten"}

Init ==
  /\ outcome = [m \in Messages |-> "unsent"]
  /\ onAir = [m \in Messages |-> 0]
  /\ credited = [m \in Messages |-> FALSE]
  /\ current = None
  /\ card \in BOOLEAN

Decide(m, result) == outcome' = [outcome EXCEPT ![m] = result]

Submit(m) ==
  /\ current = None
  /\ outcome[m] = "unsent"
  /\ Decide(m, "open")
  /\ current' = m
  /\ UNCHANGED <<onAir, credited, card>>

Transmit(m) ==
  /\ current = m
  /\ outcome[m] \in {"open", "forgotten"}
  /\ onAir[m] < 2
  /\ onAir' = [onAir EXCEPT ![m] = @ + 1]
  /\ UNCHANGED <<outcome, credited, current, card>>

Acknowledge(m) ==
  /\ current = m
  /\ outcome[m] = "open" /\ onAir[m] > 0
  /\ Decide(m, "acknowledged")
  /\ UNCHANGED <<onAir, credited, current, card>>

Credit(m) ==
  /\ current = m
  /\ outcome[m] = "acknowledged" /\ ~credited[m]
  /\ credited' = [credited EXCEPT ![m] = TRUE]
  /\ current' = None
  /\ UNCHANGED <<outcome, onAir, card>>

Fail(m) ==
  /\ current = m
  /\ outcome[m] = "open"
  /\ Decide(m, "failed")
  /\ current' = None
  /\ UNCHANGED <<onAir, credited, card>>

Abandon(m) ==
  /\ current = m
  /\ outcome[m] = "forgotten"
  /\ current' = None
  /\ UNCHANGED <<outcome, onAir, credited, card>>

Forget ==
  /\ outcome' = [m \in Messages |->
                   IF outcome[m] = "unsent" THEN "unsent" ELSE "forgotten"]
  /\ UNCHANGED <<onAir, credited, current, card>>

(* A reboot without the card shows nothing, one with it what was saved on  *)
(* it: an acknowledgement shown with the card in the slot for sure, of any *)
(* other message whatever was saved last.                                  *)
AfterReboot(m) ==
  CASE outcome[m] = "unsent" -> {"unsent"}
    [] outcome[m] # "unsent" /\ ~card' -> {"forgotten"}
    [] outcome[m] = "acknowledged" /\ card /\ card' -> {"acknowledged"}
    [] OTHER -> {"open", "failed", "forgotten"}
                \union (IF onAir[m] > 0 THEN {"acknowledged"} ELSE {})

Reboot ==
  /\ card' \in BOOLEAN
  /\ outcome' \in [Messages -> Outcomes]
  /\ \A m \in Messages : outcome'[m] \in AfterReboot(m)
  /\ current' = None
  /\ UNCHANGED <<onAir, credited>>

Next ==
  \/ \E m \in Messages :
       \/ Submit(m) \/ Transmit(m) \/ Acknowledge(m)
       \/ Credit(m) \/ Fail(m) \/ Abandon(m)
  \/ Forget \/ Reboot

Spec == Init /\ [][Next]_vars
=============================================================================
