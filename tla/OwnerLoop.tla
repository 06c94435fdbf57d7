----------------------------- MODULE OwnerLoop ------------------------------
(***************************************************************************)
(* The Mesh task's loop and the ways work reaches it (meshcore_service_task*)
(* in main/mesh/meshcore_service.c, main/mesh/meshcore_runtime_guard.h):   *)
(* the end of a transmission, reported by the radio's interrupt task       *)
(* through a bit of the lane word and a slot of the callback history, and  *)
(* three queues: radio events, priority commands and normal commands.      *)
(* The loop reserves the lane before it takes ordinary work and looks      *)
(* again before it runs it.  The patched driver                            *)
(* (patches/sensecap_indicator_tx_origin.patch) binds an interrupt to the  *)
(* transmission it ends.  What the handlers do to messages is in DmRuntime *)
(* and MeshRequests; here they start transmissions and restart reception.  *)
(* The recovery of a faulty radio bus is left out, and with it a restart of*)
(* reception that a faulty radio refuses.                                  *)
(***************************************************************************)
EXTENDS Integers, Sequences, FiniteSets

CONSTANTS
  HistoryLength,   \* D1L_MESHCORE_TX_ORIGIN_HISTORY_LEN
  RadioBurst,      \* D1L_MESH_OWNER_RADIO_EVENT_BURST_MAX
  PriorityBurst,   \* D1L_MESH_OWNER_PRIORITY_COMMAND_BURST_MAX
  LaneDepth,       \* length of the three queues
  MaxOperations,   \* bounds of the model: transmissions,
  MaxAcksCounted   \* urgent ACKs that one wait counts

ASSUME LanesAssumption ==
  /\ HistoryLength \in Nat \ {0} /\ LaneDepth \in Nat \ {0}
  /\ RadioBurst \in Nat /\ PriorityBurst \in Nat
  /\ MaxOperations \in Nat /\ MaxAcksCounted \in Nat

VARIABLES
  lane,        \* s_terminal_lane: slots with a terminal, the owner's reservation
  history,     \* s_callback_tx_history
  active,      \* s_active_radio_tx, s_tx_busy: the operation and its kind
  origin,      \* the driver's RadioTxOrigin
  irq,         \* the interrupt task (which holds RadioIrqRecoveryClaim)
  queues,      \* s_radio_event_queue, s_priority_command_queue, s_service_queue
  held,        \* held_cmd
  loop,        \* the Mesh task: where it is, what it has in hand
  rx,          \* s_pending_rx_recovery; whether the radio listens
  ackPending,  \* s_pending_ack_tx.active
  burst,       \* the scheduler's two burst counters
  nextOp,      \* s_next_radio_tx_operation_id
  reported,    \* ghost: how each operation ended, as the radio reported it,
  ended,       \*        and as the owner recorded it
  passedOver   \* ghost: works run before a waiting normal command, and how
               \*   many of them are urgent ACKs

laneVars == <<lane, history, active, origin, irq, queues, held, loop, rx,
              ackPending, burst, nextOp, reported, ended, passedOver>>
ghosts == <<reported, ended, passedOver>>

Operations == 1 .. MaxOperations
HistorySlots == 0 .. HistoryLength - 1
SlotOf(op) == (op - 1) % HistoryLength
Lanes == {"radio", "priority", "normal"}

NoCommand == [lane |-> "none", kind |-> "none"]
Silent == [op |-> 0, kind |-> "none"]
NoneBefore == [works |-> 0, acks |-> 0]
NoIrq == [pc |-> "idle", op |-> 0, how |-> "NONE"]
TopOfLoop == [pc |-> "take", cmd |-> NoCommand, pending |-> {}, fromHeld |-> FALSE, rx |-> FALSE]

LaneInit ==
  /\ lane = [pending |-> {}, reserved |-> FALSE]
  /\ history = [k \in HistorySlots |-> [op |-> 0, term |-> "NONE"]]
  /\ active = Silent
  /\ origin = 0
  /\ irq = NoIrq
  /\ queues = [q \in Lanes |-> <<>>]
  /\ held = NoCommand
  /\ loop = TopOfLoop
  /\ rx = [recovery |-> FALSE, listening |-> TRUE]
  /\ ackPending = FALSE
  /\ burst = [radio |-> 0, priority |-> 0]
  /\ nextOp = 0
  /\ reported = [op \in Operations |-> "NONE"]
  /\ ended = [op \in Operations |-> "NONE"]
  /\ passedOver = NoneBefore

Busy == active.op # 0
HasRoom(q) == Len(queues[q]) < LaneDepth
Enqueue(q, cmd) == queues' = [queues EXCEPT ![q] = Append(@, cmd)]
Afterwards(next) == loop' = [TopOfLoop EXCEPT !.pc = next]
LoopAt(label) == loop.pc = label
LoopGoes(label) == loop' = [loop EXCEPT !.pc = label]

-----------------------------------------------------------------------------
(* Other tasks send commands.                                              *)
SendNormal(kind) ==
  /\ HasRoom("normal")
  /\ Enqueue("normal", [lane |-> "normal", kind |-> kind])
  /\ UNCHANGED <<lane, history, active, origin, irq, held, loop, rx, ackPending, burst, nextOp, ghosts>>

SendPriority(kind) ==
  /\ HasRoom("priority")
  /\ Enqueue("priority", [lane |-> "priority", kind |-> kind])
  /\ UNCHANGED <<lane, history, active, origin, irq, held, loop, rx, ackPending, burst, nextOp, ghosts>>

-----------------------------------------------------------------------------
(* The interrupt task.  A packet arrives (on_rx_done, on_rx_error), after  *)
(* which the radio may be deaf until reception is restarted: when the      *)
(* queue is full the event is dropped and a recovery asked for.            *)
PacketArrives ==
  /\ irq.pc = "idle" /\ rx.listening
  /\ \E on \in BOOLEAN :
       IF HasRoom("radio")
       THEN /\ Enqueue("radio", [lane |-> "radio", kind |-> "event"])
            /\ rx' = [rx EXCEPT !.listening = on]
       ELSE rx' = [recovery |-> TRUE, listening |-> on] /\ UNCHANGED queues
  /\ UNCHANGED <<lane, history, active, origin, irq, held, loop, ackPending, burst, nextOp, ghosts>>

(* The transmission ends: the interrupt carries the origin of its time.    *)
Interrupt(how) ==
  /\ irq.pc = "idle" /\ origin # 0
  /\ irq' = [pc |-> "claim", op |-> origin, how |-> how]
  /\ UNCHANGED <<lane, history, active, origin, queues, held, loop, rx, ackPending, burst, nextOp, ghosts>>

(* RadioOnDioIrq and RadioIrqProcess: only the matching interrupt goes on. *)
AnyOrigin == TRUE                                \* mutant: the origin is not compared
OriginMatches == irq.op = origin

IrqClaims ==
  /\ irq.pc = "claim"
  /\ IF OriginMatches
     THEN /\ origin' = 0
          /\ irq' = [irq EXCEPT !.pc = "latch"]
          /\ reported' = [reported EXCEPT ![irq.op] = irq.how]
     ELSE irq' = NoIrq /\ UNCHANGED <<origin, reported>>
  /\ UNCHANGED <<lane, history, active, queues, held, loop, rx, ackPending, burst, nextOp, ended, passedOver>>

(* meshcore_service_latch_radio_recovery: the bit, then the slot.          *)
IrqLatches ==
  /\ irq.pc = "latch"
  /\ IF history[SlotOf(irq.op)].op = irq.op
     THEN /\ lane' = [lane EXCEPT !.pending = @ \cup {SlotOf(irq.op)}]
          /\ irq' = [irq EXCEPT !.pc = "own"]
     ELSE irq' = NoIrq /\ UNCHANGED lane
  /\ UNCHANGED <<history, active, origin, queues, held, loop, rx, ackPending, burst, nextOp, ghosts>>

IrqOwnsSlot ==
  /\ irq.pc = "own"
  /\ IF history[SlotOf(irq.op)].term = "NONE"
     THEN /\ history' = [history EXCEPT ![SlotOf(irq.op)].term = "WRITING"]
          /\ irq' = [irq EXCEPT !.pc = "store"]
     ELSE irq' = NoIrq /\ UNCHANGED history
  /\ UNCHANGED <<lane, active, origin, queues, held, loop, rx, ackPending, burst, nextOp, ghosts>>

IrqStores ==
  /\ irq.pc = "store"
  /\ history' = [history EXCEPT ![SlotOf(irq.op)].term = irq.how]
  /\ irq' = NoIrq
  /\ UNCHANGED <<lane, active, origin, queues, held, loop, rx, ackPending, burst, nextOp, ghosts>>

-----------------------------------------------------------------------------
(* What the Mesh task does to the radio.  A transmission starts            *)
(* (meshcore_radio_tx_operation_begin, RadioSendWithOrigin), ends, and     *)
(* reception restarts (d1l_mesh_rx_restart_begin) unless one is active.    *)
Starts(kind) ==
  /\ ~Busy /\ nextOp < MaxOperations
  /\ nextOp' = nextOp + 1
  /\ active' = [op |-> nextOp', kind |-> kind]
  /\ origin' = nextOp'
  /\ history' = [history EXCEPT ![SlotOf(nextOp')] = [op |-> nextOp', term |-> "NONE"]]
  /\ rx' = [rx EXCEPT !.listening = FALSE]
  /\ UNCHANGED <<ended, ackPending>>

RestartForgets == rx                             \* mutant: a restart during a transmission is lost
RestartedRx == IF Busy THEN [rx EXCEPT !.recovery = TRUE]
               ELSE [recovery |-> FALSE, listening |-> TRUE]

Ends(op, how) ==
  /\ active' = Silent
  /\ ended' = [ended EXCEPT ![op] = how]
  /\ rx' = [recovery |-> FALSE, listening |-> TRUE]
  /\ ackPending' = (ackPending /\ active.kind # "ack")

(* meshcore_service_run_owner_maintenance: the watchdog may be due and the *)
(* driver hands a transmission back unless the interrupt task has it; with *)
(* the radio idle a message may be sent again.                             *)
WatchdogRecovers ==
  /\ Busy /\ irq.pc \notin {"latch", "own", "store"} /\ origin = active.op
  /\ origin' = 0
  /\ Ends(active.op, "TIMEOUT")
  /\ UNCHANGED <<history, nextOp>>

MaintenanceSends == ~ackPending /\ Starts("dm")

Maintained ==
  /\ LoopAt("maintain")
  /\ lane' = [lane EXCEPT !.reserved = FALSE]
  /\ loop' = TopOfLoop
  /\ UNCHANGED <<irq, queues, held, burst, reported, passedOver>>

MaintainRecovers == Maintained /\ WatchdogRecovers
MaintainSends == Maintained /\ MaintenanceSends
MaintainRests ==
  Maintained /\ UNCHANGED <<history, active, origin, rx, ackPending, nextOp, ended>>

-----------------------------------------------------------------------------
(* meshcore_service_take_latched_terminal.                                 *)
TakeTerminals ==
  /\ LoopAt("take")
  /\ lane' = [lane EXCEPT !.pending = {}]
  /\ loop' = [loop EXCEPT !.pending = lane.pending,
                          !.pc = IF lane.pending = {} THEN "look" ELSE "scan"]
  /\ UNCHANGED <<history, active, origin, irq, queues, held, rx, ackPending, burst, nextOp, ghosts>>

SlotComplete(k) == history[k].term \in {"DONE", "TIMEOUT"}
LosesThem == lane                                \* mutant: the bits are not given back
GivenBack == [lane EXCEPT !.pending = @ \cup loop.pending]

ScanIncomplete ==
  /\ LoopAt("scan")
  /\ \E k \in loop.pending : ~SlotComplete(k)
  /\ lane' = GivenBack
  /\ LoopGoes("look")
  /\ UNCHANGED <<history, active, origin, irq, queues, held, rx, ackPending, burst, nextOp, ghosts>>

(* The newest operation's terminal; the handlers ignore one that is not    *)
(* the active operation's (meshcore_radio_terminal_matches).               *)
HandleTerminal ==
  /\ LoopAt("scan")
  /\ \A k \in loop.pending : SlotComplete(k)
  /\ \E k \in loop.pending :
       /\ \A j \in loop.pending : history[j].op <= history[k].op
       /\ IF history[k].op = active.op THEN Ends(active.op, history[k].term)
          ELSE UNCHANGED <<active, ended, rx, ackPending>>
  /\ LoopGoes("maintain")
  /\ UNCHANGED <<lane, history, origin, irq, queues, held, burst, nextOp, reported, passedOver>>

LookForPending ==
  /\ LoopAt("look")
  /\ IF lane.pending # {} THEN Afterwards("take") ELSE LoopGoes("recovery")
  /\ UNCHANGED <<lane, history, active, origin, irq, queues, held, rx, ackPending, burst, nextOp, ghosts>>

(* d1l_mesh_rx_recovery_take; while a transmission is active the request   *)
(* is put back.                                                            *)
TakeRecovery ==
  /\ LoopAt("recovery")
  /\ rx' = [rx EXCEPT !.recovery = @ /\ Busy]
  /\ loop' = [loop EXCEPT !.pc = "reserve", !.rx = rx.recovery /\ ~Busy]
  /\ UNCHANGED <<lane, history, active, origin, irq, queues, held, ackPending, burst, nextOp, ghosts>>

PutBack == [rx EXCEPT !.recovery = @ \/ loop.rx]

Reserve ==
  /\ LoopAt("reserve")
  /\ IF lane = [pending |-> {}, reserved |-> FALSE]
     THEN /\ lane' = [lane EXCEPT !.reserved = TRUE]
          /\ LoopGoes(IF loop.rx THEN "restart" ELSE "choose")
          /\ UNCHANGED rx
     ELSE rx' = PutBack /\ loop' = TopOfLoop /\ UNCHANGED lane
  /\ UNCHANGED <<history, active, origin, irq, queues, held, ackPending, burst, nextOp, ghosts>>

StillReserved == lane.pending = {}
Release == lane' = [lane EXCEPT !.reserved = FALSE]

RestartReception ==
  /\ LoopAt("restart")
  /\ IF StillReserved
     THEN rx' = RestartedRx /\ LoopGoes("maintain") /\ UNCHANGED lane
     ELSE rx' = PutBack /\ Release /\ loop' = TopOfLoop
  /\ UNCHANGED <<history, active, origin, irq, queues, held, ackPending, burst, nextOp, ghosts>>

-----------------------------------------------------------------------------
(* The held command, or the scheduler's choice                             *)
(* (d1l_mesh_owner_scheduler_choose).                                      *)
Available(q) == queues[q] # <<>>
Urgent == ackPending /\ ~Busy /\ Available("priority")
BurstRuns(n, max) == n + 1                       \* mutant: the counter is not saturated
BurstLeft(n, max) == IF n < max THEN n + 1 ELSE n

Choice ==
  CASE Urgent -> "priority"
    [] ~Urgent /\ Available("radio") /\ burst.radio < RadioBurst -> "radio"
    [] ~Urgent /\ ~(Available("radio") /\ burst.radio < RadioBurst) ->
         IF Available("normal") /\ Available("priority") /\ burst.priority >= PriorityBurst
         THEN "normal"
         ELSE IF Available("priority") THEN "priority"
         ELSE IF Available("normal") THEN "normal"
         ELSE IF Available("radio") THEN "radio" ELSE "none"

NeverYields(q) == [burst EXCEPT !.radio = IF q = "radio" THEN BurstLeft(@, RadioBurst) ELSE 0]
                                                 \* mutant: the priority burst is not counted
BurstAfter(q) ==
  CASE q = "radio" -> [burst EXCEPT !.radio = BurstLeft(@, RadioBurst)]
    [] q = "priority" -> [radio |-> 0, priority |-> BurstLeft(burst.priority, PriorityBurst)]
    [] q \in {"normal", "none"} -> [radio |-> 0, priority |-> 0]

ChooseWork ==
  /\ LoopAt("choose") /\ held = NoCommand
  /\ burst' = BurstAfter(Choice)
  /\ IF Choice = "none"
     THEN LoopGoes("maintain") /\ UNCHANGED queues
     ELSE /\ loop' = [loop EXCEPT !.pc = "validate", !.cmd = Head(queues[Choice])]
          /\ queues' = [queues EXCEPT ![Choice] = Tail(@)]
  /\ passedOver' = IF Choice = "normal" \/ ~Available("normal") THEN NoneBefore
                   ELSE IF passedOver.acks = MaxAcksCounted THEN passedOver
                   ELSE [works |-> passedOver.works + 1,
                         acks |-> IF Urgent THEN passedOver.acks + 1 ELSE passedOver.acks]
  /\ UNCHANGED <<lane, history, active, origin, irq, held, rx, ackPending, nextOp, reported, ended>>

TakeHeld ==
  /\ LoopAt("choose") /\ held # NoCommand
  /\ loop' = [loop EXCEPT !.pc = "validate", !.cmd = held, !.fromHeld = TRUE]
  /\ UNCHANGED <<lane, history, active, origin, irq, queues, held, rx, ackPending, burst, nextOp, ghosts>>

NeedsRadio(cmd) == cmd.kind \in {"ack", "send"}

NoValidation == TRUE                             \* mutant: the lane is not looked at again
Validated == StillReserved

Hold ==
  /\ LoopAt("validate")
  /\ ~Validated \/ (Busy /\ NeedsRadio(loop.cmd))
  /\ held' = loop.cmd
  /\ Release
  /\ IF Validated THEN Afterwards("maintain") ELSE loop' = TopOfLoop
  /\ UNCHANGED <<history, active, origin, irq, queues, rx, ackPending, burst, nextOp, ghosts>>

Validate ==
  /\ LoopAt("validate")
  /\ Validated /\ ~(Busy /\ NeedsRadio(loop.cmd))
  /\ held' = IF loop.fromHeld THEN NoCommand ELSE held
  /\ LoopGoes("run")
  /\ UNCHANGED <<lane, history, active, origin, irq, queues, rx, ackPending, burst, nextOp, ghosts>>

-----------------------------------------------------------------------------
(* The handlers.  A received message may put its ACK at the front of the   *)
(* priority queue (meshcore_service_send_ack_async), which then has the    *)
(* radio next; every other event restarts reception.                       *)
Runs == LoopAt("run") /\ LoopGoes("maintain")

ReservesAck ==
  /\ ~ackPending /\ HasRoom("priority")
  /\ ackPending' = TRUE
  /\ queues' = [queues EXCEPT !["priority"] = <<[lane |-> "priority", kind |-> "ack"]>> \o @]

RunEvent ==
  /\ Runs /\ loop.cmd.kind = "event"
  /\ \/ ReservesAck /\ UNCHANGED rx
     \/ rx' = RestartedRx /\ UNCHANGED <<queues, ackPending>>
  /\ UNCHANGED <<lane, history, active, origin, irq, held, burst, nextOp, ghosts>>

(* A transmission that cannot start ends with an error; for an ACK the     *)
(* owner then forgets it and restarts reception.                           *)
RunSend ==
  /\ Runs /\ NeedsRadio(loop.cmd)
  /\ \/ Starts(loop.cmd.kind)
     \/ /\ UNCHANGED <<history, active, origin, nextOp, ended>>
        /\ IF loop.cmd.kind = "ack" THEN ackPending' = FALSE /\ rx' = RestartedRx
           ELSE UNCHANGED <<ackPending, rx>>
  /\ UNCHANGED <<lane, irq, queues, held, burst, reported, passedOver>>

(* The commands that do not transmit; one restarts reception               *)
(* (meshcore_service_handle_start_rx, refused during a transmission).      *)
RunOther ==
  /\ Runs /\ loop.cmd.kind \in {"response", "other"}
  /\ \/ UNCHANGED rx
     \/ loop.cmd.kind = "other" /\ ~Busy /\ rx' = RestartedRx
  /\ UNCHANGED <<lane, history, active, origin, irq, queues, held, ackPending, burst, nextOp, ghosts>>

-----------------------------------------------------------------------------
LoopStep ==
  \/ TakeTerminals \/ ScanIncomplete \/ HandleTerminal \/ LookForPending
  \/ TakeRecovery \/ Reserve \/ RestartReception \/ ChooseWork \/ TakeHeld
  \/ Hold \/ Validate \/ RunEvent \/ RunSend \/ RunOther
  \/ MaintainRecovers \/ MaintainSends \/ MaintainRests

IrqStep == IrqClaims \/ IrqLatches \/ IrqOwnsSlot \/ IrqStores

LaneNext ==
  \/ \E kind \in {"send", "other"} : SendNormal(kind)
  \/ \E kind \in {"send", "response"} : SendPriority(kind)
  \/ PacketArrives
  \/ \E how \in {"DONE", "TIMEOUT"} : Interrupt(how)
  \/ IrqStep \/ LoopStep

LaneSpec == LaneInit /\ [][LaneNext]_laneVars

-----------------------------------------------------------------------------
Terms == {"NONE", "WRITING", "DONE", "TIMEOUT"}
LaneCommands == [lane : Lanes \cup {"none"},
                 kind : {"none", "event", "response", "ack", "send", "other"}]

LaneTypeOK ==
  /\ lane \in [pending : SUBSET HistorySlots, reserved : BOOLEAN]
  /\ history \in [HistorySlots -> [op : 0 .. MaxOperations, term : Terms]]
  /\ active \in [op : 0 .. MaxOperations, kind : {"none", "ack", "send", "dm"}]
  /\ origin \in 0 .. MaxOperations
  /\ irq \in [pc : {"idle", "claim", "latch", "own", "store"}, op : 0 .. MaxOperations, how : Terms]
  /\ queues \in [Lanes -> Seq(LaneCommands)]
  /\ \A q \in Lanes : Len(queues[q]) <= LaneDepth
  /\ held \in LaneCommands
  /\ loop \in [pc : {"take", "scan", "look", "recovery", "reserve", "restart", "choose",
                     "validate", "run", "maintain"},
               cmd : LaneCommands, pending : SUBSET HistorySlots, fromHeld : BOOLEAN, rx : BOOLEAN]
  /\ rx \in [recovery : BOOLEAN, listening : BOOLEAN]
  /\ ackPending \in BOOLEAN
  /\ burst \in [radio : 0 .. RadioBurst, priority : 0 .. PriorityBurst]
  /\ nextOp \in 0 .. MaxOperations
  /\ reported \in [Operations -> Terms] /\ ended \in [Operations -> Terms]
  /\ passedOver \in [works : Nat, acks : 0 .. MaxAcksCounted]

(* An operation ends as the radio reported it, or by the watchdog if the   *)
(* radio reported nothing: no terminal is credited to another operation,   *)
(* whatever interrupt is late (meshcore_radio_terminal_matches, the patch).*)
OutcomeIsTheRadios ==
  \A op \in Operations :
    ended[op] # "NONE" => ended[op] = (IF reported[op] = "NONE" THEN "TIMEOUT" ELSE reported[op])

(* Ordinary work never goes before the end of a transmission whose         *)
(* callback began first ("an owner reservation can never skip a callback   *)
(* that began publication first", meshcore_service.c:982): when a command  *)
(* is admitted, every reported end is recorded or not yet in the lane.     *)
TerminalGoesFirst ==
  [][LoopAt("validate") /\ loop'.pc = "run" =>
       \A op \in Operations :
         reported[op] # "NONE" =>
           ended[op] # "NONE" \/ (irq.op = op /\ irq.pc = "latch")]_laneVars

(* A waiting normal command is passed over by the works the two bursts     *)
(* allow, and by those of one more burst of radio events for every ACK that*)
(* is sent out of turn, the ACK included: the reset of the radio burst at  *)
(* meshcore_service.c:7597 gives the events nothing else.                  *)
NormalIsNotStarved ==
  passedOver.works <= (PriorityBurst + 1) * RadioBurst + PriorityBurst
                      + passedOver.acks * (RadioBurst + 1)

(* What the radio reported is not lost before the owner has recorded it,   *)
(* though the bit of its slot is cleared before the slot is read and the   *)
(* slot may still be half written.                                         *)
TerminalIsOnItsWay ==
  \A op \in Operations :
    reported[op] # "NONE" /\ ended[op] = "NONE" =>
      /\ active.op = op
      /\ \/ irq.op = op /\ irq.pc \in {"latch", "own", "store"}
         \/ SlotOf(op) \in lane.pending
         \/ LoopAt("scan") /\ SlotOf(op) \in loop.pending

(* A radio that went deaf is not forgotten: the transmission that made it  *)
(* so is active, or an event, an ACK or a recovery is still to restart     *)
(* reception, whatever was dropped, held or put back on the way.           *)
InHand(cmd) == cmd = held \/ (cmd = loop.cmd /\ loop.pc \in {"validate", "run"})

DeafRadioIsRemembered ==
  ~rx.listening =>
    \/ Busy \/ rx.recovery
    \/ loop.rx /\ loop.pc \in {"reserve", "restart"}
    \/ queues["radio"] # <<>>
    \/ \E k \in DOMAIN queues["priority"] : queues["priority"][k].kind = "ack"
    \/ \E cmd \in {held, loop.cmd} : InHand(cmd) /\ cmd.kind \in {"event", "ack"}
=============================================================================
