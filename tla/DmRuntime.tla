----------------------------- MODULE DmRuntime ------------------------------
(***************************************************************************)
(* The Mesh task driving one outbound direct message: main/mesh/           *)
(* meshcore_service.c with meshcore_ack_completion.h and                   *)
(* meshcore_dm_retry.h.                                                    *)
(*                                                                         *)
(* The task is the only owner of the delivery, of the radio operation and  *)
(* of the ACK completion.  It takes a latched radio terminal, or one       *)
(* command or radio event, runs its handler to the end, then one pass of   *)
(* maintenance; task.pc is where it stands.  One step of a handler is one  *)
(* transition of the row together with its flush.  Around it, the retained *)
(* worker saves rows, the radio driver ends transmissions, the console     *)
(* clears the history and power is lost.                                   *)
(*                                                                         *)
(* The store is reduced to what DmStore says of it: the rows in RAM, the   *)
(* rows of the copy on the SD card, and the ACK mask.  A flush writes the  *)
(* copy when there is a card; without one it saves nothing and succeeds.   *)
(* A card is put in or taken out while the power is off; one exchanged     *)
(* under a running store is the subject of DmStore.                        *)
(* The 32-bit ACK hash is the pair of its session and attempt.             *)
(***************************************************************************)
EXTENDS DmRows

CONSTANTS
  MaxSessions,    \* bound: outbound messages issued
  MaxStoreFaults, \* bound: failed flushes
  MaxRadioFaults, \* bound: radio not started, radio bus faults
  MaxReplies,     \* bound: inbound messages that are owed an ACK
  MaxCrashes,     \* bound: power losses
  MaxClears       \* bound: clears of the history

ASSUME RuntimeBoundsAssumption ==
  /\ {MaxSessions, MaxStoreFaults, MaxRadioFaults, MaxReplies, MaxCrashes,
      MaxClears} \subseteq Nat
  /\ MaxSessions <= Capacity     \* so that no append evicts a row

VARIABLES
  rows,     \* the outbound rows in RAM
  saved,    \* the rows of the copy on the SD card
  mask,     \* sessions whose ACK no flush has confirmed yet
  card,     \* whether the SD card is in the slot
  task,     \* where the Mesh task is, and where a shared tail returns to
  owner,    \* s_pending_dm_tx.delivery
  tx,       \* the rest of s_pending_dm_tx
  op,       \* s_active_radio_tx; s_tx_busy says whether there is one
  watch,    \* whether s_radio_tx_watchdog is armed
  air,      \* the transmission the radio driver is working on
  latched,  \* radio terminals published and not yet taken
  reply,    \* s_pending_ack_tx.active: an ACK response is owed
  sent,     \* ghost: how often each attempt went to the radio
  credits,  \* ghost: how often the effects of an ACK ran for a session
  cleared,  \* ghost: sessions whose row a clear has removed
  boot,     \* ghost: sessions issued before the last boot
  live,     \* ghost: sessions issued without the card in the slot
  faults,   \* ghost: failed flushes
  used      \* ghost: the other bounds spent

store == <<rows, saved, mask>>
delivery == <<owner, tx>>
radio == <<op, watch, air, latched>>
others == <<card, sent, credits, cleared, boot, live>>
vars == <<store, task, delivery, radio, reply, others, faults, used>>

Sessions == 1 .. MaxSessions
AckHash(session, attempt) == 2 * session + attempt
AckHashes == {AckHash(s, a) : s \in Sessions, a \in {0, 1}}

NoOp == [id |-> 0, kind |-> "none", session |-> NoSession, rev |-> 0]
NoCompletion == [session |-> NoSession, base |-> 0, admitted |-> FALSE, durable |-> FALSE]
NoReceipt == [session |-> NoSession, base |-> 0, hash |-> 0]
NoTx == [route |-> "none", attempt |-> 0, retried |-> FALSE, armed |-> FALSE,
         ackPending |-> FALSE, completion |-> NoCompletion, receipt |-> NoReceipt]

Init ==
  /\ rows = {} /\ saved = {} /\ mask = {} /\ card \in BOOLEAN
  /\ task = [pc |-> "loop", then |-> "loop"]
  /\ owner = NoOwner /\ tx = NoTx
  /\ op = NoOp /\ watch = FALSE /\ air = NoOp /\ latched = {}
  /\ reply = FALSE
  /\ sent = [h \in AckHashes |-> 0]
  /\ credits = [s \in Sessions |-> 0]
  /\ cleared = {} /\ boot = 0 /\ live = {} /\ faults = 0
  /\ used = [sessions |-> 0, ops |-> 0, radio |-> 0, replies |-> 0,
             crashes |-> 0, clears |-> 0]

Spend(what, bound) == used[what] < bound /\ used' = [used EXCEPT ![what] = @ + 1]

At(pc) == task.pc = pc
Goto(pc) == task' = [task EXCEPT !.pc = pc]
Call(pc, then) == task' = [pc |-> pc, then |-> then]
Return == task' = [pc |-> task.then, then |-> "loop"]

Busy == op # NoOp

(* d1l_meshcore_ack_completion_suppresses_rf_retry: the effects are taken  *)
(* in the step that clears the owner, so "not yet taken" always holds.     *)
Suppresses == tx.completion.session # NoSession /\ tx.completion.admitted

-----------------------------------------------------------------------------
(* The store, as the task sees it.                                         *)

(* d1l_dm_store_flush: it saves the rows on the card, or fails with or     *)
(* without having written them; a failure leaves the ACKs masked.          *)
Written == IF card THEN rows' ELSE saved
Flush(ok) ==
  IF ok
  THEN saved' = Written /\ mask' = {} /\ UNCHANGED faults
  ELSE /\ faults < MaxStoreFaults
       /\ faults' = faults + 1
       /\ saved' \in {saved, Written}
       /\ UNCHANGED mask

(* The compare-and-swap of transition_delivery_internal on the owner's     *)
(* session, state and revision.                                            *)
Current(r) == r.id = owner.session /\ r.st = owner.state /\ r.rev = owner.rev
CasHolds(next) == TransitionAllowed(owner.state, next) /\ \E r \in rows : Current(r)
Moved(next, hash) ==
  {IF Current(r) THEN [r EXCEPT !.st = next, !.rev = @ + 1, !.hash = hash] ELSE r :
     r \in rows}

(* Its outcomes with a flush: "refused" changes nothing, "unsaved" means   *)
(* the row moved and the flush failed.                                     *)
StoreSync(next, hash, ret) ==
  IF ret = "refused"
  THEN ~CasHolds(next) /\ UNCHANGED <<store, faults>>
  ELSE /\ CasHolds(next)
       /\ rows' = Moved(next, hash)
       /\ Flush(ret = "ok")

StoreDeferred(next, ret) ==
  /\ UNCHANGED <<saved, faults>>
  /\ IF ret = "refused"
     THEN ~CasHolds(next) /\ UNCHANGED <<rows, mask>>
     ELSE /\ CasHolds(next)
          /\ rows' = Moved(next, owner.hash)
          /\ mask' = IF next = "ACKNOWLEDGED" THEN mask \union {owner.session} ELSE mask

SyncOutcomes == {"ok", "unsaved", "refused"}
DeferredOutcomes == {"ok", "refused"}

(* transition_pending_dm_tx publishes to the owner what the row accepted,  *)
(* saved or not.                                                           *)
PublishesSaved(ret) == ret = "ok"     \* mutant: only what is saved
Publishes(ret) == ret # "refused"
OwnerOn(next, ret) ==
  IF Publishes(ret) /\ OwnerAccepts(owner, owner.session, owner.rev, next, owner.rev + 1)
  THEN OwnerAfter(owner, next, owner.rev + 1)
  ELSE owner

(* AWAITING_ACK opens an ACK completion for its revision; any other        *)
(* transition retires one that no ACK has been admitted to.                *)
TxOn(next, ret) ==
  IF Publishes(ret) /\ next = "AWAITING_ACK"
  THEN [tx EXCEPT !.completion = [NoCompletion EXCEPT !.session = owner.session,
                                                      !.base = owner.rev + 1],
                  !.receipt = NoReceipt]
  ELSE IF /\ Publishes(ret)
          /\ tx.completion.session # NoSession /\ ~tx.completion.admitted
  THEN [tx EXCEPT !.completion = NoCompletion, !.receipt = NoReceipt]
  ELSE tx

(* clear_pending_dm_tx, when the owner ended in a terminal state.          *)
ClearOwnerOnly(after, kept) ==        \* mutant: the rest is left behind
  IF OwnerActive(after) /\ Terminal(after.state)
  THEN owner' = NoOwner /\ tx' = kept
  ELSE owner' = after /\ tx' = kept
ClearIfTerminal(after, kept) ==
  IF OwnerActive(after) /\ Terminal(after.state)
  THEN owner' = NoOwner /\ tx' = NoTx
  ELSE owner' = after /\ tx' = kept

-----------------------------------------------------------------------------
(* The main loop.  A latched terminal comes first, an owed ACK response    *)
(* second; a command that transmits is held while the radio is busy.       *)
Ready == At("loop") /\ latched = {} /\ (reply => Busy)

IdlePoll ==
  /\ Ready
  /\ Goto("bus")
  /\ UNCHANGED <<store, delivery, radio, reply, others, faults, used>>

(* meshcore_service_handle_send_dm, up to the append and its flush.  From  *)
(* here to the transmission the retained worker is quiesced.               *)
HandleSendDm ==
  /\ Ready /\ ~Busy
  /\ ~OwnerActive(owner)
  /\ Spend("sessions", MaxSessions)
  /\ LET s == used'.sessions
     IN rows' = rows \union {[TxRow(s, s) EXCEPT !.hash = AckHash(s, 0)]}
  /\ live' = IF card THEN live ELSE live \union {used'.sessions}
  /\ \E ok \in BOOLEAN : Flush(ok) /\ Call(IF ok THEN "begin" ELSE "detach", "bus")
  /\ UNCHANGED <<delivery, radio, reply, card, sent, credits, cleared, boot>>

(* record_detached_dm_queue_failure: no owner was bound to the row.        *)
DetachedRevZero(r) == r.id = used.sessions /\ r.st = "QUEUED" /\ r.rev = 0  \* mutant
Detached(r) == r.id = used.sessions /\ r.st = "QUEUED" /\ r.rev = 1
RecordDetachedFailure ==
  /\ At("detach")
  /\ Return
  /\ IF \E r \in rows : Detached(r)
     THEN /\ rows' = {IF Detached(r) THEN [r EXCEPT !.st = "FAILED_QUEUE", !.rev = 2]
                                     ELSE r : r \in rows}
          /\ \E ok \in BOOLEAN : Flush(ok)
     ELSE UNCHANGED <<store, faults>>
  /\ UNCHANGED <<delivery, radio, reply, others, used>>

(* ensure_radio_started fails ...                                          *)
RadioNotStarted ==
  /\ At("begin")
  /\ Spend("radio", MaxRadioFaults)
  /\ Goto("detach")
  /\ UNCHANGED <<store, delivery, radio, reply, others, faults>>

(* ... or begin_pending_dm_tx binds the owner to the row.                  *)
BeginPending ==
  /\ At("begin")
  /\ owner' = OwnerBegin(used.sessions, AckHash(used.sessions, 0))
  /\ \E route \in {"direct", "flood"} : tx' = [NoTx EXCEPT !.route = route]
  /\ Goto("reserve")
  /\ UNCHANGED <<store, radio, reply, others, faults, used>>

(* The two flushed transitions between the owner and the radio.            *)
GoOnPublished(ret) == Publishes(ret)  \* mutant: the flush result is dropped
GoOn(ret) == ret = "ok"
ToRadio(pc, next, then) ==
  /\ At(pc)
  /\ \E ret \in SyncOutcomes :
       /\ StoreSync(next, owner.hash, ret)
       /\ owner' = OwnerOn(next, ret)
       /\ tx' = TxOn(next, ret)
       /\ Goto(IF GoOn(ret) THEN then ELSE "unsent")
  /\ UNCHANGED <<radio, reply, others, used>>

ReserveRadio == ToRadio("reserve", "WAITING_RADIO", "start")
StartRadio == ToRadio("start", "TX_ACTIVE", "send")

(* meshcore_radio_tx_operation_begin, the end of the quiesce and           *)
(* Radio.SendWithOrigin; an operation still active would make it fail.     *)
OperationBegins(new) ==
  /\ op' = new /\ watch' = TRUE /\ air' = new
  /\ UNCHANGED latched

Send ==
  /\ At("send") /\ ~Busy
  /\ used' = [used EXCEPT !.ops = @ + 1]
  /\ OperationBegins([id |-> used'.ops, kind |-> "DM",
                      session |-> owner.session, rev |-> owner.rev])
  /\ sent' = [sent EXCEPT ![owner.hash] = @ + 1]
  /\ Return
  /\ UNCHANGED <<store, delivery, reply, card, credits, cleared, boot, live, faults>>

(* fail_pending_dm_before_radio.                                           *)
FailBeforeRadio ==
  /\ At("unsent")
  /\ LET next == IF owner.state = "TX_ACTIVE" THEN "FAILED_RADIO" ELSE "FAILED_QUEUE"
     IN \E ret \in SyncOutcomes :
          /\ StoreSync(next, owner.hash, ret)
          /\ ClearIfTerminal(OwnerOn(next, ret), TxOn(next, ret))
  /\ Return
  /\ UNCHANGED <<radio, reply, others, used>>

-----------------------------------------------------------------------------
(* Inbound traffic.                                                        *)

(* An inbound message is owed an ACK; only one response waits at a time.   *)
RxMessage ==
  /\ Ready /\ ~reply
  /\ Spend("replies", MaxReplies)
  /\ reply' = TRUE
  /\ Goto("bus")
  /\ UNCHANGED <<store, delivery, radio, others, faults>>

(* meshcore_service_handle_send_raw of that response.                      *)
SendReply ==
  /\ At("loop") /\ latched = {} /\ reply /\ ~Busy
  /\ used' = [used EXCEPT !.ops = @ + 1]
  /\ OperationBegins([NoOp EXCEPT !.id = used'.ops, !.kind = "ACK"])
  /\ Goto("bus")
  /\ UNCHANGED <<store, delivery, reply, others, faults>>

ReplyNotSent ==
  /\ At("loop") /\ latched = {} /\ reply /\ ~Busy
  /\ Spend("radio", MaxRadioFaults)
  /\ reply' = FALSE
  /\ Goto("bus")
  /\ UNCHANGED <<store, delivery, radio, others, faults>>

(* record_dm_ack of an ACK that matches the owner and was not admitted     *)
(* before.  The receipt is kept with the row's revision; an admitted ACK   *)
(* waits for the worker, a refused one drops the receipt.  The other       *)
(* outcomes of record_dm_ack leave the delivery alone.                     *)
RxAck(hash) ==
  /\ Ready
  /\ sent[hash] > 0
  /\ ~Suppresses
  /\ OwnerAckMatches(owner, hash)
  /\ tx.completion.session = owner.session /\ tx.completion.base = owner.rev
  /\ \E ret \in DeferredOutcomes :
       /\ StoreDeferred("ACKNOWLEDGED", ret)
       /\ tx' = IF ret = "ok"
                THEN [tx EXCEPT !.completion.admitted = TRUE, !.ackPending = TRUE,
                                !.receipt = [session |-> owner.session,
                                             base |-> owner.rev, hash |-> hash]]
                ELSE [tx EXCEPT !.receipt = NoReceipt]
  /\ Goto("bus")
  /\ UNCHANGED <<owner, radio, reply, others, used>>

-----------------------------------------------------------------------------
(* The end of a transmission.                                              *)

(* The driver latches a terminal for the transmission it works on.         *)
DriverEnds ==
  /\ air # NoOp
  /\ \E kind \in {"done", "timeout"} :
       latched' = latched \union {[operation |-> air, kind |-> kind]}
  /\ air' = NoOp
  /\ UNCHANGED <<store, task, delivery, op, watch, reply, others, faults, used>>

(* meshcore_radio_terminal_matches.                                        *)
TerminalMatches(operation) ==
  /\ operation = op
  /\ op.kind = "DM" => /\ owner.session = op.session
                       /\ owner.rev = op.rev
                       /\ owner.state = "TX_ACTIVE"

(* meshcore_radio_tx_operation_clear and what each kind does next.  The    *)
(* handler of a timeout is also called by the bus recovery and by the      *)
(* watchdog: then is where it returns to.                                  *)
OperationKept == UNCHANGED <<op, watch>>      \* mutant: never cleared
OperationClears == op' = NoOp /\ watch' = FALSE
EndOperation(kind, then) ==
  /\ OperationClears
  /\ reply' = (reply /\ op.kind # "ACK")
  /\ IF op.kind = "DM"
     THEN Call(IF kind = "done" THEN "txDone" ELSE "txFailed", then)
     ELSE Call(then, "loop")

(* meshcore_service_take_latched_terminal hands out the newest one and     *)
(* drops the older; one that no longer matches is ignored.                 *)
TakeTerminal ==
  /\ At("loop") /\ latched # {}
  /\ latched' = {}
  /\ LET newest == CHOOSE e \in latched :
                     \A f \in latched : f.operation.id <= e.operation.id
     IN IF TerminalMatches(newest.operation)
        THEN EndOperation(newest.kind, "bus")
        ELSE Goto("bus") /\ UNCHANGED <<op, watch, reply>>
  /\ UNCHANGED <<store, delivery, air, others, faults, used>>

(* meshcore_service_handle_radio_tx_done for a message: two transitions    *)
(* whose saving is left to the worker, then the deadline.                  *)
TxDone ==
  /\ At("txDone")
  /\ \E ret \in DeferredOutcomes :
       /\ StoreDeferred("TX_DONE", ret)
       /\ owner' = OwnerOn("TX_DONE", ret)
       /\ tx' = TxOn("TX_DONE", ret)
       /\ IF owner'.state = "TX_DONE" THEN Goto("await") ELSE Return
  /\ UNCHANGED <<radio, reply, others, used>>

ArmsNever(after) == FALSE             \* mutant: the deadline is not armed
Arms(after) == OwnerActive(after) /\ after.state = "AWAITING_ACK"
AwaitAck ==
  /\ At("await")
  /\ \E ret \in DeferredOutcomes :
       /\ StoreDeferred("AWAITING_ACK", ret)
       /\ owner' = OwnerOn("AWAITING_ACK", ret)
       /\ tx' = [TxOn("AWAITING_ACK", ret) EXCEPT !.armed = @ \/ Arms(owner')]
  /\ Return
  /\ UNCHANGED <<radio, reply, others, used>>

(* The rest of meshcore_service_handle_radio_tx_timeout for a message.     *)
TxFailed ==
  /\ At("txFailed")
  /\ \E ret \in SyncOutcomes :
       /\ StoreSync("FAILED_RADIO", owner.hash, ret)
       /\ ClearIfTerminal(OwnerOn("FAILED_RADIO", ret), TxOn("FAILED_RADIO", ret))
  /\ Return
  /\ UNCHANGED <<radio, reply, others, used>>

-----------------------------------------------------------------------------
(* meshcore_service_run_owner_maintenance, in its order: "bus",            *)
(* "watchdog", "orphan", "reconcile", "deadline".                          *)

BusQuiet ==
  /\ At("bus")
  /\ Goto("watchdog")
  /\ UNCHANGED <<store, delivery, radio, reply, others, faults, used>>

(* meshcore_service_recover_radio_bus ends the active operation as a       *)
(* timeout.  The driver still knows it: its terminal may come later.       *)
BusFault ==
  /\ At("bus") /\ Busy /\ TerminalMatches(op)
  /\ Spend("radio", MaxRadioFaults)
  /\ EndOperation("timeout", "watchdog")
  /\ UNCHANGED <<store, delivery, air, latched, others, faults>>

WatchdogNotDue ==
  /\ At("watchdog")
  /\ Goto("orphan")
  /\ UNCHANGED <<store, delivery, radio, reply, others, faults, used>>

(* The watchdog is due and RecoverTxWithOrigin refuses: the interrupt path *)
(* has claimed the radio or has ended this transmission.  It is re-armed.  *)
WatchdogForgets == watch' = FALSE     \* mutant: it is not
WatchdogRearms == UNCHANGED watch
WatchdogRefused ==
  /\ At("watchdog") /\ watch
  /\ WatchdogRearms
  /\ Goto("orphan")
  /\ UNCHANGED <<store, delivery, op, air, latched, reply, others, faults, used>>

WatchdogRecovers ==
  /\ At("watchdog") /\ watch /\ air = op /\ TerminalMatches(op)
  /\ air' = NoOp
  /\ EndOperation("timeout", "orphan")
  /\ UNCHANGED <<store, delivery, latched, others, faults, used>>

(* The pass ends here while an ACK response waits or the radio is busy.    *)
MaintenanceCut ==
  /\ At("orphan") /\ (Busy \/ reply)
  /\ Goto("loop")
  /\ UNCHANGED <<store, delivery, radio, reply, others, faults, used>>

(* meshcore_service_terminalize_idle_dm_orphan: an owner that waits for a  *)
(* radio which is idle.                                                    *)
OrphanFailure(state) ==
  CASE state \in {"QUEUED", "WAITING_RADIO", "RETRY_TX"} -> {"FAILED_QUEUE"}
    [] state = "TX_ACTIVE" -> {"FAILED_RADIO"}
    [] state \in {"TX_DONE", "RETRY_WAIT"} -> {"FAILED_TIMEOUT"}
    [] OTHER -> {}
Orphaned == OwnerActive(owner) /\ ~tx.ackPending /\ ~Suppresses

NoOrphan ==
  /\ At("orphan") /\ ~Busy /\ ~reply
  /\ ~Orphaned \/ OrphanFailure(owner.state) = {}
  /\ Goto("reconcile")
  /\ UNCHANGED <<store, delivery, radio, reply, others, faults, used>>

TerminalizeOrphan ==
  /\ At("orphan") /\ ~Busy /\ ~reply /\ Orphaned
  /\ \E next \in OrphanFailure(owner.state), ret \in SyncOutcomes :
       /\ StoreSync(next, owner.hash, ret)
       /\ ClearIfTerminal(OwnerOn(next, ret), TxOn(next, ret))
  /\ Goto("reconcile")
  /\ UNCHANGED <<radio, reply, others, used>>

(* reconcile_pending_dm_ack_persistence: the row as readers see it.        *)
ShowsUnmasked(r) == r.st = "ACKNOWLEDGED"     \* mutant: the mask is ignored
ShowsAck(r) == r.st = "ACKNOWLEDGED" /\ r.id \notin mask
AckIsSaved ==
  /\ tx.ackPending /\ OwnerActive(owner) /\ owner.state = "AWAITING_ACK"
  /\ \E r \in rows : r.id = owner.session /\ r.rev = owner.rev + 1 /\ ShowsAck(r)
  /\ Suppresses /\ tx.completion.session = owner.session
  /\ tx.completion.base = owner.rev

(* finalize_pending_dm_ack_completion: the receipt must be the one of this *)
(* revision and hash; then the effects run and the owner is released.      *)
FinalizeAck ==
  /\ At("reconcile") /\ AckIsSaved
  /\ tx.receipt = [session |-> owner.session, base |-> owner.rev, hash |-> owner.hash]
  /\ credits' = [credits EXCEPT ![owner.session] = @ + 1]
  /\ owner' = NoOwner /\ tx' = NoTx
  /\ Goto("deadline")
  /\ UNCHANGED <<store, radio, reply, card, sent, cleared, boot, live, faults, used>>

NothingToReconcile ==
  /\ At("reconcile") /\ ~AckIsSaved
  /\ Goto("deadline")
  /\ UNCHANGED <<store, delivery, radio, reply, others, faults, used>>

(* d1l_meshcore_dm_ack_deadline_take_due_when_idle, reached only while no  *)
(* ACK has been admitted.                                                  *)
DeadlineNotDue ==
  /\ At("deadline")
  /\ Goto("loop")
  /\ UNCHANGED <<store, delivery, radio, reply, others, faults, used>>

DeadlineDue == At("deadline") /\ ~Suppresses /\ owner.state = "AWAITING_ACK" /\ tx.armed
RetryOnceMore == tx.attempt <= 1     \* mutant: any route, one attempt too many
RetryAllowed == tx.route = "direct" /\ tx.attempt = 0 /\ ~tx.retried

DeadlineFails ==
  /\ DeadlineDue /\ ~RetryAllowed
  /\ tx' = [tx EXCEPT !.armed = FALSE]
  /\ Call("expire", "loop")
  /\ UNCHANGED <<store, owner, radio, reply, others, faults, used>>

(* retry_pending_dm_as_flood: the one retry is consumed first, whatever    *)
(* becomes of it; contact, route or radio may then forbid it.              *)
RetryAsFlood ==
  /\ DeadlineDue /\ RetryAllowed
  /\ tx' = [tx EXCEPT !.armed = FALSE, !.retried = TRUE]
  /\ \/ Call("retryWait", "loop") /\ UNCHANGED used
     \/ Call("expire", "loop") /\ Spend("radio", MaxRadioFaults)
  /\ UNCHANGED <<store, owner, radio, reply, others, faults>>

RetryWait ==
  /\ At("retryWait")
  /\ \E ret \in SyncOutcomes :
       /\ StoreSync("RETRY_WAIT", owner.hash, ret)
       /\ owner' = OwnerOn("RETRY_WAIT", ret)
       /\ tx' = TxOn("RETRY_WAIT", ret)
       /\ Goto(IF ret = "ok" THEN "retryTx" ELSE "expire")
  /\ UNCHANGED <<radio, reply, others, used>>

(* transition_pending_dm_retry: the second attempt has an ACK hash of its  *)
(* own; the route becomes flood once the transition is saved.              *)
SecondAttempt(ret) ==
  CASE ret = "ok"      -> [tx EXCEPT !.attempt = 1, !.route = "flood"]
    [] ret = "unsaved" -> [tx EXCEPT !.attempt = 1]
    [] OTHER           -> tx
RetryTx ==
  /\ At("retryTx")
  /\ LET hash == AckHash(owner.session, 1)
     IN \E ret \in SyncOutcomes :
          /\ StoreSync("RETRY_TX", hash, ret)
          /\ owner' = IF Publishes(ret)
                      THEN [OwnerOn("RETRY_TX", ret) EXCEPT !.hash = hash]
                      ELSE owner
          /\ tx' = SecondAttempt(ret)
          /\ Goto(CASE ret = "ok" -> "reserve"
                    [] ret = "unsaved" -> "unsent"
                    [] OTHER -> "expire")
  /\ UNCHANGED <<radio, reply, others, used>>

(* fail_pending_dm_ack_timeout: a refused transition arms the deadline     *)
(* again.                                                                  *)
FailAckTimeout ==
  /\ At("expire")
  /\ \E ret \in SyncOutcomes :
       /\ StoreSync("FAILED_TIMEOUT", owner.hash, ret)
       /\ ClearIfTerminal(OwnerOn("FAILED_TIMEOUT", ret),
                          [TxOn("FAILED_TIMEOUT", ret) EXCEPT !.armed = TRUE])
  /\ Return
  /\ UNCHANGED <<radio, reply, others, used>>

-----------------------------------------------------------------------------
(* The rest of the device.                                                 *)

Quiesced == task.pc \in {"detach", "begin", "reserve", "start", "send", "unsent",
                         "retryWait", "retryTx"}

(* The retained worker's flush_if_due.                                     *)
WorkerFlush(ok) ==
  /\ ~Quiesced
  /\ UNCHANGED rows
  /\ saved # Written \/ mask # {}
  /\ Flush(ok)
  /\ UNCHANGED <<task, delivery, radio, reply, others, used>>

(* d1l_dm_store_clear from the console, at any moment.  It does not ask    *)
(* whether a delivery is active, and its erase of the copy may come later. *)
Clear ==
  /\ Spend("clears", MaxClears)
  /\ cleared' = cleared \union Ids(rows)
  /\ rows' = {} /\ mask' = {}
  /\ saved' \in IF card THEN {saved, {}} ELSE {saved}
  /\ UNCHANGED <<task, delivery, radio, reply, card, sent, credits, boot, live, faults>>

(* Power loss and reboot, with or without the card.                        *)
Crash ==
  /\ Spend("crashes", MaxCrashes)
  /\ card' \in BOOLEAN
  /\ rows' = IF card' THEN {NormalizedDelivery(r) : r \in saved} ELSE {}
  /\ mask' = {}
  /\ task' = [pc |-> "loop", then |-> "loop"]
  /\ owner' = NoOwner /\ tx' = NoTx
  /\ op' = NoOp /\ watch' = FALSE /\ air' = NoOp /\ latched' = {}
  /\ reply' = FALSE
  /\ boot' = used.sessions
  /\ UNCHANGED <<saved, sent, credits, cleared, live, faults>>

TaskStep ==
  \/ IdlePoll \/ HandleSendDm \/ RecordDetachedFailure \/ RadioNotStarted
  \/ BeginPending \/ ReserveRadio \/ StartRadio \/ Send \/ FailBeforeRadio
  \/ RxMessage \/ SendReply \/ ReplyNotSent \/ (\E h \in AckHashes : RxAck(h))
  \/ TakeTerminal \/ TxDone \/ AwaitAck \/ TxFailed
  \/ BusQuiet \/ BusFault
  \/ WatchdogNotDue \/ WatchdogRefused \/ WatchdogRecovers
  \/ MaintenanceCut \/ NoOrphan \/ TerminalizeOrphan
  \/ FinalizeAck \/ NothingToReconcile
  \/ DeadlineNotDue \/ DeadlineFails \/ RetryAsFlood
  \/ RetryWait \/ RetryTx \/ FailAckTimeout

Next ==
  \/ TaskStep \/ DriverEnds \/ Clear \/ Crash
  \/ \E ok \in BOOLEAN : WorkerFlush(ok)

Spec == Init /\ [][Next]_vars

(* The task and the worker keep running.  The deadline and the watchdog    *)
(* read a clock that moves on, so a pass that finds them not yet due, or   *)
(* the radio claimed, is not the only kind there is.  Nothing is assumed   *)
(* of the radio driver or of the peer.                                     *)
FairSpec ==
  /\ Spec
  /\ WF_vars(TaskStep)
  /\ WF_vars(WorkerFlush(TRUE))
  /\ SF_vars(WatchdogRecovers)
  /\ SF_vars(DeadlineFails)
  /\ SF_vars(RetryAsFlood)

-----------------------------------------------------------------------------
RowType ==
  [seq : Sessions, dir : {"tx"}, id : Sessions, hash : AckHashes,
   st : DeliveryStates, rev : Nat, ackSt : {"LEGACY"}, ackN : {0}]

(* Every variable stays in its domain; no message has a third attempt, an  *)
(* ACK completion belongs to the owner, and nothing of a delivery (its     *)
(* deadline, its retry, its receipt) outlives the owner.                   *)
TypeOK ==
  /\ rows \subseteq RowType /\ saved \subseteq RowType
  /\ mask \subseteq Sessions /\ card \in BOOLEAN
  /\ owner.session \in Sessions \union {NoSession}
  /\ tx.route \in {"none", "direct", "flood"}
  /\ tx.attempt \in {0, 1}
  /\ tx.completion.session \in {NoSession, owner.session}
  /\ OwnerActive(owner) \/ tx = NoTx
  /\ op.kind \in {"none", "DM", "ACK"}
  /\ \A e \in latched : e.operation.id <= used.ops

(* A message on the radio is the owner's, at the owner's revision.  Both   *)
(* the radio terminal and the watchdog are ignored for any other, so the   *)
(* radio would stay busy for ever (meshcore_radio_terminal_matches).       *)
OperationIsOwned ==
  op.kind = "DM" => TerminalMatches(op)

(* The owner and its row do not drift apart: same state, revision and ACK  *)
(* hash, or the row is one revision ahead because an ACK was admitted and  *)
(* waits to be saved.  A row that drifts refuses every later transition.   *)
OwnerTracksRow ==
  \A r \in rows : r.id = owner.session =>
    /\ r.hash = owner.hash
    /\ \/ r.st = owner.state /\ r.rev = owner.rev
       \/ r.st = "ACKNOWLEDGED" /\ r.rev = owner.rev + 1 /\ Suppresses /\ tx.ackPending

(* "Pre-radio admission still requires a durable write" (dm_store.h):      *)
(* nothing goes to the radio before the row that says so is saved, unless  *)
(* a clear has removed the row.                                            *)
SavedBeforeSend ==
  op.kind = "DM" =>
    \/ op.session \notin Ids(rows)
    \/ \E r \in saved : /\ r.id = op.session /\ r.rev = op.rev
                        /\ r.st = "TX_ACTIVE" /\ r.hash = owner.hash

(* It holds of a device whose card is in the slot.                         *)
SavedBeforeSendOnCard == card => SavedBeforeSend

(* No message is forgotten: a row whose outcome is open belongs to the     *)
(* owner, is being admitted, or was carried over by a reboot.              *)
OpenRowsAreOwned ==
  \A r \in rows :
    \/ Terminal(r.st)
    \/ r.id = owner.session
    \/ r.id <= boot
    \/ task.pc \in {"begin", "detach"} /\ r.id = used.sessions

(* Each attempt of a message is transmitted at most once, and the second   *)
(* only after the first.                                                   *)
AttemptsSentOnce ==
  /\ \A h \in AckHashes : sent[h] <= 1
  /\ \A s \in Sessions : sent[AckHash(s, 1)] <= sent[AckHash(s, 0)]

(* The effects of an ACK run at most once for a session, and for one sent  *)
(* with the card in the slot only when the copy on the card says           *)
(* ACKNOWLEDGED; and they did run for every acknowledged row the owner has *)
(* let go of since boot.                                                   *)
AckCreditedOnceSaved ==
  /\ \A s \in Sessions :
       credits[s] > 0 =>
         /\ credits[s] = 1
         /\ s \in cleared \union live \/ \E r \in saved : r.id = s /\ r.st = "ACKNOWLEDGED"
  /\ \A r \in rows :
       r.st = "ACKNOWLEDGED" /\ r.id > boot /\ r.id # owner.session => credits[r.id] = 1

(* Every delivery ends while its row is there: an ACK, a timeout or a      *)
(* failure releases the owner, whatever the peer and the driver do.        *)
HasRow == OwnerActive(owner) /\ owner.session \in Ids(rows)
DeliveryEnds == HasRow ~> ~HasRow

(* Whatever is transmitted, the radio is given back.                       *)
RadioReleased == Busy ~> ~Busy

(* The deadline of the last attempt ends the wait for an ACK that does not *)
(* come (meshcore_dm_retry.h).  After a clear of the history it does not:  *)
(* every transition is refused, the deadline is armed again and again, and *)
(* handle_send_dm refuses every later message.                             *)
WaitsOnLastAttempt ==
  owner.state = "AWAITING_ACK" /\ ~RetryAllowed /\ ~Suppresses
LastAttemptTerminates == WaitsOnLastAttempt ~> ~WaitsOnLastAttempt

-----------------------------------------------------------------------------
(* What a reader of the history sees of each message, and the message the  *)
(* task is busy with: the state of DmOutcome.                              *)
OutcomeOf(s) ==
  IF s > used.sessions THEN "unsent"
  ELSE IF s \notin Ids(rows) THEN "forgotten"
  ELSE LET shown == {r \in rows : r.id = s}
       IN IF \E r \in shown : ShowsAck(r) THEN "acknowledged"
          ELSE IF \E r \in shown : r.st # "ACKNOWLEDGED" /\ Terminal(r.st) THEN "failed"
          ELSE "open"
CurrentMessage ==
  IF OwnerActive(owner) THEN owner.session
  ELSE IF task.pc \in {"begin", "detach"} THEN used.sessions
  ELSE NoSession

Abstract == INSTANCE DmOutcome WITH
  Messages <- Sessions,
  None     <- NoSession,
  outcome  <- [s \in Sessions |-> OutcomeOf(s)],
  onAir    <- [s \in Sessions |-> sent[AckHash(s, 0)] + sent[AckHash(s, 1)]],
  credited <- [s \in Sessions |-> credits[s] > 0],
  current  <- CurrentMessage,
  card     <- card

(* The task, the store, the radio and the worker together keep the promise *)
(* of DmOutcome: one message at a time, two transmissions at most, one     *)
(* outcome that only a reboot or a clear can take back, and an ACK, once   *)
(* shown, that a power loss does not take back from a device that has and  *)
(* keeps its card (dm_delivery_state.c, dm_store.c and meshcore_service.c  *)
(* each hold a part of it).                                                *)
KeepsPromise == Abstract!Spec
=============================================================================
