------------------------------ MODULE DmStore -------------------------------
(***************************************************************************)
(* The retained direct-message store, main/mesh/dm_store.c: a ring of rows *)
(* in RAM, one blob on whichever SD card is in the slot, and the persist   *)
(* operation that writes it while the rows keep moving.                    *)
(*                                                                         *)
(* The store still has a "fallback" in onboard NVS, but its history is     *)
(* SD-only (nvs_fallback_allowed is false in storage/                      *)
(* retained_blob_store.c): NVS holds at most a snapshot an older firmware  *)
(* left, which a boot imports until it is retired.  A write of the         *)
(* fallback writes no rows: it retires that snapshot once this boot has    *)
(* committed a blob to a card, and otherwise does nothing, successfully.   *)
(* Without a card the store is live-only, and a flush saves nothing.       *)
(*                                                                         *)
(* Three tasks call it.  The Mesh owner appends rows and moves deliveries  *)
(* on (and waits for its own flushes); the retained worker flushes when    *)
(* due; the console clears the history.  s_store_lock makes each RAM step  *)
(* atomic; s_persist_io_lock lets one persist operation run at a time,     *)
(* which is the record io.  Storage moves on its own: a card is pulled or  *)
(* inserted (slot), a read or write fails, the device loses power (Crash). *)
(***************************************************************************)
EXTENDS DmRows

CONSTANTS
  Cards,        \* SD cards that may be in the slot
  NoCard, NoBlob,
  InitialCards, \* what a card may hold before this device first sees it
  InitialLegacy,\* what an older firmware may have left in NVS
  WorkerFlushes,\* whether the retained worker runs (it is paused in one run)
  MaxSessions,  \* bound: outbound messages issued
  MaxChanges,   \* bound: mutations of the rows (each counts a crev)
  MaxFaults,    \* bound: failed SD reads, SD writes and marker writes
  MaxReadFaults,\* bound: boots that cannot read the NVS snapshot
  MaxToggles,   \* bound: changes of the SD backend
  MaxCrashes,   \* bound: power losses
  MaxClears     \* bound: clears of the history

ASSUME BoundsAssumption ==
  /\ {MaxSessions, MaxChanges, MaxFaults, MaxReadFaults, MaxToggles,
      MaxCrashes, MaxClears} \subseteq Nat
  /\ NoCard \notin Cards
  /\ WorkerFlushes \in BOOLEAN

VARIABLES
  ram,     \* the blob fill_blob_locked would build now
  mask,    \* s_ack_persistence_pending: [id, st, rev] before the ACK
  fl,      \* the store's flags
  nvs,     \* the snapshot in NVS and whether it is retired
  cards,   \* what each card holds
  slot,    \* the card of the enabled SD backend, or NoCard
  io,      \* the running persist operation
  owner,   \* the Mesh task's flush in progress: [pc, id, rev]
  clear,   \* the console's clear in progress: [pc, gone]
  told,    \* ghost: what was reported durable of each session, on which card
  cleared, \* ghost: rows a clear has reported gone: [id, lineage]
  used     \* ghost: the bounds spent

ghosts == <<told, cleared>>
vars == <<ram, mask, fl, nvs, cards, slot, io, owner, clear, ghosts, used>>

Sessions == 1 .. MaxSessions

IdleIo ==
  [pc |-> "idle", who |-> "none", force |-> FALSE, sd |-> FALSE, genOk |-> FALSE,
   snap |-> NoBlob, fresh |-> FALSE, sdTry |-> FALSE, nvsTry |-> FALSE,
   sdRet |-> "ok", nvsRet |-> "ok", card |-> NoCard]
IdleOwner == [pc |-> "idle", id |-> NoSession, rev |-> 0]
IdleClear == [pc |-> "idle", gone |-> {}]
NotTold == [rev |-> 0, card |-> NoCard]

(* What a boot finds in NVS: nvs_read_legacy_blob.  marker is on flash;    *)
(* retired and committed are s_store_legacy_retired and                    *)
(* s_store_sd_committed of retained_blob_store.c, in RAM.  Erasing the     *)
(* snapshot behind the marker is best effort, and nothing reads it again.  *)
Legacy == IF nvs.retired THEN NoBlob ELSE nvs.snapshot

(* reset_store_locked, with the SD backend enabled or not.                 *)
ResetFlags(sdEnabled) ==
  [loaded |-> FALSE, nvsDirty |-> FALSE, sdDirty |-> FALSE, recon |-> ~sdEnabled,
   retry |-> FALSE, auth |-> FALSE, mutated |-> FALSE, bootNext |-> 1,
   genSeen |-> TRUE]

Init ==
  /\ ram = EmptyBlob
  /\ mask = {}
  /\ fl = ResetFlags(FALSE)
  /\ \E old \in InitialLegacy :
       nvs = [snapshot |-> old, marker |-> FALSE, retired |-> FALSE,
              committed |-> FALSE]
  /\ cards \in [Cards -> InitialCards]
  /\ slot = NoCard
  /\ io = IdleIo
  /\ owner = IdleOwner
  /\ clear = IdleClear
  /\ told = [s \in Sessions |-> NotTold]
  /\ cleared = {}
  /\ used = [sessions |-> 0, changes |-> 0, faults |-> 0, reads |-> 0,
             toggles |-> 0, crashes |-> 0, clears |-> 0]

Spend(what, bound) == used[what] < bound /\ used' = [used EXCEPT ![what] = @ + 1]

DirtyFallbackOnly(f, sdRequired) == f.nvsDirty   \* mutant: the card is left out

(* persistence_dirty_locked.                                               *)
Dirty(f, sdRequired) == f.nvsDirty \/ (sdRequired /\ (f.sdDirty \/ f.recon))

(* s_boot_next_seq as a merge uses it: rows at or above it are live.       *)
LiveFrom == IF fl.mutated THEN fl.bootNext ELSE ram.nextSeq

(* find_ack_persistence_pending_locked, and                                *)
(* project_ack_persistence_truth_locked: what every reader is shown.       *)
Pending(r) == {m \in mask : m.id = r.id /\ m.rev + 1 = r.rev}
Public(r) ==
  IF r.st = "ACKNOWLEDGED" /\ Pending(r) # {}
  THEN LET m == CHOOSE m \in Pending(r) : TRUE
       IN [r EXCEPT !.st = m.st, !.rev = m.rev]
  ELSE r

-----------------------------------------------------------------------------
(* Mutations of the rows.  Each one counts a content revision, moves       *)
(* s_state_revision on (a snapshot taken before is no longer fresh), and   *)
(* sets both dirty flags.                                                  *)

Touched == [fl EXCEPT !.mutated = TRUE, !.auth = TRUE,
                      !.sdDirty = TRUE, !.nvsDirty = TRUE]

OwnerMayMutate == fl.loaded /\ owner.pc = "idle" /\ used.changes < MaxChanges

MutateWithoutRevision(rows) ==    \* mutant: s_state_revision not moved on
  /\ ram' = [ram EXCEPT !.rows = rows, !.crev = @ + 1]
  /\ fl' = Touched
  /\ used' = [used EXCEPT !.changes = @ + 1]
  /\ UNCHANGED <<io, nvs, cards, slot, clear, ghosts>>

Mutate(rows) ==
  /\ ram' = [ram EXCEPT !.rows = rows, !.crev = @ + 1]
  /\ fl' = Touched
  /\ io' = [io EXCEPT !.fresh = FALSE]
  /\ used' = [used EXCEPT !.changes = @ + 1]
  /\ UNCHANGED <<nvs, cards, slot, clear, ghosts>>

Replace(r, s) == (ram.rows \ {r}) \union {s}

(* append_internal keeps the oldest row while it is an outbound message    *)
(* whose outcome, as readers see it, is still open.                        *)
RoomToAppend ==
  Cardinality(ram.rows) = Capacity =>
    LET oldest == Oldest(ram.rows)
    IN oldest.dir = "tx" => Terminal(Public(oldest).st)

AppendRow(row) ==
  /\ RoomToAppend
  /\ ram' = [ram EXCEPT !.rows = Newest(@ \union {row}, Capacity),
                        !.nextSeq = @ + 1, !.crev = @ + 1]
  /\ fl' = Touched
  /\ io' = [io EXCEPT !.fresh = FALSE]
  /\ UNCHANGED <<mask, nvs, cards, slot, clear, ghosts>>

(* d1l_dm_store_append_tx: the caller waits for its flush.                 *)
AppendTx ==
  /\ OwnerMayMutate
  /\ used.sessions < MaxSessions
  /\ LET session == used.sessions + 1
     IN /\ AppendRow(TxRow(ram.nextSeq, session))
        /\ owner' = [pc |-> "flush", id |-> session, rev |-> 1]
  /\ used' = [used EXCEPT !.changes = @ + 1, !.sessions = @ + 1]

(* d1l_dm_store_append_rx_identity_deferred, which the receive path calls  *)
(* only for a digest the store does not hold.                              *)
AppendRx ==
  /\ OwnerMayMutate
  /\ \E digest \in Digests \ Ids(ram.rows) :
       AppendRow(RxRow(ram.nextSeq, digest))
  /\ used' = [used EXCEPT !.changes = @ + 1]
  /\ UNCHANGED owner

(* The transitions the Mesh service asks for, apart from the ACK: it waits *)
(* for the flush of the first kind; deferred_radio_progress is the second. *)
SyncEdges ==
  {<<"QUEUED", "WAITING_RADIO">>, <<"QUEUED", "FAILED_QUEUE">>,
   <<"WAITING_RADIO", "TX_ACTIVE">>, <<"WAITING_RADIO", "FAILED_QUEUE">>,
   <<"TX_ACTIVE", "FAILED_RADIO">>, <<"TX_DONE", "FAILED_TIMEOUT">>,
   <<"AWAITING_ACK", "RETRY_WAIT">>, <<"AWAITING_ACK", "FAILED_TIMEOUT">>,
   <<"RETRY_WAIT", "RETRY_TX">>, <<"RETRY_WAIT", "FAILED_TIMEOUT">>,
   <<"RETRY_TX", "WAITING_RADIO">>, <<"RETRY_TX", "FAILED_QUEUE">>}
DeferredEdges ==
  {<<"TX_ACTIVE", "TX_DONE">>, <<"TX_DONE", "AWAITING_ACK">>}

(* apply_delivery_transition_locked; RETRY_TX also rebinds the ACK hash.   *)
Moved(r, next) ==
  [r EXCEPT !.st = next, !.rev = @ + 1,
            !.hash = IF next = "RETRY_TX" THEN @ + 1 ELSE @]

(* transition_delivery_internal with flush_now.                            *)
TransitionSync ==
  /\ OwnerMayMutate
  /\ \E r \in ram.rows, edge \in SyncEdges :
       /\ r.dir = "tx" /\ r.st = edge[1] /\ TransitionAllowed(r.st, edge[2])
       /\ Mutate(Replace(r, Moved(r, edge[2])))
       /\ owner' = [pc |-> "flush", id |-> r.id, rev |-> r.rev + 1]
  /\ UNCHANGED mask

(* ... and without: the retained worker saves it later.                    *)
TransitionDeferred ==
  /\ OwnerMayMutate
  /\ \E r \in ram.rows, edge \in DeferredEdges :
       /\ r.dir = "tx" /\ r.st = edge[1] /\ TransitionAllowed(r.st, edge[2])
       /\ Mutate(Replace(r, Moved(r, edge[2])))
  /\ UNCHANGED <<mask, owner>>

(* The deferred ACK: reserve_ack_persistence_pending_locked hides it from  *)
(* readers until a persist operation finds nothing left to save.           *)
Acknowledge ==
  /\ OwnerMayMutate
  /\ \E r \in ram.rows :
       /\ r.dir = "tx" /\ r.st = "AWAITING_ACK"
       /\ \A m \in mask : m.id # r.id
       /\ Cardinality(mask) < Capacity
       /\ mask' = mask \union {[id |-> r.id, st |-> r.st, rev |-> r.rev]}
       /\ Mutate(Replace(r, Moved(r, "ACKNOWLEDGED")))
  /\ UNCHANGED owner

(* reserve_ack_dispatch_internal, deferred: one of the ACKs an inbound     *)
(* message may cost is set aside before it goes to the radio.              *)
ReserveAck ==
  /\ OwnerMayMutate
  /\ \E r \in ram.rows :
       /\ r.dir = "rx" /\ r.ackSt \in {"RETRYABLE", "SENT"}
       /\ r.ackN < AckDispatchMax
       /\ Mutate(Replace(r, [r EXCEPT !.ackSt = "PENDING", !.ackN = @ + 1]))
  /\ UNCHANGED <<mask, owner>>

(* complete_ack_dispatch_internal, deferred.                               *)
CompleteAck ==
  /\ OwnerMayMutate
  /\ \E r \in ram.rows, sent \in BOOLEAN :
       /\ r.dir = "rx" /\ r.ackSt = "PENDING" /\ r.ackN > 0
       /\ Mutate(Replace(r, [r EXCEPT !.ackSt =
            IF sent THEN "SENT"
            ELSE IF r.ackN >= AckDispatchMax THEN "TERMINAL" ELSE "RETRYABLE"]))
  /\ UNCHANGED <<mask, owner>>

(* new_clear_lineage: a random token no copy carries yet.                  *)
SameLineage == ram.lineage        \* mutant: the clear keeps the lineage
FreshLineage == used.clears + 1

(* d1l_dm_store_clear, first half: the rows go, under a fresh lineage.     *)
ClearRows ==
  /\ fl.loaded /\ clear.pc = "idle"
  /\ Spend("clears", MaxClears)
  /\ ram' = [ram EXCEPT !.rows = {}, !.nextSeq = 1, !.epoch = @ + 1,
                        !.crev = @ + 1, !.lineage = FreshLineage]
  /\ mask' = {}
  /\ fl' = [Touched EXCEPT !.bootNext = 1]
  /\ io' = [io EXCEPT !.fresh = FALSE]
  /\ clear' = [pc |-> "erase",
               gone |-> {[id |-> r.id, lineage |-> ram.lineage] : r \in ram.rows}]
  /\ told' = [s \in Sessions |-> NotTold]  \* a clear ends earlier promises,
  /\ owner' = [owner EXCEPT !.rev = 0]     \* and the one under way
  /\ UNCHANGED <<nvs, cards, slot, cleared>>

(* mark_legacy_blob_retired.  A write that fails may have stored the       *)
(* marker; one that was stored is not written again in this boot.          *)
MarkRetired ==
  nvs' = [nvs EXCEPT !.marker = TRUE, !.retired = TRUE] /\ UNCHANGED used

MarkFails ==
  /\ ~nvs.retired
  /\ Spend("faults", MaxFaults)
  /\ \E stored \in BOOLEAN : nvs' = [nvs EXCEPT !.marker = @ \/ stored]

(* Its second half retires the NVS snapshot, without s_persist_io_lock,    *)
(* before the flush that writes the empty history.                         *)
ClearErase ==
  /\ clear.pc = "erase"
  /\ \/ MarkRetired /\ clear' = [clear EXCEPT !.pc = "flush"]
     \/ MarkFails /\ clear' = IdleClear
  /\ UNCHANGED <<ram, mask, fl, cards, slot, io, owner, ghosts>>

-----------------------------------------------------------------------------
(* persist_store                                                           *)

(* Who may call it now, and with force or not.                             *)
Caller(who, force) ==
  \/ who = "owner" /\ owner.pc = "flush" /\ force
  \/ who = "clear" /\ clear.pc = "flush" /\ force
  \/ who = "worker" /\ WorkerFlushes

(* The call returns to whoever made it.  Report is what an owner is told,  *)
(* and card the card the operation found in the slot.                      *)
Report(card) == [rev |-> owner.rev, card |-> card]

ReturnDurable(who, ok, card) ==   \* mutant: durable whatever the flush said
  /\ owner' = IF who = "owner" THEN IdleOwner ELSE owner
  /\ clear' = IF who = "clear" THEN IdleClear ELSE clear
  /\ told' = IF who = "owner" THEN [told EXCEPT ![owner.id] = Report(card)] ELSE told
  /\ cleared' = IF who = "clear" /\ ok THEN cleared \union clear.gone ELSE cleared

Return(who, ok, card) ==
  /\ owner' = IF who = "owner" THEN IdleOwner ELSE owner
  /\ clear' = IF who = "clear" THEN IdleClear ELSE clear
  /\ told' = IF who = "owner" /\ ok THEN [told EXCEPT ![owner.id] = Report(card)]
                                    ELSE told
  /\ cleared' = IF who = "clear" /\ ok THEN cleared \union clear.gone ELSE cleared

NoReturn == UNCHANGED <<owner, clear, told, cleared>>

(* A backend generation not seen before must be reconciled with first.     *)
GenerationNoted(f) == [f EXCEPT !.genSeen = TRUE, !.recon = TRUE, !.retry = FALSE]

PersistBegin(who, force) ==
  LET sd == slot # NoCard
      f == IF fl.genSeen THEN fl ELSE GenerationNoted(fl)
  IN /\ io.pc = "idle" /\ fl.loaded /\ Caller(who, force)
     /\ fl' = f
     /\ \/ /\ ~Dirty(f, sd)                  \* nothing to save
           /\ mask' = {}
           /\ Return(who, TRUE, slot)
           /\ UNCHANGED io
        \/ /\ Dirty(f, sd) /\ f.retry        \* inside the retry interval
           /\ Return(who, ~force, slot)
           /\ UNCHANGED <<mask, io>>
        \/ /\ Dirty(f, sd)
           /\ io' = [IdleIo EXCEPT !.pc = IF sd /\ f.recon THEN "reconcile"
                                                            ELSE "snapshot",
                                   !.who = who, !.force = force,
                                   !.sd = sd, !.genOk = TRUE, !.card = slot]
           /\ NoReturn
           /\ UNCHANGED mask
     /\ UNCHANGED <<ram, nvs, cards, slot, used>>

(* reconcile_sd_primary.  Its failure still attempts the NVS fallback; a   *)
(* bridge that has not finished (ESP_ERR_NOT_FINISHED) ends the operation. *)
ReconcileFails ==
  /\ fl' = [fl EXCEPT !.recon = TRUE, !.retry = TRUE]
  /\ io' = [io EXCEPT !.pc = "nvsOnly"]
  /\ NoReturn
  /\ UNCHANGED <<ram, cards>>

NotFinishedLocked ==    \* mutant: returns with s_persist_io_lock held
  /\ Spend("faults", MaxFaults)
  /\ io' = [io EXCEPT !.pc = "held"]
  /\ Return(io.who, FALSE, io.card)
  /\ UNCHANGED <<ram, mask, fl, nvs, cards, slot>>

NotFinished ==
  /\ Spend("faults", MaxFaults)
  /\ io' = IdleIo
  /\ Return(io.who, FALSE, io.card)
  /\ UNCHANGED <<ram, mask, fl, nvs, cards, slot>>

ReconcileStale ==
  /\ ~io.genOk
  /\ ReconcileFails
  /\ UNCHANGED <<mask, slot, used>>

(* The backend changes while the merge runs: the rows are rolled back.     *)
ReconcileRolledBack ==
  /\ io.genOk /\ cards[slot] # NoBlob
  /\ ~MergeFails(ram, cards[slot], fl.auth, LiveFrom)
  /\ Spend("toggles", MaxToggles)
  /\ slot' = NoCard
  /\ fl' = [fl EXCEPT !.recon = TRUE, !.retry = TRUE, !.genSeen = FALSE]
  /\ io' = [io EXCEPT !.pc = "nvsOnly", !.genOk = FALSE]
  /\ mask' = {}
  /\ NoReturn
  /\ UNCHANGED <<ram, cards>>

ReconcileReadFails ==
  /\ io.genOk
  /\ Spend("faults", MaxFaults)
  /\ ReconcileFails
  /\ UNCHANGED <<mask, slot>>

ReconcileAbsent ==
  /\ io.genOk /\ cards[slot] = NoBlob
  /\ fl' = [fl EXCEPT !.recon = FALSE,
                      !.sdDirty = ram.rows # {} \/ ram.epoch > 1 \/ ram.lineage # 0]
  /\ io' = [io EXCEPT !.pc = "snapshot"]
  /\ NoReturn
  /\ UNCHANGED <<ram, mask, cards, slot, used>>

ReconcileConflict ==
  /\ io.genOk /\ cards[slot] # NoBlob
  /\ MergeFails(ram, cards[slot], fl.auth, LiveFrom)
  /\ mask' = IF cards[slot].lineage = ram.lineage /\ cards[slot].epoch = ram.epoch
             THEN mask ELSE {}
  /\ ReconcileFails
  /\ UNCHANGED <<slot, used>>

ReconcileMerges ==
  LET card == cards[slot]
      merged == MergePrimary(ram, card, fl.auth, LiveFrom)
  IN /\ io.genOk /\ card # NoBlob
     /\ ~MergeFails(ram, card, fl.auth, LiveFrom)
     /\ ram' = merged
     /\ mask' = IF MergeRefused(ram, card, fl.auth) THEN mask ELSE {}
     /\ fl' = [fl EXCEPT !.recon = FALSE, !.auth = TRUE,
                         !.sdDirty = merged # card,
                         !.nvsDirty = @ \/ merged # ram,
                         !.bootNext = IF fl.mutated THEN @ ELSE merged.nextSeq]
     /\ io' = [io EXCEPT !.pc = "snapshot"]
     /\ NoReturn
     /\ UNCHANGED <<cards, slot, used>>

Reconcile ==
  /\ io.pc = "reconcile"
  /\ \/ NotFinished
     \/ /\ \/ ReconcileStale
           \/ ReconcileRolledBack
           \/ ReconcileReadFails
           \/ ReconcileAbsent
           \/ ReconcileConflict
           \/ ReconcileMerges
        /\ UNCHANGED nvs

(* persist_nvs_after_reconcile_failure: the snapshot, then the write and   *)
(* update_nvs_result.  sd is required here, so the store stays dirty.      *)
NvsOnlySnapshot ==
  /\ io.pc = "nvsOnly"
  /\ IF fl.nvsDirty
     THEN /\ io' = [io EXCEPT !.pc = "nvsOnlyWrite", !.snap = ram, !.fresh = TRUE]
          /\ NoReturn
     ELSE /\ io' = IdleIo
          /\ Return(io.who, FALSE, io.card)
  /\ UNCHANGED <<ram, mask, fl, nvs, cards, slot, used>>


(* The "write" of the NVS fallback: retire_legacy_blob_after_sd_commit.    *)
WriteNvs(ret) ==
  \/ ret = "ok" /\ ~nvs.committed /\ UNCHANGED <<nvs, used>>
  \/ ret = "ok" /\ nvs.committed /\ MarkRetired
  \/ ret = "fail" /\ nvs.committed /\ MarkFails

NvsOnlyWrite ==
  /\ io.pc = "nvsOnlyWrite"
  /\ \E ret \in {"ok", "fail"} :
       /\ WriteNvs(ret)
       /\ io' = [io EXCEPT !.pc = "nvsOnlyFinish", !.nvsRet = ret]
  /\ NoReturn
  /\ UNCHANGED <<ram, mask, fl, cards, slot>>

NvsOnlyFinish ==
  /\ io.pc = "nvsOnlyFinish"
  /\ fl' = [fl EXCEPT !.nvsDirty = @ /\ ~(io.nvsRet = "ok" /\ io.fresh),
                      !.retry = @ \/ io.nvsRet # "ok"]
  /\ io' = IdleIo
  /\ Return(io.who, FALSE, io.card)
  /\ UNCHANGED <<ram, mask, nvs, cards, slot, used>>

Snapshot ==
  /\ io.pc = "snapshot"
  /\ LET sdTry == io.sd /\ fl.sdDirty
     IN io' = [io EXCEPT !.snap = ram, !.fresh = TRUE,
                         !.sdTry = sdTry, !.nvsTry = fl.nvsDirty,
                         !.pc = CASE sdTry -> "sd"
                                  [] ~sdTry /\ fl.nvsDirty -> "nvs"
                                  [] OTHER -> "finish"]
  /\ NoReturn
  /\ UNCHANGED <<ram, mask, fl, nvs, cards, slot, used>>

(* A card that is overwritten by another history ends what was promised of *)
(* the one it held.                                                        *)
StillTold(card, b) ==
  [s \in Sessions |->
     IF /\ told[s].card = card /\ cards[card] # NoBlob
        /\ <<b.lineage, b.epoch>> # <<cards[card].lineage, cards[card].epoch>>
     THEN NotTold ELSE told[s]]

(* The guarded SD write (which fails before it writes anything when the    *)
(* backend has changed), and the generation check after it.                *)
SdWrite ==
  /\ io.pc = "sd"
  /\ \/ NotFinished
     \/ /\ io.genOk
        /\ cards' = [cards EXCEPT ![slot] = io.snap]
        /\ nvs' = [nvs EXCEPT !.committed = TRUE]
        /\ told' = StillTold(slot, io.snap)
        /\ io' = [io EXCEPT !.pc = "sdCheck"]
        /\ UNCHANGED <<ram, mask, fl, slot, owner, clear, cleared, used>>
     \/ /\ ~io.genOk
        /\ io' = [io EXCEPT !.pc = "sdCheck"]
        /\ NoReturn
        /\ UNCHANGED <<ram, mask, fl, nvs, cards, slot, used>>
     \/ /\ io.genOk
        /\ Spend("faults", MaxFaults)
        /\ \/ UNCHANGED <<cards, told>>
           \/ /\ cards' = [cards EXCEPT ![slot] = io.snap]
              /\ told' = StillTold(slot, io.snap)
        /\ io' = [io EXCEPT !.pc = "sdCheck", !.sdRet = "fail"]
        /\ UNCHANGED <<ram, mask, fl, nvs, slot, owner, clear, cleared>>

SdCheck ==
  /\ io.pc = "sdCheck"
  /\ io' = [io EXCEPT !.sdRet = IF io.genOk THEN @ ELSE "stale",
                      !.pc = IF io.nvsTry THEN "nvs" ELSE "finish"]
  /\ NoReturn
  /\ UNCHANGED <<ram, mask, fl, nvs, cards, slot, used>>

NvsWrite ==
  /\ io.pc = "nvs"
  /\ \E ret \in {"ok", "fail"} :
       /\ WriteNvs(ret)
       /\ io' = [io EXCEPT !.pc = "finish", !.nvsRet = ret]
  /\ NoReturn
  /\ UNCHANGED <<ram, mask, fl, cards, slot>>

Finish ==
  LET failed == io.sdRet # "ok" \/ io.nvsRet # "ok"
      saved(try, ret) == try /\ ret = "ok" /\ io.fresh
      f == [fl EXCEPT !.sdDirty = @ /\ ~saved(io.sdTry, io.sdRet),
                      !.nvsDirty = @ /\ ~saved(io.nvsTry, io.nvsRet),
                      !.recon = @ \/ io.sdRet = "stale"]
      dirty == Dirty(f, io.sd)
      settled == ~f.recon /\ (~io.sd \/ ~f.sdDirty)
  IN /\ io.pc = "finish"
     /\ fl' = CASE dirty -> [f EXCEPT !.retry = @ \/ failed \/ ~io.fresh]
                [] ~dirty /\ settled ->
                     [f EXCEPT !.retry = FALSE, !.mutated = FALSE,
                               !.bootNext = ram.nextSeq]
                [] OTHER -> [f EXCEPT !.retry = FALSE]
     /\ mask' = IF dirty THEN mask ELSE {}
     /\ io' = IdleIo
     /\ Return(io.who, ~failed /\ (io.force => ~dirty), io.card)
     /\ UNCHANGED <<ram, nvs, cards, slot, used>>

Persist ==
  \/ \E who \in {"owner", "clear", "worker"}, force \in BOOLEAN :
       PersistBegin(who, force)
  \/ Reconcile \/ NvsOnlySnapshot \/ NvsOnlyWrite \/ NvsOnlyFinish
  \/ Snapshot \/ SdWrite \/ SdCheck \/ NvsWrite \/ Finish

-----------------------------------------------------------------------------
(* Storage and power.                                                      *)

(* note_sd_backend: every change of the backend is a new generation; a     *)
(* card is exchanged only while the backend is off.                        *)
Toggle ==
  /\ Spend("toggles", MaxToggles)
  /\ slot' \in IF slot = NoCard THEN Cards ELSE {NoCard}
  /\ fl' = [fl EXCEPT !.genSeen = FALSE]
  /\ io' = [io EXCEPT !.genOk = FALSE]
  /\ UNCHANGED <<ram, mask, nvs, cards, owner, clear, ghosts>>

(* Power loss, or a reset: only the media survive, and                     *)
(* d1l_retained_blob_store_init reads the marker.                          *)
Crash ==
  /\ fl.loaded
  /\ Spend("crashes", MaxCrashes)
  /\ ram' = EmptyBlob
  /\ mask' = {}
  /\ fl' = ResetFlags(slot # NoCard)
  /\ io' = IdleIo
  /\ owner' = IdleOwner
  /\ clear' = IdleClear
  /\ nvs' = [nvs EXCEPT !.retired = nvs.marker, !.committed = FALSE]
  /\ UNCHANGED <<cards, slot, ghosts>>

(* d1l_dm_store_init, from the results of its two reads and whether the    *)
(* backend changed while it ran.  Without a card it starts empty, unless   *)
(* an unretired snapshot is there.                                         *)
Load(nvsRead, sdRead, changed) ==
  LET on == slot # NoCard
      card == IF on THEN cards[slot] ELSE NoBlob
      nvsValid == nvsRead /\ Legacy # NoBlob
      sdValid == sdRead /\ card # NoBlob
      nvsProblem == ~nvsRead
      sdProblem == on /\ ~sdRead
      conflict == nvsValid /\ sdValid /\ MergeFails(Legacy, card, TRUE, Legacy.nextSeq)
      sdAccepted == sdValid /\ ~changed
      chosen ==
        CASE nvsValid /\ sdAccepted /\ ~conflict ->
               MergePrimary(Legacy, card, TRUE, Legacy.nextSeq)
          [] nvsValid /\ (~sdAccepted \/ conflict) -> Legacy
          [] ~nvsValid /\ sdAccepted -> card
          [] OTHER -> EmptyBlob
      loaded == Normalized(chosen)
      problem == sdProblem \/ conflict \/ changed
      noSource == ~nvsValid /\ ~sdAccepted
  IN /\ ram' = loaded
     /\ fl' = [loaded |-> ~(noSource /\ (nvsProblem \/ problem)),
               nvsDirty |-> nvsProblem \/ (loaded # Legacy /\ ~noSource),
               sdDirty |-> /\ on /\ ~problem /\ loaded # card
                           /\ ~(card = NoBlob /\ loaded.rows = {} /\
                                loaded.epoch = 1 /\ loaded.lineage = 0),
               recon |-> on => problem,
               retry |-> problem \/ nvsProblem,
               auth |-> nvsValid \/ sdAccepted,
               mutated |-> FALSE,
               bootNext |-> loaded.nextSeq,
               genSeen |-> ~changed]

Boot ==
  /\ ~fl.loaded
  /\ \E nvsRead, sdRead, changed \in BOOLEAN :
       /\ Load(nvsRead, sdRead, changed)
       /\ ~sdRead => slot # NoCard /\ ~changed
       /\ changed => slot # NoCard
       /\ slot' = IF changed THEN NoCard ELSE slot
       /\ used' = [used EXCEPT !.reads = IF nvsRead THEN @ ELSE @ + 1,
                               !.faults = IF sdRead THEN @ ELSE @ + 1,
                               !.toggles = IF changed THEN @ + 1 ELSE @]
       /\ used'.reads <= MaxReadFaults
       /\ used'.faults <= MaxFaults
       /\ used'.toggles <= MaxToggles
  /\ UNCHANGED <<mask, nvs, cards, io, owner, clear, ghosts>>

Next ==
  \/ AppendTx \/ AppendRx
  \/ TransitionSync \/ TransitionDeferred \/ Acknowledge
  \/ ReserveAck \/ CompleteAck
  \/ ClearRows \/ ClearErase
  \/ Persist
  \/ Toggle \/ Crash \/ Boot

Spec == Init /\ [][Next]_vars

(* The worker calls flush_if_due again and again, whatever the last call   *)
(* returned, and the retry interval passes.                                *)
FairSpec == Spec /\ WF_vars(Persist) /\ WF_vars(Boot) /\ WF_vars(ClearErase)

-----------------------------------------------------------------------------
(* Properties.                                                             *)

Rows == [seq : Nat, dir : {"tx", "rx"}, id : Sessions \union Digests, hash : Nat,
         st : DeliveryStates, rev : Nat, ackSt : AckStates, ackN : Nat]

Blobs == [epoch : Nat, crev : Nat, lineage : Nat, nextSeq : Nat, rows : SUBSET Rows]

ASSUME NoBlobAssumption == NoBlob \notin Blobs

(* What a card of another device, or the snapshot of an older firmware,    *)
(* may hold: inbound rows (its outbound messages are rows nobody here      *)
(* moves), and a lineage no clear of this device draws; a lineage token is *)
(* drawn once, with one epoch.                                             *)
Found == (InitialCards \union InitialLegacy) \ {NoBlob}

ASSUME CardsAssumption ==
  /\ Digests \intersect Sessions = {}
  /\ \A b \in Found :
       /\ b \in Blobs /\ IsFiniteSet(b.rows) /\ BlobValid(b)
       /\ \A r \in b.rows : r.dir = "rx" /\ r.id \in Digests
       /\ b.lineage \notin 1 .. MaxClears
  /\ \A a, b \in Found :
       a.lineage = b.lineage /\ a.lineage # 0 => a.epoch = b.epoch

(* Lineage 0 is a history that was never cleared, unless it comes from a   *)
(* device that was upgraded: schema 3 counted epochs without lineages.     *)
OneSchema == \A b \in Found : b.lineage = 0 => b.epoch = 1

(* The persist operation's steps, and those that hold a snapshot of the    *)
(* rows.                                                                   *)
IoSteps == {"idle", "reconcile", "snapshot", "sd", "sdCheck", "nvs", "finish",
            "nvsOnly", "nvsOnlyWrite", "nvsOnlyFinish"}
WithSnapshot == {"sd", "sdCheck", "nvs", "finish", "nvsOnlyWrite", "nvsOnlyFinish"}

(* The control state of the store: its flags, the persist operation, and   *)
(* the two waiting callers.                                                *)
FlagFields == {"loaded", "nvsDirty", "sdDirty", "recon", "retry", "auth",
               "mutated", "bootNext", "genSeen"}
IoFields == {"pc", "who", "force", "sd", "genOk", "snap", "fresh", "sdTry",
             "nvsTry", "sdRet", "nvsRet", "card"}
ControlOK ==
  /\ DOMAIN fl = FlagFields
  /\ \A f \in FlagFields \ {"bootNext"} : fl[f] \in BOOLEAN
  /\ DOMAIN io = IoFields
  /\ io.pc \in IoSteps
  /\ \A f \in {"force", "sd", "genOk", "fresh", "sdTry", "nvsTry"} :
       io[f] \in BOOLEAN

(* Every variable keeps its type.                                          *)
TypeOK ==
  /\ ControlOK
  /\ ram \in Blobs
  /\ nvs.snapshot # NoBlob => nvs.snapshot \in Blobs
  /\ {nvs.marker, nvs.retired, nvs.committed} \subseteq BOOLEAN
  /\ \A c \in Cards : cards[c] # NoBlob => cards[c] \in Blobs
  /\ slot \in Cards \union {NoCard}
  /\ io.card \in Cards \union {NoCard}
  /\ io.pc \in WithSnapshot => io.snap \in Blobs
  /\ mask \subseteq [id : Sessions, st : DeliveryStates, rev : Nat]
  /\ owner \in [pc : {"idle", "flush"}, id : {NoSession} \union Sessions, rev : Nat]
  /\ clear.pc \in {"idle", "erase", "flush"}
  /\ told \in [Sessions -> [rev : Nat, card : Cards \union {NoCard}]]

(* The copies a boot could load.                                           *)
Media == ({Legacy} \union {cards[c] : c \in Cards}) \ {NoBlob}

(* When the store thinks its SD card is saved, the card holds the rows in  *)
(* RAM, for the backend the store has last reconciled with: no             *)
(* interleaving of a mutation with a running persist operation, and no     *)
(* card pulled, exchanged or inserted under one, leaves the store          *)
(* believing in a copy that is not there (the end of persist_store).       *)
SdCleanMeansSaved ==
  fl.loaded /\ slot # NoCard /\ fl.genSeen /\ ~fl.sdDirty /\ ~fl.recon =>
    cards[slot] = ram \/ (cards[slot] = NoBlob /\ ram.rows = {})

(* Whatever was written can be read back: blob_layout_is_valid accepts     *)
(* every copy, after any merge, renumbering, normalisation or eviction.    *)
CopiesDecode == \A b \in Media \union {ram} : BlobValid(b)

(* What a set of rows still has of the row n: the row, no older and with   *)
(* no fewer ACKs spent, unless the ring is full and may have evicted it.   *)
Kept(n, rows) ==
  \/ \E r \in rows : r.id = n.id /\ r.rev >= n.rev /\ r.ackN >= n.ackN
  \/ Cardinality(rows) = Capacity
Ahead(a, b) == \A n \in a.rows : Kept(n, b.rows)
Kin(a, b) == a.lineage = b.lineage /\ a.epoch = b.epoch

(* What a caller was told is durable, by a flush that found a card in the  *)
(* slot, is on that card at that revision or a later one, through merges,  *)
(* failed writes, card changes and power losses.  Without a card the same  *)
(* answer (outcome->durable) promises nothing.                             *)
PromiseKept ==
  \A s \in Sessions :
    told[s].rev > 0 /\ told[s].card # NoCard =>
      /\ cards[told[s].card] # NoBlob
      /\ Kept([id |-> s, rev |-> told[s].rev, ackN |-> 0], cards[told[s].card].rows)

(* No write takes a card behind what it held of the same history: neither  *)
(* a row, nor its delivery revision, nor the ACKs spent on an inbound      *)
(* message are lost by a store that booted without this card, that read    *)
(* it late, or whose rows were renumbered, unless the ring is full.        *)
CardsAdvance ==
  [][\A c \in Cards :
       cards[c] # NoBlob /\ Kin(cards[c], cards'[c]) => Ahead(cards[c], cards'[c])]_vars

(* A history begun by a clear is replaced on a card only by that of a      *)
(* later clear.                                                            *)
OnlyClearsReplace ==
  [][\A c \in Cards :
       cards[c] # NoBlob /\ cards[c].lineage \in 1 .. MaxClears =>
         cards'[c].lineage \in cards[c].lineage .. MaxClears]_vars

(* What a copy b has to be for nothing of the history a to be lost with a: *)
(* the same history, with its rows, or a later epoch or clear.             *)
Succeeds(a, b) ==
  \/ Kin(a, b) /\ Ahead(a, b)
  \/ a.lineage = b.lineage /\ a.epoch < b.epoch
  \/ a.lineage # b.lineage /\ b.lineage \in 1 .. MaxClears


(* The rows readers see as ACKNOWLEDGED, and those a copy holds so.        *)
Acked(rows) == {r.id : r \in {x \in rows : x.st = "ACKNOWLEDGED"}}
ShownAcked == Acked({Public(r) : r \in ram.rows})
HeldAcked == UNION {Acked(b.rows) : b \in Media}

(* A reader is shown ACKNOWLEDGED only when a copy holds it.               *)
PublicAckDurable == ShownAcked \subseteq HeldAcked

(* An operation that has a card to save to shows no new ACKNOWLEDGED       *)
(* before a copy holds it, in any step but a reconcile: flushes, failed    *)
(* and late writes, mutations, a clear, a card change or a power loss.  A  *)
(* merge drops the masks (clear_history_locked) before it writes anything. *)
WithCard == io.sd \/ (io.pc = "idle" /\ slot # NoCard)
AckShownOnceSaved ==
  [][WithCard /\ io.pc # "reconcile" =>
       ShownAcked' \ ShownAcked \subseteq HeldAcked']_vars

(* Rows a completed clear removed do not come back.                        *)
NoResurrection ==
  \A p \in cleared : p.id \in Sessions => p.id \notin Ids(ram.rows)

(* ... and no card brings them into a store that runs with authority over  *)
(* another history, which it has from the clear on, or from the boot that  *)
(* read the later history back.                                            *)
AuthorityFencesCards ==
  [][fl.loaded /\ fl.auth =>
       \A p \in cleared :
         p.id \in Sessions \ Ids(ram.rows) /\ p.lineage # ram.lineage =>
           p.id \notin Ids(ram'.rows)]_vars

(* Two copies of one lineage are of one epoch, so a merge never needs to   *)
(* order epochs within a lineage.                                          *)
LineageHasOneEpoch ==
  \A a, b \in Media \union {ram} : a.lineage = b.lineage => a.epoch = b.epoch

(* An outbound message whose outcome readers see as open keeps its row     *)
(* while the device runs and the history is not cleared.  A merge does not *)
(* see to that.                                                            *)
OpenRowsStay ==
  fl.loaded /\ fl'.loaded /\ clear'.pc # "erase" =>
    \A r \in ram.rows :
      r.dir = "tx" /\ ~Terminal(Public(r).st) => r.id \in Ids(ram'.rows)

(* Once faults, card changes and mutations end, the card in the slot, if   *)
(* one is, holds the rows in RAM, for good.                                *)
EventuallySaved ==
  <>[](/\ fl.loaded
       /\ slot # NoCard =>
            cards[slot] = ram \/ (cards[slot] = NoBlob /\ ram.rows = {}))
=============================================================================
