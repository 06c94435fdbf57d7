--------------------------- MODULE DmStoreProofs ----------------------------
(***************************************************************************)
(* For every capacity, every set of cards and digests, and whatever the    *)
(* bounds, of the DM store:                                                *)
(*   - a card it believes saved is saved (CardInv; nothing is used of what *)
(*     a merge computes);                                                  *)
(*   - every blob it makes decodes, and the copies of one lineage are of   *)
(*     one epoch (BlobsInv; this is about what merges compute);            *)
(*   - its control state and its rows have their types;                    *)
(*   - only a merge evicts an open delivery;                               *)
(*   - with a card to save to, only a merge shows an ACK that no copy      *)
(*     holds (OperationInv: what a running operation has found and done);  *)
(*   - no write takes a card behind what it held of the same history       *)
(*     (AdvanceInv: what RAM and the snapshot have of each card);          *)
(*   - what a caller was told is durable stays on the card it was saved to *)
(*     (PromiseInv).                                                       *)
(***************************************************************************)
EXTENDS DmStore, FiniteSetTheorems, TLAPS

(* The snapshot a write stores is what RAM holds while it is fresh, until  *)
(* the rows change; and no persist operation runs before the rows are      *)
(* loaded.                                                                 *)
SnapshotInv ==
  /\ DOMAIN fl = FlagFields /\ DOMAIN io = IoFields /\ io.pc \in IoSteps
  /\ ~fl.loaded => io.pc = "idle"
  /\ io.pc \in WithSnapshot /\ io.fresh => io.snap = ram

USE DEF SnapshotInv, IoSteps, WithSnapshot

(* What an action leaves alone of what SnapshotInv looks at.               *)
SameFlags == DOMAIN fl' = FlagFields /\ fl'.loaded = fl.loaded
SameCall == DOMAIN io' = IoFields /\ io'.pc = io.pc /\ io'.snap = io.snap

LEMMA InitSnapshot == Init => SnapshotInv
  <1>1. Init => fl = ResetFlags(FALSE) /\ io = IdleIo
    BY Zenon DEF Init
  <1>2. QED BY <1>1 DEF ResetFlags, IdleIo, FlagFields, IoFields

LEMMA Idle ==
  ASSUME io' = IdleIo
  PROVE  DOMAIN io' = IoFields /\ io'.pc = "idle"
  BY DEF IdleIo, IoFields

(* A mutation of the rows makes the running snapshot stale.                *)
LEMMA MutationKeepsSnapshot ==
  ASSUME SnapshotInv, fl.loaded, io' = [io EXCEPT !.fresh = FALSE],
         fl' = Touched \/ fl' = [Touched EXCEPT !.bootNext = 1]
  PROVE  SnapshotInv'
  <1>1. DOMAIN fl' = FlagFields /\ fl'.loaded
    BY DEF Touched, FlagFields
  <1>2. SameCall /\ io'.fresh = FALSE
    BY DEF SameCall, IoFields
  <1>3. QED BY <1>1, <1>2 DEF SameCall

RowsMove ==
  \/ AppendTx \/ AppendRx
  \/ TransitionSync \/ TransitionDeferred \/ Acknowledge
  \/ ReserveAck \/ CompleteAck

LEMMA RowsTouch ==
  ASSUME RowsMove \/ ClearRows
  PROVE  /\ fl.loaded /\ io' = [io EXCEPT !.fresh = FALSE]
         /\ UNCHANGED <<nvs, cards, slot, cleared>>
         /\ fl' = Touched \/ (ClearRows /\ fl' = [Touched EXCEPT !.bootNext = 1])
         /\ RowsMove => OwnerMayMutate /\ UNCHANGED <<clear, told>> /\ fl' = Touched
  <1>1. ASSUME NEW rows, OwnerMayMutate, Mutate(rows)
        PROVE  /\ OwnerMayMutate /\ fl.loaded /\ io' = [io EXCEPT !.fresh = FALSE]
               /\ UNCHANGED <<nvs, cards, slot, clear, told, cleared>> /\ fl' = Touched
    BY <1>1 DEF Mutate, OwnerMayMutate, ghosts
  <1>2. ASSUME NEW row, OwnerMayMutate, AppendRow(row)
        PROVE  /\ OwnerMayMutate /\ fl.loaded /\ io' = [io EXCEPT !.fresh = FALSE]
               /\ UNCHANGED <<nvs, cards, slot, clear, told, cleared>> /\ fl' = Touched
    BY <1>2 DEF AppendRow, OwnerMayMutate, ghosts
  <1>3. CASE AppendTx
    BY <1>2, <1>3, Zenon DEF AppendTx, RowsMove
  <1>4. CASE AppendRx
    BY <1>2, <1>4, Zenon DEF AppendRx, RowsMove
  <1>5. CASE TransitionSync \/ TransitionDeferred
    BY <1>1, <1>5, Zenon DEF TransitionSync, TransitionDeferred, RowsMove
  <1>6. CASE Acknowledge \/ ReserveAck \/ CompleteAck
    BY <1>1, <1>6, Zenon DEF Acknowledge, ReserveAck, CompleteAck, RowsMove
  <1>7. CASE ClearRows /\ ~RowsMove
    BY <1>7 DEF ClearRows
  <1>8. QED BY <1>3, <1>4, <1>5, <1>6, <1>7 DEF RowsMove

LEMMA RowsKeepSnapshot ==
  ASSUME SnapshotInv, RowsMove \/ ClearRows
  PROVE  SnapshotInv'
  BY RowsTouch, MutationKeepsSnapshot

LEMMA ClearEraseKeepsSnapshot ==
  ASSUME SnapshotInv, ClearErase
  PROVE  SnapshotInv'
  BY DEF ClearErase

LEMMA BeginKeepsSnapshot ==
  ASSUME SnapshotInv, NEW who, NEW force, PersistBegin(who, force)
  PROVE  SnapshotInv'
  <1>1. fl.loaded /\ io.pc = "idle" /\ UNCHANGED ram
    BY DEF PersistBegin
  <1>2. fl' = fl \/ fl' = GenerationNoted(fl)
    BY DEF PersistBegin
  <1>3. SameFlags
    BY <1>2 DEF SameFlags, GenerationNoted, FlagFields
  <1>4. CASE io' = io
    BY <1>1, <1>3, <1>4 DEF SameFlags
  <1>5. CASE io' # io
    <2>1. PICK sd, recon :
            io' = [IdleIo EXCEPT !.pc = IF sd /\ recon THEN "reconcile" ELSE "snapshot",
                                 !.who = who, !.force = force,
                                 !.sd = sd, !.genOk = TRUE, !.card = slot]
      BY <1>5 DEF PersistBegin
    <2>2. DOMAIN io' = IoFields /\ io'.pc \in {"reconcile", "snapshot"}
      BY <2>1 DEF IdleIo, IoFields
    <2>3. QED BY <1>1, <1>3, <2>2 DEF SameFlags
  <1>6. QED BY <1>4, <1>5

LEMMA NotFinishedKeepsSnapshot ==
  ASSUME SnapshotInv, NotFinished
  PROVE  SnapshotInv'
  BY Idle DEF NotFinished

LEMMA ReconcileKeepsSnapshot ==
  ASSUME SnapshotInv, Reconcile
  PROVE  SnapshotInv'
  <1>1. io.pc = "reconcile" /\ fl.loaded
    BY DEF Reconcile
  <1>2. CASE NotFinished
    BY <1>2, NotFinishedKeepsSnapshot
  <1>3. CASE ReconcileMerges /\ UNCHANGED nvs
    <2> DEFINE merged == MergePrimary(ram, cards[slot], fl.auth, LiveFrom)
    <2>1. /\ ram' = merged
          /\ io' = [io EXCEPT !.pc = "snapshot"]
          /\ fl' = [fl EXCEPT !.recon = FALSE, !.auth = TRUE,
                              !.sdDirty = merged # cards[slot],
                              !.nvsDirty = @ \/ merged # ram,
                              !.bootNext = IF fl.mutated THEN @ ELSE merged.nextSeq]
      BY <1>3 DEF ReconcileMerges
    <2> HIDE DEF merged
    <2>2. DOMAIN fl' = FlagFields /\ fl'.loaded = fl.loaded
      BY <2>1 DEF FlagFields
    <2>3. DOMAIN io' = IoFields /\ io'.pc = "snapshot"
      BY <2>1 DEF IoFields
    <2>4. QED BY <1>1, <1>3, <2>2, <2>3
  <1>4. CASE ~NotFinished /\ ~ReconcileMerges
    <2>1. UNCHANGED ram
      BY <1>4 DEF Reconcile, ReconcileStale, ReconcileReadFails, ReconcileConflict,
                  ReconcileRolledBack, ReconcileAbsent, ReconcileFails
    <2>2. SameFlags
      BY <1>4 DEF Reconcile, ReconcileStale, ReconcileReadFails, ReconcileConflict,
                  ReconcileRolledBack, ReconcileAbsent, ReconcileFails, SameFlags,
                  FlagFields
    <2>3. DOMAIN io' = IoFields /\ io'.pc \in {"nvsOnly", "snapshot"}
      BY <1>1, <1>4 DEF Reconcile, ReconcileStale, ReconcileReadFails,
         ReconcileConflict, ReconcileRolledBack, ReconcileAbsent, ReconcileFails,
         IoFields
    <2>4. QED BY <1>1, <2>1, <2>2, <2>3 DEF SameFlags
  <1>5. QED BY <1>2, <1>3, <1>4 DEF Reconcile

LEMMA NvsOnlyKeepsSnapshot ==
  ASSUME SnapshotInv, NvsOnlySnapshot \/ NvsOnlyWrite \/ NvsOnlyFinish
  PROVE  SnapshotInv'
  <1>1. CASE NvsOnlySnapshot
    <2>1. CASE ~fl.nvsDirty
      BY <1>1, <2>1, Idle DEF NvsOnlySnapshot
    <2>2. CASE fl.nvsDirty
      <3>1. DOMAIN io' = IoFields /\ io'.pc = "nvsOnlyWrite" /\ io'.snap = ram
        BY <1>1, <2>2 DEF NvsOnlySnapshot, IoFields
      <3>2. fl.loaded /\ UNCHANGED <<ram, fl>>
        BY <1>1 DEF NvsOnlySnapshot
      <3>3. QED BY <3>1, <3>2
    <2>3. QED BY <2>1, <2>2
  <1>2. CASE NvsOnlyWrite
    <2>1. PICK ret \in {"ok", "fail"} : io' = [io EXCEPT !.pc = "nvsOnlyFinish", !.nvsRet = ret]
      BY <1>2 DEF NvsOnlyWrite
    <2>2. /\ DOMAIN io' = IoFields /\ io'.pc = "nvsOnlyFinish"
          /\ io'.snap = io.snap /\ io'.fresh = io.fresh
      BY <2>1 DEF IoFields
    <2>3. io.pc = "nvsOnlyWrite" /\ fl.loaded /\ UNCHANGED <<ram, fl>>
      BY <1>2 DEF NvsOnlyWrite
    <2>4. QED BY <2>2, <2>3
  <1>3. CASE NvsOnlyFinish
    <2>1. DOMAIN fl' = FlagFields /\ fl'.loaded = fl.loaded
      BY <1>3 DEF NvsOnlyFinish, FlagFields
    <2>2. io.pc = "nvsOnlyFinish" /\ io' = IdleIo /\ UNCHANGED ram
      BY <1>3 DEF NvsOnlyFinish
    <2>3. QED BY <2>1, <2>2, Idle
  <1>4. QED BY <1>1, <1>2, <1>3

LEMMA WritesKeepSnapshot ==
  ASSUME SnapshotInv, Snapshot \/ SdWrite \/ SdCheck \/ NvsWrite
  PROVE  SnapshotInv'
  <1>1. CASE Snapshot
    <2>1. /\ DOMAIN io' = IoFields /\ io'.snap = ram
          /\ io'.pc \in {"sd", "nvs", "finish"}
      BY <1>1 DEF Snapshot, IoFields
    <2>2. fl.loaded /\ UNCHANGED <<ram, fl>>
      BY <1>1 DEF Snapshot
    <2>3. QED BY <2>1, <2>2
  <1>2. CASE SdWrite
    <2>1. CASE NotFinished
      BY <2>1, NotFinishedKeepsSnapshot
    <2>2. CASE ~NotFinished
      <3>1. /\ DOMAIN io' = IoFields /\ io'.pc = "sdCheck" /\ io'.snap = io.snap
            /\ io'.fresh = io.fresh
        BY <1>2, <2>2 DEF SdWrite, IoFields
      <3>2. io.pc = "sd" /\ UNCHANGED <<ram, fl>>
        BY <1>2, <2>2 DEF SdWrite
      <3>3. QED BY <3>1, <3>2
    <2>3. QED BY <2>1, <2>2
  <1>3. CASE SdCheck
    <2>1. /\ DOMAIN io' = IoFields /\ io'.snap = io.snap /\ io'.fresh = io.fresh
          /\ io'.pc = IF io.nvsTry THEN "nvs" ELSE "finish"
      BY <1>3 DEF SdCheck, IoFields
    <2>2. io.pc = "sdCheck" /\ UNCHANGED <<ram, fl>>
      BY <1>3 DEF SdCheck
    <2>3. QED BY <2>1, <2>2
  <1>4. CASE NvsWrite
    <2>1. PICK ret \in {"ok", "fail"} : io' = [io EXCEPT !.pc = "finish", !.nvsRet = ret]
      BY <1>4 DEF NvsWrite
    <2>2. /\ DOMAIN io' = IoFields /\ io'.pc = "finish"
          /\ io'.snap = io.snap /\ io'.fresh = io.fresh
      BY <2>1 DEF IoFields
    <2>3. io.pc = "nvs" /\ fl.loaded /\ UNCHANGED <<ram, fl>>
      BY <1>4 DEF NvsWrite
    <2>4. QED BY <2>2, <2>3
  <1>5. QED BY <1>1, <1>2, <1>3, <1>4

(* What Finish leaves of the flags, and whom it unmasks and tells what.    *)
SdSaved == io.sdTry /\ io.sdRet = "ok" /\ io.fresh

LEMMA FinishFlags ==
  ASSUME SnapshotInv, Finish
  PROVE  /\ DOMAIN fl' = FlagFields /\ fl'.loaded = fl.loaded /\ fl'.auth = fl.auth
         /\ fl'.genSeen = fl.genSeen
         /\ fl'.sdDirty = (fl.sdDirty /\ ~SdSaved)
         /\ fl'.recon = (fl.recon \/ io.sdRet = "stale")
         /\ mask' = mask \/ (mask' = {} /\ ~Dirty(fl', io.sd))
         /\ \E ok : Return(io.who, ok, io.card) /\ (ok /\ io.force => ~Dirty(fl', io.sd))
  <1> DEFINE saved(try, ret) == try /\ ret = "ok" /\ io.fresh
             f == [fl EXCEPT !.sdDirty = @ /\ ~saved(io.sdTry, io.sdRet),
                             !.nvsDirty = @ /\ ~saved(io.nvsTry, io.nvsRet),
                             !.recon = @ \/ io.sdRet = "stale"]
             failed == io.sdRet # "ok" \/ io.nvsRet # "ok"
             again == f.retry \/ failed \/ ~io.fresh
  <1>1. /\ DOMAIN f = FlagFields /\ f.loaded = fl.loaded /\ f.auth = fl.auth
        /\ f.genSeen = fl.genSeen
        /\ f.sdDirty = (fl.sdDirty /\ ~saved(io.sdTry, io.sdRet))
        /\ f.recon = (fl.recon \/ io.sdRet = "stale")
    BY DEF FlagFields
  <1>2. \/ fl' = [f EXCEPT !.retry = again]
        \/ fl' = [f EXCEPT !.retry = FALSE, !.mutated = FALSE, !.bootNext = ram.nextSeq]
        \/ fl' = [f EXCEPT !.retry = FALSE]
    BY DEF Finish
  <1>3. /\ mask' = IF Dirty(f, io.sd) THEN mask ELSE {}
        /\ Return(io.who, ~failed /\ (io.force => ~Dirty(f, io.sd)), io.card)
    BY DEF Finish
  <1> HIDE DEF f, again, failed
  <1>4. /\ DOMAIN fl' = FlagFields /\ fl'.loaded = f.loaded /\ fl'.auth = f.auth
        /\ fl'.genSeen = f.genSeen /\ fl'.sdDirty = f.sdDirty
        /\ fl'.nvsDirty = f.nvsDirty /\ fl'.recon = f.recon
    BY <1>1, <1>2 DEF FlagFields
  <1>5. Dirty(fl', io.sd) = Dirty(f, io.sd)
    BY <1>4 DEF Dirty
  <1>6. QED BY <1>1, <1>3, <1>4, <1>5 DEF SdSaved

LEMMA FinishKeepsSnapshot ==
  ASSUME SnapshotInv, Finish
  PROVE  SnapshotInv'
  <1>1. io.pc = "finish" /\ io' = IdleIo /\ UNCHANGED ram
    BY DEF Finish
  <1>2. QED BY <1>1, FinishFlags, Idle

LEMMA StorageKeepsSnapshot ==
  ASSUME SnapshotInv, Toggle \/ Crash
  PROVE  SnapshotInv'
  <1>1. CASE Toggle
    <2>1. SameFlags /\ SameCall /\ io'.fresh = io.fresh
      BY <1>1 DEF Toggle, SameFlags, SameCall, FlagFields, IoFields
    <2>2. QED BY <1>1, <2>1 DEF Toggle, SameFlags, SameCall
  <1>2. CASE Crash
    <2>1. DOMAIN fl' = FlagFields /\ fl'.loaded = FALSE
      BY <1>2 DEF Crash, ResetFlags, FlagFields
    <2>2. QED BY <1>2, <2>1, Idle DEF Crash
  <1>3. QED BY <1>1, <1>2

LEMMA BootKeepsSnapshot ==
  ASSUME SnapshotInv, Boot
  PROVE  SnapshotInv'
  <1>1. PICK nvsRead \in BOOLEAN, sdRead \in BOOLEAN, changed \in BOOLEAN :
          Load(nvsRead, sdRead, changed)
    BY DEF Boot
  <1>2. UNCHANGED io /\ io.pc = "idle"
    BY DEF Boot
  <1>3. QED
    BY <1>1, <1>2 DEF Load, FlagFields

LEMMA StepKeepsSnapshot ==
  ASSUME SnapshotInv, [Next]_vars
  PROVE  SnapshotInv'
  <1>1. CASE UNCHANGED vars
    BY <1>1 DEF vars
  <1>2. CASE Persist
    BY <1>2, BeginKeepsSnapshot, ReconcileKeepsSnapshot, NvsOnlyKeepsSnapshot,
       WritesKeepSnapshot, FinishKeepsSnapshot
    DEF Persist
  <1>3. CASE Next /\ ~Persist
    BY <1>3, RowsKeepSnapshot, ClearEraseKeepsSnapshot, StorageKeepsSnapshot,
       BootKeepsSnapshot DEF Next, RowsMove
  <1>4. QED BY <1>1, <1>2, <1>3

HIDE DEF SnapshotInv
-----------------------------------------------------------------------------
(* The card.  The generation the running operation read is current while   *)
(* the store's own is; with a current generation the slot is the one the   *)
(* operation began with.  A write of the card is only tried while it is    *)
(* dirty, and one that returned OK has put the snapshot on the card that   *)
(* is in the slot, unless the backend has changed since.                   *)
GenerationInv ==
  io.pc # "idle" => /\ fl.genSeen => io.genOk
                    /\ io.genOk /\ io.sd => slot # NoCard
                    /\ io.pc = "reconcile" => io.sd
SdWriting == io.pc \in {"sd", "sdCheck"} => io.sd /\ io.sdTry /\ fl.sdDirty
SdWritten ==
  io.pc \in {"sdCheck", "nvs", "finish"} /\ io.sdTry /\ io.sdRet = "ok" /\ fl.genSeen =>
    cards[slot] = io.snap

CardInv ==
  /\ DOMAIN cards = Cards /\ slot \in Cards \cup {NoCard}
  /\ GenerationInv /\ SdWriting /\ SdWritten
  /\ SdCleanMeansSaved

LEMMA SnapshotFacts ==
  ASSUME SnapshotInv
  PROVE  /\ DOMAIN fl = FlagFields /\ DOMAIN io = IoFields /\ io.pc \in IoSteps
         /\ ~fl.loaded => io.pc = "idle"
         /\ io.pc \in WithSnapshot /\ io.fresh => io.snap = ram
  BY DEF SnapshotInv

LEMMA InitCard == Init => CardInv
  <1>1. Init => /\ fl = ResetFlags(FALSE) /\ io = IdleIo /\ slot = NoCard
                /\ cards \in [Cards -> InitialCards]
    BY Zenon DEF Init
  <1>2. QED
    BY <1>1 DEF ResetFlags, IdleIo, CardInv, GenerationInv, SdWriting, SdWritten,
                SdCleanMeansSaved

(* A step that leaves the operation where it is, or ends it, and the card  *)
(* and what is said of it alone.                                           *)
LEMMA QuietKeepsCard ==
  ASSUME CardInv, UNCHANGED <<ram, cards, slot>>,
         fl'.genSeen = fl.genSeen, fl'.sdDirty = fl.sdDirty, fl'.recon = fl.recon,
         fl'.loaded = fl.loaded,
         \/ io'.pc = "idle"
         \/ /\ io.pc # "idle" /\ io'.genOk = io.genOk /\ io'.sd = io.sd
            /\ io'.pc \notin {"reconcile", "sd", "sdCheck", "nvs", "finish"}
         \/ /\ io'.genOk = io.genOk /\ io'.sd = io.sd /\ io'.pc = io.pc
            /\ io'.sdTry = io.sdTry /\ io'.sdRet = io.sdRet /\ io'.snap = io.snap
  PROVE  CardInv'
  BY DEF CardInv, GenerationInv, SdWriting, SdWritten, SdCleanMeansSaved

LEMMA RowsKeepCard ==
  ASSUME SnapshotInv, CardInv, RowsMove \/ ClearRows
  PROVE  CardInv'
  <1>1. fl.loaded /\ io' = [io EXCEPT !.fresh = FALSE] /\ UNCHANGED <<cards, slot>>
    BY RowsTouch
  <1>2. fl' = Touched \/ fl' = [Touched EXCEPT !.bootNext = 1]
    BY RowsTouch
  <1>3. fl'.sdDirty /\ fl'.genSeen = fl.genSeen
    BY <1>2, SnapshotFacts DEF Touched, FlagFields
  <1>4. /\ io'.pc = io.pc /\ io'.sd = io.sd /\ io'.genOk = io.genOk /\ io'.sdTry = io.sdTry
        /\ io'.sdRet = io.sdRet /\ io'.snap = io.snap
    BY <1>1, SnapshotFacts DEF IoFields
  <1>5. QED
    BY <1>1, <1>3, <1>4 DEF CardInv, GenerationInv, SdWriting, SdWritten, SdCleanMeansSaved

LEMMA ClearEraseKeepsCard ==
  ASSUME CardInv, ClearErase
  PROVE  CardInv'
  BY QuietKeepsCard DEF ClearErase

LEMMA NotFinishedKeepsCard ==
  ASSUME CardInv, NotFinished
  PROVE  CardInv'
  BY Idle, QuietKeepsCard DEF NotFinished

LEMMA BeginKeepsCard ==
  ASSUME SnapshotInv, CardInv, NEW who, NEW force, PersistBegin(who, force)
  PROVE  CardInv'
  <1>1. io.pc = "idle" /\ UNCHANGED <<ram, cards, slot>>
    BY DEF PersistBegin
  <1>2. \/ fl.genSeen /\ fl' = fl
        \/ ~fl.genSeen /\ fl' = GenerationNoted(fl)
    BY DEF PersistBegin
  <1>3. \/ fl' = fl
        \/ fl'.recon
    BY <1>2, SnapshotFacts DEF GenerationNoted, FlagFields
  <1>4. SdCleanMeansSaved'
    BY <1>1, <1>3 DEF CardInv, SdCleanMeansSaved
  <1>5. CASE io' = io
    BY <1>1, <1>4, <1>5 DEF CardInv, GenerationInv, SdWriting, SdWritten
  <1>6. CASE io' # io
    <2>1. PICK recon :
            io' = [IdleIo EXCEPT !.pc = IF (slot # NoCard) /\ recon THEN "reconcile"
                                                                 ELSE "snapshot",
                                 !.who = who, !.force = force,
                                 !.sd = (slot # NoCard), !.genOk = TRUE,
                                 !.card = slot]
      BY <1>6 DEF PersistBegin
    <2>2. /\ io'.pc \in {"reconcile", "snapshot"} /\ io'.genOk /\ io'.sd = (slot # NoCard)
          /\ io'.pc = "reconcile" => slot # NoCard
      BY <2>1 DEF IdleIo
    <2>3. QED BY <1>1, <1>4, <2>2 DEF CardInv, GenerationInv, SdWriting, SdWritten
  <1>7. QED BY <1>5, <1>6

(* A reconcile that fails leaves the card to be reconciled with; one that  *)
(* succeeds says the card is saved only when it holds the merged rows.     *)
LEMMA ReconcileKeepsCard ==
  ASSUME SnapshotInv, CardInv, Reconcile
  PROVE  CardInv'
  <1>1. io.pc = "reconcile"
    BY DEF Reconcile
  <1>2. CASE NotFinished
    BY <1>2, NotFinishedKeepsCard
  <1>3. CASE ReconcileRolledBack
    <2>1. fl'.genSeen = FALSE /\ io'.pc = "nvsOnly" /\ io'.genOk = FALSE
          /\ slot' = NoCard /\ UNCHANGED cards
      BY <1>3, SnapshotFacts DEF ReconcileRolledBack, FlagFields, IoFields
    <2>2. QED
      BY <2>1 DEF CardInv, GenerationInv, SdWriting, SdWritten, SdCleanMeansSaved
  <1>4. CASE ReconcileStale \/ ReconcileReadFails \/ ReconcileConflict
    <2>1. UNCHANGED <<cards, slot>> /\ ReconcileFails
      BY <1>4 DEF ReconcileStale, ReconcileReadFails, ReconcileConflict, ReconcileFails
    <2>2. /\ fl'.recon /\ fl'.genSeen = fl.genSeen
          /\ io'.pc = "nvsOnly" /\ io'.genOk = io.genOk /\ io'.sd = io.sd
      BY <2>1, SnapshotFacts DEF ReconcileFails, FlagFields, IoFields
    <2>3. QED
      BY <1>1, <2>1, <2>2 DEF CardInv, GenerationInv, SdWriting, SdWritten, SdCleanMeansSaved
  <1>5. CASE ReconcileAbsent
    <2>1. /\ fl'.sdDirty = (ram.rows # {} \/ ram.epoch > 1 \/ ram.lineage # 0)
          /\ fl'.genSeen = fl.genSeen
          /\ io'.pc = "snapshot" /\ io'.genOk = io.genOk /\ io'.sd = io.sd
      BY <1>5, SnapshotFacts DEF ReconcileAbsent, FlagFields, IoFields
    <2>2. UNCHANGED <<ram, cards, slot>> /\ cards[slot] = NoBlob
      BY <1>5 DEF ReconcileAbsent
    <2>3. QED
      BY <1>1, <2>1, <2>2 DEF CardInv, GenerationInv, SdWriting, SdWritten, SdCleanMeansSaved
  <1>6. CASE ReconcileMerges
    <2> DEFINE merged == MergePrimary(ram, cards[slot], fl.auth, LiveFrom)
    <2>1. /\ ram' = merged
          /\ io' = [io EXCEPT !.pc = "snapshot"]
          /\ fl' = [fl EXCEPT !.recon = FALSE, !.auth = TRUE,
                              !.sdDirty = merged # cards[slot],
                              !.nvsDirty = @ \/ merged # ram,
                              !.bootNext = IF fl.mutated THEN @ ELSE merged.nextSeq]
          /\ UNCHANGED <<cards, slot>>
      BY <1>6 DEF ReconcileMerges
    <2> HIDE DEF merged
    <2>2. fl'.sdDirty = (merged # cards[slot]) /\ fl'.genSeen = fl.genSeen
      BY <2>1, SnapshotFacts DEF FlagFields
    <2>3. io'.pc = "snapshot" /\ io'.genOk = io.genOk /\ io'.sd = io.sd
      BY <2>1, SnapshotFacts DEF IoFields
    <2>4. QED
      BY <1>1, <2>1, <2>2, <2>3
      DEF CardInv, GenerationInv, SdWriting, SdWritten, SdCleanMeansSaved
  <1>7. QED BY <1>2, <1>3, <1>4, <1>5, <1>6 DEF Reconcile

LEMMA NvsOnlyKeepsCard ==
  ASSUME SnapshotInv, CardInv, NvsOnlySnapshot \/ NvsOnlyWrite \/ NvsOnlyFinish
  PROVE  CardInv'
  <1>1. CASE NvsOnlySnapshot
    <2>1. UNCHANGED <<ram, fl, cards, slot>> /\ io.pc # "idle"
      BY <1>1 DEF NvsOnlySnapshot
    <2>2. \/ io' = IdleIo
          \/ io' = [io EXCEPT !.pc = "nvsOnlyWrite", !.snap = ram, !.fresh = TRUE]
      BY <1>1 DEF NvsOnlySnapshot
    <2>3. \/ io'.pc = "idle"
          \/ io'.pc = "nvsOnlyWrite" /\ io'.genOk = io.genOk /\ io'.sd = io.sd
      BY <2>2, Idle, SnapshotFacts DEF IoFields
    <2>4. QED BY <2>1, <2>3, QuietKeepsCard
  <1>2. CASE NvsOnlyWrite
    <2>1. PICK ret \in {"ok", "fail"} : io' = [io EXCEPT !.pc = "nvsOnlyFinish", !.nvsRet = ret]
      BY <1>2 DEF NvsOnlyWrite
    <2>2. io'.pc = "nvsOnlyFinish" /\ io'.genOk = io.genOk /\ io'.sd = io.sd
      BY <2>1, SnapshotFacts DEF IoFields
    <2>3. UNCHANGED <<ram, fl, cards, slot>> /\ io.pc # "idle"
      BY <1>2 DEF NvsOnlyWrite
    <2>4. QED BY <2>2, <2>3, QuietKeepsCard
  <1>3. CASE NvsOnlyFinish
    <2>1. /\ fl'.genSeen = fl.genSeen /\ fl'.sdDirty = fl.sdDirty
          /\ fl'.recon = fl.recon /\ fl'.loaded = fl.loaded
      BY <1>3, SnapshotFacts DEF NvsOnlyFinish, FlagFields
    <2>2. io' = IdleIo /\ UNCHANGED <<ram, cards, slot>>
      BY <1>3 DEF NvsOnlyFinish
    <2>3. QED BY <2>1, <2>2, Idle, QuietKeepsCard
  <1>4. QED BY <1>1, <1>2, <1>3

LEMMA WritesKeepCard ==
  ASSUME SnapshotInv, CardInv, Snapshot \/ SdWrite \/ SdCheck \/ NvsWrite
  PROVE  CardInv'
  <1>1. CASE Snapshot
    <2>1. UNCHANGED <<ram, fl, cards, slot>> /\ io.pc = "snapshot"
      BY <1>1 DEF Snapshot
    <2>2. /\ io'.genOk = io.genOk /\ io'.sd = io.sd /\ io'.sdTry = (io.sd /\ fl.sdDirty)
          /\ io'.pc \in {"sd", "nvs", "finish"} /\ (io'.pc = "sd") = (io.sd /\ fl.sdDirty)
      BY <1>1, SnapshotFacts DEF Snapshot, IoFields
    <2>3. QED
      BY <2>1, <2>2 DEF CardInv, GenerationInv, SdWriting, SdWritten, SdCleanMeansSaved
  <1>2. CASE SdWrite
    <2>1. CASE NotFinished
      BY <2>1, NotFinishedKeepsCard
    <2>2. CASE ~NotFinished
      <3>1. io.pc = "sd" /\ UNCHANGED <<ram, fl, slot>>
        BY <1>2, <2>2 DEF SdWrite
      <3>2. /\ io'.pc = "sdCheck" /\ io'.genOk = io.genOk /\ io'.sd = io.sd
            /\ io'.sdTry = io.sdTry /\ io'.snap = io.snap
        BY <1>2, <2>2, SnapshotFacts DEF SdWrite, IoFields
      <3>5. io.genOk => slot \in Cards
        BY <3>1 DEF CardInv, GenerationInv, SdWriting
      <3>3. \/ io.genOk /\ cards' = [cards EXCEPT ![slot] = io.snap]
            \/ ~io.genOk /\ cards' = cards
            \/ io'.sdRet = "fail" /\ cards' = cards
            \/ io'.sdRet = "fail" /\ io.genOk /\ cards' = [cards EXCEPT ![slot] = io.snap]
        BY <1>2, <2>2, SnapshotFacts DEF SdWrite, IoFields
      <3>4. DOMAIN cards' = DOMAIN cards
        BY <3>3
      <3>6. io'.sdRet = "ok" /\ io.genOk => cards'[slot] = io.snap
        BY <3>3, <3>5 DEF CardInv
      <3>7. fl.sdDirty
        BY <3>1 DEF CardInv, SdWriting
      <3>8. QED
        BY <3>1, <3>2, <3>4, <3>6, <3>7
        DEF CardInv, GenerationInv, SdWriting, SdWritten, SdCleanMeansSaved
    <2>3. QED BY <2>1, <2>2
  <1>3. CASE SdCheck
    <2>1. UNCHANGED <<ram, fl, cards, slot>> /\ io.pc = "sdCheck"
      BY <1>3 DEF SdCheck
    <2>2. /\ io'.genOk = io.genOk /\ io'.sd = io.sd /\ io'.sdTry = io.sdTry
          /\ io'.snap = io.snap /\ io'.pc \in {"nvs", "finish"}
          /\ io'.sdRet = IF io.genOk THEN io.sdRet ELSE "stale"
      BY <1>3, SnapshotFacts DEF SdCheck, IoFields
    <2>3. QED
      BY <2>1, <2>2 DEF CardInv, GenerationInv, SdWriting, SdWritten, SdCleanMeansSaved
  <1>4. CASE NvsWrite
    <2>1. PICK ret \in {"ok", "fail"} : io' = [io EXCEPT !.pc = "finish", !.nvsRet = ret]
      BY <1>4 DEF NvsWrite
    <2>2. /\ io'.genOk = io.genOk /\ io'.sd = io.sd /\ io'.sdTry = io.sdTry
          /\ io'.snap = io.snap /\ io'.pc = "finish" /\ io'.sdRet = io.sdRet
      BY <2>1, SnapshotFacts DEF IoFields
    <2>3. UNCHANGED <<ram, fl, cards, slot>> /\ io.pc = "nvs"
      BY <1>4 DEF NvsWrite
    <2>4. QED
      BY <2>2, <2>3 DEF CardInv, GenerationInv, SdWriting, SdWritten, SdCleanMeansSaved
  <1>5. QED BY <1>1, <1>2, <1>3, <1>4

LEMMA FinishKeepsCard ==
  ASSUME SnapshotInv, CardInv, Finish
  PROVE  CardInv'
  <1>1. /\ fl'.loaded = fl.loaded /\ fl'.genSeen = fl.genSeen
        /\ fl'.sdDirty = (fl.sdDirty /\ ~SdSaved)
        /\ fl'.recon = (fl.recon \/ io.sdRet = "stale")
    BY FinishFlags
  <1>2. io.pc = "finish" /\ io'.pc = "idle" /\ UNCHANGED <<ram, cards, slot>>
    BY Idle DEF Finish
  <1>3. SdSaved /\ fl.genSeen => cards[slot] = ram
    BY <1>2, SnapshotFacts DEF CardInv, SdWritten, SdSaved
  <1>4. QED
    BY <1>1, <1>2, <1>3
    DEF CardInv, GenerationInv, SdWriting, SdWritten, SdCleanMeansSaved

LEMMA StorageKeepsCard ==
  ASSUME SnapshotInv, CardInv, Toggle \/ Crash
  PROVE  CardInv'
  <1>1. CASE Toggle
    <2>1. fl'.genSeen = FALSE /\ io'.genOk = FALSE /\ io'.pc = io.pc /\ io'.sd = io.sd
          /\ io'.sdTry = io.sdTry /\ fl'.sdDirty = fl.sdDirty
      BY <1>1, SnapshotFacts DEF Toggle, FlagFields, IoFields
    <2>2. UNCHANGED cards /\ slot' \in Cards \cup {NoCard}
      BY <1>1 DEF Toggle
    <2>3. QED
      BY <2>1, <2>2 DEF CardInv, GenerationInv, SdWriting, SdWritten, SdCleanMeansSaved
  <1>2. CASE Crash
    <2>1. fl'.loaded = FALSE /\ io'.pc = "idle" /\ UNCHANGED <<cards, slot>>
      BY <1>2, Idle DEF Crash, ResetFlags
    <2>2. QED
      BY <2>1 DEF CardInv, GenerationInv, SdWriting, SdWritten, SdCleanMeansSaved
  <1>3. QED BY <1>1, <1>2

LEMMA BootKeepsCard ==
  ASSUME SnapshotInv, CardInv, Boot
  PROVE  CardInv'
  <1>1. PICK nvsRead \in BOOLEAN, sdRead \in BOOLEAN, changed \in BOOLEAN :
          Load(nvsRead, sdRead, changed) /\ slot' = IF changed THEN NoCard ELSE slot
    BY DEF Boot
  <1>2. UNCHANGED <<cards, io>> /\ io.pc = "idle"
    BY SnapshotFacts DEF Boot
  <1>3. ~changed /\ slot # NoCard /\ ~fl'.recon /\ ~fl'.sdDirty =>
          cards[slot] = ram' \/ (cards[slot] = NoBlob /\ ram'.rows = {})
    BY <1>1 DEF Load
  <1>4. fl'.genSeen = ~changed
    BY <1>1 DEF Load
  <1>5. SdCleanMeansSaved'
    BY <1>1, <1>2, <1>3, <1>4 DEF SdCleanMeansSaved
  <1>6. QED
    BY <1>1, <1>2, <1>5 DEF CardInv, GenerationInv, SdWriting, SdWritten

LEMMA StepKeepsCard ==
  ASSUME SnapshotInv, CardInv, [Next]_vars
  PROVE  CardInv'
  <1>1. CASE UNCHANGED vars
    BY <1>1 DEF vars, CardInv, GenerationInv, SdWriting, SdWritten, SdCleanMeansSaved
  <1>2. CASE Persist
    BY <1>2, BeginKeepsCard, ReconcileKeepsCard, NvsOnlyKeepsCard, WritesKeepCard,
       FinishKeepsCard
    DEF Persist
  <1>3. CASE Next /\ ~Persist
    BY <1>3, RowsKeepCard, ClearEraseKeepsCard, StorageKeepsCard, BootKeepsCard
    DEF Next, RowsMove
  <1>4. QED BY <1>1, <1>2, <1>3

(* The card in the slot is what the store believes it to be: a card that   *)
(* is pulled, exchanged or inserted at any step of a flush, a write that   *)
(* half succeeds, and rows that move meanwhile leave it dirty, or due to   *)
(* be reconciled with.                                                     *)
THEOREM SdCopyTrusted == Spec => []SdCleanMeansSaved
  <1>1. SnapshotInv /\ CardInv /\ [Next]_vars => (SnapshotInv /\ CardInv)'
    BY StepKeepsSnapshot, StepKeepsCard
  <1>2. CardInv => SdCleanMeansSaved
    BY DEF CardInv
  <1>3. QED BY InitSnapshot, InitCard, <1>1, <1>2, PTL DEF Spec

-----------------------------------------------------------------------------
(* The blobs.  First what the operators on rows keep, for any rows.        *)

LEMMA ImageFinite ==
  ASSUME NEW S, IsFiniteSet(S), NEW T, NEW f \in [S -> T]
  PROVE  IsFiniteSet({f[x] : x \in S}) /\ Cardinality({f[x] : x \in S}) <= Cardinality(S)
  <1> DEFINE U == {f[x] : x \in S}
  <1>1. f \in Surjection(S, U)
    BY DEF Surjection
  <1>2. QED BY <1>1, FS_Surjection

LEMMA Least ==
  ASSUME NEW U \in SUBSET Nat, U # {}
  PROVE  \E k \in U : \A j \in U : k <= j
  <1>1. PICK k \in U : \A j \in U : ~(<<j, k>> \in OpToRel(<, Nat))
    BY WFMin, NatLessThanWellFounded
  <1>2. \A j \in U : ~(j < k)
    BY <1>1 DEF OpToRel
  <1>3. QED BY <1>2

(* Induction, for a set of numbers.                                        *)
LEMMA EveryNumber ==
  ASSUME NEW U \in SUBSET Nat, 0 \in U, \A k \in U : k + 1 \in U
  PROVE  U = Nat
  <1>1. SUFFICES ASSUME Nat \ U # {} PROVE FALSE
    OBVIOUS
  <1>2. PICK k \in Nat \ U : \A j \in Nat \ U : k <= j
    BY <1>1, Least
  <1>3. k - 1 \in Nat /\ k - 1 \notin Nat \ U
    BY <1>2
  <1>4. QED BY <1>2, <1>3

LEMMA LeastSeq ==
  ASSUME NEW N \in SUBSET Rows, N # {}
  PROVE  \E r \in N : \A s \in N : r.seq <= s.seq
  <1>1. Seqs(N) \in SUBSET Nat /\ Seqs(N) # {}
    BY DEF Seqs, Rows
  <1>2. PICK k \in Seqs(N) : \A j \in Seqs(N) : k <= j
    BY <1>1, Least
  <1>3. QED BY <1>2 DEF Seqs

LEMMA LastSeq ==
  ASSUME NEW N \in SUBSET Rows, N # {}, NEW bound \in Nat, \A r \in N : r.seq < bound
  PROVE  \E r \in N : \A s \in N : s.seq <= r.seq
  <1> DEFINE U == {bound - r.seq : r \in N}
  <1>1. \A r \in N : r.seq \in Nat
    BY DEF Rows
  <1>2. U \in SUBSET Nat /\ U # {}
    BY <1>1
  <1>3. PICK k \in U : \A j \in U : k <= j
    <2> HIDE DEF U
    <2> QED BY <1>2, Least
  <1>4. PICK r \in N : k = bound - r.seq
    OBVIOUS
  <1>5. \A s \in N : bound - r.seq <= bound - s.seq
    BY <1>3, <1>4
  <1>6. QED BY <1>1, <1>5

(* A ring holds no more than its capacity.                                 *)
LEMMA NewestBound ==
  ASSUME NEW S \in SUBSET Rows, IsFiniteSet(S), NEW n \in Nat
  PROVE  /\ Newest(S, n) \subseteq S
         /\ IsFiniteSet(Newest(S, n)) /\ Cardinality(Newest(S, n)) <= n
  <1> DEFINE N == Newest(S, n)
  <1>1. N \subseteq S
    BY DEF Newest
  <1>2. IsFiniteSet(N)
    BY <1>1, FS_Subset
  <1>3. CASE N = {}
    BY <1>1, <1>2, <1>3, FS_EmptySet
  <1>4. CASE N # {}
    <2>1. PICK r \in N : \A s \in N : r.seq <= s.seq
      BY <1>1, <1>4, LeastSeq
    <2> DEFINE above == {s \in S : s.seq >= r.seq}
    <2>2. N \subseteq above
      BY <1>1, <2>1 DEF Rows
    <2>3. Cardinality(above) <= n
      BY <2>1 DEF Newest
    <2>4. IsFiniteSet(above)
      BY FS_Subset
    <2>5. Cardinality(N) <= Cardinality(above)
      BY <2>2, <2>4, FS_Subset
    <2>6. Cardinality(N) \in Nat /\ Cardinality(above) \in Nat
      BY <1>2, <2>4, FS_CardinalityType
    <2>7. Cardinality(N) <= n
      BY <2>3, <2>5, <2>6
    <2>8. QED BY <1>1, <1>2, <2>7
  <1>5. QED BY <1>3, <1>4

(* A row that the decoder accepts, and what makes two rows one row.        *)
RowValid(r) == r \in Rows /\ AckMetadataValid(r) /\ DeliveryMetadataValid(r)
SameRow(r, s) == r.seq = s.seq /\ r.id = s.id /\ r.dir = s.dir
NoOlder(m, r) == m.rev >= r.rev /\ m.ackN >= r.ackN

LEMMA NormalizedRow ==
  ASSUME NEW r, RowValid(r)
  PROVE  /\ RowValid(NormalizedAck(r)) /\ SameRow(NormalizedAck(r), r)
         /\ NoOlder(NormalizedAck(r), r)
         /\ RowValid(NormalizedDelivery(r)) /\ SameRow(NormalizedDelivery(r), r)
         /\ NoOlder(NormalizedDelivery(r), r)
  <1>1. /\ RowValid(NormalizedAck(r)) /\ SameRow(NormalizedAck(r), r)
        /\ NoOlder(NormalizedAck(r), r)
    BY DEF RowValid, SameRow, NoOlder, Rows, NormalizedAck, AckMetadataValid, DeliveryMetadataValid,
           AckStates, AckDispatchMax
  <1>2. /\ RowValid(NormalizedDelivery(r)) /\ SameRow(NormalizedDelivery(r), r)
        /\ NoOlder(NormalizedDelivery(r), r)
    <2>1. CASE NormalizedDelivery(r) = r
      BY <2>1 DEF SameRow, NoOlder, RowValid, Rows
    <2>2. CASE NormalizedDelivery(r) # r
      <3>1. r.dir = "tx" /\ NormalizedDelivery(r) =
              [r EXCEPT !.st = "INTERRUPTED_BY_REBOOT", !.rev = @ + 1]
        BY <2>2 DEF NormalizedDelivery
      <3>2. /\ NormalizedDelivery(r) \in Rows /\ SameRow(NormalizedDelivery(r), r)
            /\ NoOlder(NormalizedDelivery(r), r)
        <4>1. "INTERRUPTED_BY_REBOOT" \in DeliveryStates
          BY DEF DeliveryStates
        <4>2. PICK v \in Nat : v = r.rev + 1
          BY DEF RowValid, Rows
        <4>3. NormalizedDelivery(r) = [r EXCEPT !.st = "INTERRUPTED_BY_REBOOT", !.rev = v]
          BY <3>1, <4>2
        <4>4. /\ NormalizedDelivery(r) \in Rows /\ SameRow(NormalizedDelivery(r), r)
              /\ NormalizedDelivery(r).rev = v /\ NormalizedDelivery(r).ackN = r.ackN
          BY <4>1, <4>3 DEF RowValid, SameRow, Rows
        <4>5. r.rev \in Nat /\ r.ackN \in Nat
          BY DEF RowValid, Rows
        <4>6. QED BY <4>2, <4>4, <4>5 DEF NoOlder
      <3>3. AckMetadataValid(NormalizedDelivery(r))
        BY <3>1 DEF RowValid, Rows, AckMetadataValid
      <3>4. DeliveryMetadataValid(NormalizedDelivery(r))
        BY <3>1 DEF RowValid, Rows, DeliveryMetadataValid, DeliveryStates
      <3>5. QED BY <3>2, <3>3, <3>4 DEF RowValid
    <2>3. QED BY <2>1, <2>2
  <1>3. QED BY <1>1, <1>2

LEMMA MergedRow ==
  ASSUME NEW d, NEW s, RowValid(d), RowValid(s), d.dir = s.dir, NEW b \in BOOLEAN
  PROVE  /\ RowValid(MergeRow(d, s, b)) /\ SameRow(MergeRow(d, s, b), d)
         /\ NoOlder(MergeRow(d, s, b), d) /\ NoOlder(MergeRow(d, s, b), s)
  <1> DEFINE a == MergeAck(d, s, b)
  <1>1. RowValid(a) /\ SameRow(a, d)
    BY DEF RowValid, SameRow, Rows, MergeAck, AckMetadataValid, DeliveryMetadataValid
  <1>2. NoOlder(a, d) /\ a.ackN >= s.ackN
    BY DEF RowValid, NoOlder, Rows, MergeAck, AckMetadataValid
  <1> HIDE DEF a
  <1>3. RowValid(MergeDelivery(a, s, b)) /\ SameRow(MergeDelivery(a, s, b), a)
    BY <1>1 DEF RowValid, SameRow, Rows, MergeDelivery, AckMetadataValid, DeliveryMetadataValid
  <1>4. NoOlder(MergeDelivery(a, s, b), a) /\ MergeDelivery(a, s, b).rev >= s.rev
    BY <1>1 DEF RowValid, SameRow, NoOlder, Rows, MergeDelivery, DeliveryMetadataValid
  <1>5. MergeRow(d, s, b) = MergeDelivery(a, s, b)
    BY DEF MergeRow, a
  <1>6. NoOlder(MergeRow(d, s, b), d) /\ NoOlder(MergeRow(d, s, b), s)
    BY <1>1, <1>2, <1>3, <1>4, <1>5 DEF NoOlder, RowValid, Rows
  <1>7. QED BY <1>1, <1>3, <1>5, <1>6 DEF SameRow

(* The seqs a merge hands out to rows whose seq is taken: above every row, *)
(* and in the order of the seqs they replace.                              *)
Fresh(K, base, seq) == base + Cardinality({c \in K : c.seq < seq})

LEMMA FreshSeqs ==
  ASSUME NEW K \in SUBSET Rows, IsFiniteSet(K), NEW base \in Nat
  PROVE  /\ Cardinality(K) \in Nat
         /\ \A s \in Seqs(K) : /\ Fresh(K, base, s) \in Nat
                               /\ base <= Fresh(K, base, s)
                               /\ Fresh(K, base, s) < base + Cardinality(K)
         /\ \A s, t \in Seqs(K) : s # t => Fresh(K, base, s) # Fresh(K, base, t)
  <1> DEFINE below(s) == {c \in K : c.seq < s}
  <1>1. Cardinality(K) \in Nat /\ \A c \in K : c.seq \in Nat
    BY FS_CardinalityType DEF Rows
  <1>2. ASSUME NEW s
        PROVE  /\ IsFiniteSet(below(s)) /\ Cardinality(below(s)) \in Nat
               /\ Cardinality(below(s)) <= Cardinality(K)
               /\ Cardinality(below(s)) = Cardinality(K) => below(s) = K
    <2>1. below(s) \in SUBSET K
      OBVIOUS
    <2> HIDE DEF below
    <2>2. QED BY <2>1, FS_Subset, FS_CardinalityType
  <1>3. ASSUME NEW s \in Seqs(K)
        PROVE  Cardinality(below(s)) < Cardinality(K)
    <2>1. PICK c \in K : c.seq = s
      BY DEF Seqs
    <2>2. c \notin below(s)
      BY <1>1, <2>1
    <2> HIDE DEF below
    <2>3. QED BY <1>1, <1>2, <2>2
  <1>4. ASSUME NEW s \in Seqs(K), NEW t \in Seqs(K), s < t
        PROVE  Cardinality(below(s)) < Cardinality(below(t))
    <2>1. PICK c \in K : c.seq = s
      BY DEF Seqs
    <2>2. s \in Nat /\ t \in Nat
      BY <1>1 DEF Seqs
    <2>3. below(s) \in SUBSET below(t)
      BY <1>1, <1>4, <2>2
    <2>4. c \in below(t) /\ c \notin below(s)
      BY <1>1, <1>4, <2>1
    <2> HIDE DEF below
    <2>5. /\ Cardinality(below(s)) <= Cardinality(below(t))
          /\ Cardinality(below(t)) = Cardinality(below(s)) => below(t) = below(s)
      BY <1>2, <2>3, FS_Subset
    <2>6. QED BY <1>2, <2>4, <2>5
  <1>5. \A s \in Seqs(K) : s \in Nat
    BY <1>1 DEF Seqs
  <1>6. \A s : Fresh(K, base, s) = base + Cardinality(below(s))
    BY DEF Fresh
  <1> HIDE DEF below
  <1>7. \A s \in Seqs(K) : /\ Fresh(K, base, s) \in Nat
                           /\ base <= Fresh(K, base, s)
                           /\ Fresh(K, base, s) < base + Cardinality(K)
    BY <1>1, <1>2, <1>3, <1>6
  <1>8. ASSUME NEW s \in Seqs(K), NEW t \in Seqs(K), s # t
        PROVE  Fresh(K, base, s) # Fresh(K, base, t)
    <2>1. s < t \/ t < s
      BY <1>5, <1>8
    <2>2. Cardinality(below(s)) # Cardinality(below(t))
      BY <1>2, <1>4, <2>1
    <2>3. QED BY <1>2, <1>6, <2>2
  <1>9. QED BY <1>1, <1>7, <1>8

(* A copy the decoder accepts, of rows this device may hold when it has    *)
(* issued n messages.                                                      *)
RowKnown(r, n) ==
  RowValid(r) /\ IF r.dir = "tx" THEN r.id \in 1 .. n ELSE r.id \in Digests
RowsSound(rows, next, n) ==
  /\ IsFiniteSet(rows)
  /\ \A r \in rows : RowKnown(r, n) /\ r.seq > 0 /\ r.seq < next
  /\ \A r, s \in rows : r # s => r.seq # s.seq /\ r.id # s.id
BlobFields == {"epoch", "crev", "lineage", "nextSeq", "rows"}
IsRecord(b) == b = [f \in DOMAIN b |-> b[f]]
Sound(b, n) ==
  /\ DOMAIN b = BlobFields /\ IsRecord(b)
  /\ b.lineage \in Nat /\ {b.epoch, b.crev, b.nextSeq} \subseteq Nat \ {0}
  /\ RowsSound(b.rows, b.nextSeq, n) /\ Cardinality(b.rows) <= Capacity

LEMMA SoundDecodes ==
  ASSUME NEW b, NEW n \in Nat, Sound(b, n)
  PROVE  b \in Blobs /\ BlobValid(b)
  <1>1. b.rows \subseteq Rows
    BY DEF Sound, RowsSound, RowKnown, RowValid
  <1>2. b = [f \in BlobFields |-> b[f]]
    BY DEF Sound, IsRecord
  <1>3. b \in Blobs
    BY <1>1, <1>2 DEF Sound, Blobs, BlobFields
  <1>4. BlobValid(b)
    BY DEF Sound, RowsSound, RowKnown, RowValid, BlobValid
  <1>5. QED BY <1>3, <1>4

LEMMA EmptySound == \A n \in Nat : Sound(EmptyBlob, n)
  <1>1. IsFiniteSet({}) /\ Cardinality({}) = 0
    BY FS_EmptySet
  <1>2. QED
    BY <1>1, CapacityAssumption DEF Sound, IsRecord, RowsSound, BlobFields, EmptyBlob

(* The newest rows of a sound set are a ring.                              *)
LEMMA NewestSound ==
  ASSUME NEW S, NEW next \in Nat, NEW n \in Nat, RowsSound(S, next, n)
  PROVE  /\ RowsSound(Newest(S, Capacity), next, n)
         /\ Cardinality(Newest(S, Capacity)) <= Capacity
  <1>1. S \in SUBSET Rows
    BY DEF RowsSound, RowKnown, RowValid
  <1>2. /\ Newest(S, Capacity) \subseteq S
        /\ IsFiniteSet(Newest(S, Capacity)) /\ Cardinality(Newest(S, Capacity)) <= Capacity
    BY <1>1, NewestBound, CapacityAssumption DEF RowsSound
  <1>3. QED BY <1>2 DEF RowsSound

(* What a set of rows keeps of a row.  A ring keeps every row it is given, *)
(* or is full of newer ones; and what one set keeps of a row, and another  *)
(* of that set, the other keeps of the row: when a full ring goes on as a  *)
(* ring, it stays full.                                                    *)
Counters(r) == r.rev \in Nat /\ r.ackN \in Nat

LEMMA KeptOlder ==
  ASSUME NEW x, Counters(x), NEW y, Counters(y), NEW rows \in SUBSET Rows,
         y.id = x.id, NoOlder(y, x), Kept(y, rows)
  PROVE  Kept(x, rows)
  <1>1. \A r \in rows : r.rev \in Nat /\ r.ackN \in Nat
    BY DEF Rows
  <1>2. QED BY <1>1 DEF Kept, Counters, NoOlder

LEMMA KeptInRing ==
  ASSUME NEW S, NEW next \in Nat, NEW n \in Nat, RowsSound(S, next, n), NEW x \in S
  PROVE  Kept(x, Newest(S, Capacity))
  <1> DEFINE N == Newest(S, Capacity)
             from(y) == {s \in S : s.seq >= y.seq}
  <1>1. /\ S \in SUBSET Rows /\ IsFiniteSet(S)
        /\ \A s \in S : s.seq \in Nat /\ s.rev \in Nat /\ s.ackN \in Nat /\ s.seq < next
        /\ \A s, t \in S : s # t => s.seq # t.seq
    BY DEF RowsSound, RowKnown, RowValid, Rows
  <1>2. N \subseteq S /\ IsFiniteSet(N) /\ Cardinality(N) <= Capacity /\ Cardinality(N) \in Nat
    BY <1>1, NewestBound, FS_CardinalityType, CapacityAssumption
  <1>3. \A y \in S : IsFiniteSet(from(y)) /\ Cardinality(from(y)) \in Nat
    BY <1>1, FS_Subset, FS_CardinalityType
  <1>4. \A y \in S : y \in N <=> Cardinality(from(y)) <= Capacity
    BY DEF Newest
  <1>5. CASE x \in N
    BY <1>1, <1>5 DEF Kept
  <1>6. CASE x \notin N
    <2>2. Cardinality(N) = Capacity
      <3>1. SUFFICES ASSUME Cardinality(N) < Capacity PROVE FALSE
        BY <1>2, CapacityAssumption
      <3>2. PICK y \in S \ N : \A s \in S \ N : s.seq <= y.seq
        <4>1. S \ N \in SUBSET Rows /\ S \ N # {} /\ \A s \in S \ N : s.seq < next
          BY <1>1, <1>6
        <4> HIDE DEF N
        <4>2. QED BY <4>1, LastSeq
      <3>3. from(y) \subseteq N \union {y}
        BY <1>1, <3>2
      <3>4. /\ IsFiniteSet(N \union {y})
            /\ Cardinality(N \union {y}) = Cardinality(N) + 1
        BY <1>2, <3>2, FS_AddElement
      <3>5. ~(Cardinality(from(y)) <= Capacity) /\ y \in S
        BY <1>4, <3>2
      <3> HIDE DEF from, N
      <3>6. Cardinality(from(y)) <= Cardinality(N \union {y})
        BY <3>3, <3>4, FS_Subset
      <3>7. QED BY <1>2, <1>3, <3>1, <3>4, <3>5, <3>6, CapacityAssumption
    <2>3. QED BY <2>2 DEF Kept
  <1>7. QED BY <1>5, <1>6

LEMMA KeptTrans ==
  ASSUME NEW n \in Nat, NEW bound \in Nat, NEW end \in Nat,
         NEW B, RowsSound(B, bound, n), NEW C, RowsSound(C, end, n),
         Cardinality(C) <= Capacity,
         NEW x, Counters(x), Kept(x, B), \A y \in B : Kept(y, C)
  PROVE  Kept(x, C)
  <1>1. /\ IsFiniteSet(B) /\ IsFiniteSet(C) /\ Cardinality(C) \in Nat
        /\ \A y \in B \union C : Counters(y)
        /\ \A y, z \in B : y # z => y.id # z.id
        /\ B \in SUBSET Rows /\ C \in SUBSET Rows
    BY FS_CardinalityType DEF RowsSound, RowKnown, RowValid, Rows, Counters
  <1>2. CASE \E y \in B : y.id = x.id /\ NoOlder(y, x)
    BY <1>1, <1>2, KeptOlder
  <1>3. CASE Cardinality(B) = Capacity
    <2>1. CASE Cardinality(C) = Capacity
      BY <2>1 DEF Kept
    <2>2. CASE \A y \in B : \E r \in C : r.id = y.id
      <3> DEFINE f == [y \in B |-> CHOOSE r \in C : r.id = y.id]
                 D == {f[y] : y \in B}
      <3>1. \A y \in B : f[y] \in C /\ f[y].id = y.id
        BY <2>2
      <3>2. f = [y \in B |-> f[y]]
        OBVIOUS
      <3> HIDE DEF f
      <3>3. f \in [B -> C] /\ f \in [B -> D] /\ D \subseteq C
        BY <3>1, <3>2
      <3>4. f \in Bijection(B, D)
        BY <1>1, <3>1, <3>3 DEF Bijection, Injection, Surjection, IsInjective
      <3>5. Cardinality(D) = Capacity
        BY <1>1, <1>3, <3>4, FS_Bijection DEF ExistsBijection
      <3>6. Cardinality(D) <= Cardinality(C)
        BY <1>1, <3>3, FS_Subset
      <3>7. Cardinality(C) = Capacity
        BY <1>1, <3>5, <3>6, CapacityAssumption
      <3>8. QED BY <3>7 DEF Kept
    <2>3. QED BY <2>1, <2>2 DEF Kept
  <1>4. QED BY <1>2, <1>3 DEF Kept, NoOlder

(* One id is one direction, since a session is not a digest.               *)
LEMMA SameIdSameDir ==
  ASSUME NEW n \in Nat, n <= MaxSessions, NEW r, NEW s,
         RowKnown(r, n), RowKnown(s, n), r.id = s.id
  PROVE  r.dir = s.dir
  <1>1. 1 .. n \subseteq Sessions
    BY BoundsAssumption DEF Sessions
  <1>2. r.dir \in {"tx", "rx"} /\ s.dir \in {"tx", "rx"}
    BY DEF RowKnown, RowValid, Rows
  <1>3. QED
    BY <1>1, <1>2, CardsAssumption DEF RowKnown

(* A merge of two rows of one id is such a row, and where it stood.        *)
LEMMA MergedKnown ==
  ASSUME NEW n \in Nat, n <= MaxSessions, NEW rows, NEW b \in BOOLEAN,
         \A s \in rows : RowKnown(s, n), NEW r, RowKnown(r, n)
  PROVE  LET m == IF r.id \in Ids(rows) THEN MergeRow(r, RowWithId(rows, r.id), b) ELSE r
         IN  /\ RowKnown(m, n) /\ SameRow(m, r) /\ NoOlder(m, r)
             /\ r.id \in Ids(rows) => NoOlder(m, RowWithId(rows, r.id))
  <1>1. CASE r.id \notin Ids(rows)
    BY <1>1 DEF SameRow, NoOlder, RowKnown, RowValid, Rows
  <1>2. CASE r.id \in Ids(rows)
    <2> DEFINE s == RowWithId(rows, r.id)
    <2>1. s \in rows /\ s.id = r.id
      BY <1>2 DEF RowWithId, Ids
    <2> HIDE DEF s
    <2>2. RowKnown(s, n) /\ s.dir = r.dir
      BY <2>1, SameIdSameDir
    <2>3. /\ RowValid(MergeRow(r, s, b)) /\ SameRow(MergeRow(r, s, b), r)
          /\ NoOlder(MergeRow(r, s, b), r) /\ NoOlder(MergeRow(r, s, b), s)
      BY <2>2, MergedRow DEF RowKnown
    <2>4. RowKnown(MergeRow(r, s, b), n)
      BY <2>3 DEF RowKnown, SameRow
    <2>5. QED BY <1>2, <2>3, <2>4 DEF s
  <1>3. QED BY <1>1, <1>2

(* A row that keeps or changes its seq.                                    *)
LEMMA ReseqKnown ==
  ASSUME NEW n \in Nat, NEW r, RowKnown(r, n), NEW v \in Nat
  PROVE  LET m == [r EXCEPT !.seq = v]
         IN  /\ RowKnown(m, n) /\ m.seq = v /\ m.id = r.id
             /\ m.rev = r.rev /\ m.ackN = r.ackN
  <1> DEFINE m == [r EXCEPT !.seq = v]
  <1>1. /\ m \in Rows /\ m.seq = v /\ m.id = r.id /\ m.dir = r.dir /\ m.st = r.st
        /\ m.rev = r.rev /\ m.ackSt = r.ackSt /\ m.ackN = r.ackN
    BY DEF RowKnown, RowValid, Rows
  <1> HIDE DEF m
  <1>2. RowKnown(m, n)
    BY <1>1 DEF RowKnown, RowValid, AckMetadataValid, DeliveryMetadataValid
  <1>3. QED BY <1>1, <1>2 DEF m

(* f maps rows to what they are merged to; those of Y take a fresh seq.    *)
Moves(f, rows, Y, K, base, n) ==
  /\ f \in [rows -> Rows]
  /\ \A r \in rows : /\ RowKnown(f[r], n) /\ f[r].id = r.id
                      /\ f[r].seq = IF r \in Y THEN Fresh(K, base, r.seq) ELSE r.seq

(* Two sets of rows with disjoint ids, some of them moved to fresh seqs:   *)
(* O and A map the rows of a ring and the unknown rows of a card to what   *)
(* the merge makes of them.  Of two rows that claim one seq, one moves.    *)
LEMMA UnionSound ==
  ASSUME NEW n \in Nat, NEW k \in Nat, NEW base \in Nat, base > 0,
         NEW rows, RowsSound(rows, base, n), NEW unknown, RowsSound(unknown, base, n),
         \A c \in unknown : c.id \notin Ids(rows),
         NEW K, K = {c \in unknown : c.seq \in Seqs(rows)},
         NEW O, Moves(O, rows, {r \in rows : r.seq \in Seqs(K) /\ r.seq >= k}, K, base, n),
         NEW A, Moves(A, unknown, {c \in K : c.seq < k}, K, base, n)
  PROVE  RowsSound({O[r] : r \in rows} \union {A[c] : c \in unknown},
                   base + Cardinality(K), n)
  <1> DEFINE own == {O[r] : r \in rows}
             added == {A[c] : c \in unknown}
             next == base + Cardinality(K)
  <1>1. /\ K \in SUBSET Rows /\ IsFiniteSet(K)
        /\ \A r \in rows : r.seq \in Nat /\ r.seq > 0 /\ r.seq < base
        /\ \A c \in unknown : c.seq \in Nat /\ c.seq > 0 /\ c.seq < base
    <2>1. K \in SUBSET unknown
      OBVIOUS
    <2>2. IsFiniteSet(K)
      BY <2>1, FS_Subset DEF RowsSound
    <2>3. QED BY <2>1, <2>2 DEF RowsSound, RowKnown, RowValid, Rows
  <1>2. /\ Cardinality(K) \in Nat
        /\ \A s \in Seqs(K) : /\ Fresh(K, base, s) \in Nat
                              /\ base <= Fresh(K, base, s)
                              /\ Fresh(K, base, s) < next
        /\ \A s, t \in Seqs(K) : s # t => Fresh(K, base, s) # Fresh(K, base, t)
    BY <1>1, FreshSeqs
  <1>3. IsFiniteSet(own \union added)
    <2>1. /\ IsFiniteSet(rows) /\ IsFiniteSet(unknown)
          /\ O \in [rows -> Rows] /\ A \in [unknown -> Rows]
      BY DEF RowsSound, Moves
    <2>2. IsFiniteSet(own)
      BY ONLY <2>1, ImageFinite
    <2>3. IsFiniteSet(added)
      BY ONLY <2>1, ImageFinite
    <2> HIDE DEF own, added
    <2>4. QED BY <2>2, <2>3, FS_Union
  <1>4. \A c \in K : c \in unknown /\ c.seq \in Seqs(K)
    BY DEF Seqs
  <1>a. ASSUME NEW r \in rows
        PROVE  /\ RowKnown(O[r], n) /\ O[r].id = r.id
               /\ \/ r.seq \in Seqs(K) /\ r.seq >= k /\ O[r].seq = Fresh(K, base, r.seq)
                  \/ ~(r.seq \in Seqs(K) /\ r.seq >= k) /\ O[r].seq = r.seq
    BY DEF Moves
  <1>b. ASSUME NEW c \in unknown
        PROVE  /\ RowKnown(A[c], n) /\ A[c].id = c.id
               /\ \/ c \in K /\ c.seq < k /\ A[c].seq = Fresh(K, base, c.seq)
                  \/ ~(c \in K /\ c.seq < k) /\ A[c].seq = c.seq
    BY DEF Moves
  <1> HIDE DEF next
  <1>5. ASSUME NEW r \in rows
        PROVE  RowKnown(O[r], n) /\ O[r].seq \in Nat /\ O[r].seq > 0 /\ O[r].seq < next
    BY ONLY <1>1, <1>2, <1>a, base \in Nat, base > 0, next = base + Cardinality(K), r \in rows
       DEF next
  <1>6. ASSUME NEW c \in unknown
        PROVE  RowKnown(A[c], n) /\ A[c].seq \in Nat /\ A[c].seq > 0 /\ A[c].seq < next
    BY ONLY <1>1, <1>2, <1>4, <1>b, base \in Nat, base > 0, next = base + Cardinality(K),
       c \in unknown DEF next
  <1>7. ASSUME NEW r \in rows, NEW s \in rows, O[r] # O[s]
        PROVE  O[r].seq # O[s].seq /\ O[r].id # O[s].id
    <2>1. r # s /\ r.seq # s.seq /\ r.id # s.id
      BY <1>7 DEF RowsSound
    <2>2. QED BY ONLY <1>1, <1>2, <1>a, <2>1, r \in rows, s \in rows, base \in Nat
  <1>8. ASSUME NEW c \in unknown, NEW d \in unknown, A[c] # A[d]
        PROVE  A[c].seq # A[d].seq /\ A[c].id # A[d].id
    <2>1. c # d /\ c.seq # d.seq /\ c.id # d.id
      BY <1>8 DEF RowsSound
    <2>2. QED BY ONLY <1>1, <1>2, <1>4, <1>b, <2>1, c \in unknown, d \in unknown, base \in Nat
  <1>9. ASSUME NEW r \in rows, NEW c \in unknown
        PROVE  O[r].seq # A[c].seq /\ O[r].id # A[c].id
    <2>1. r.id # c.id
      BY DEF Ids
    <2>2. r.seq = c.seq => c \in K
      BY DEF Seqs
    <2>3. QED
      BY ONLY <1>1, <1>2, <1>4, <1>a, <1>b, <2>1, <2>2, r \in rows, c \in unknown,
              base \in Nat, k \in Nat
  <1>10. ASSUME NEW x \in own \union added, NEW y \in own \union added, x # y
         PROVE  x.seq # y.seq /\ x.id # y.id
    BY <1>7, <1>8, <1>9, <1>10
  <1>11. \A x \in own \union added : RowKnown(x, n) /\ x.seq > 0 /\ x.seq < next
    BY <1>5, <1>6
  <1> HIDE DEF own, added
  <1>12. RowsSound(own \union added, next, n)
    BY <1>3, <1>10, <1>11 DEF RowsSound
  <1>13. QED BY <1>12 DEF own, added, next

(* A merge result, field by field.                                         *)
LEMMA RingSound ==
  ASSUME NEW n \in Nat, NEW b, NEW S, NEW next \in Nat \ {0}, RowsSound(S, next, n),
         DOMAIN b = BlobFields, IsRecord(b), b.lineage \in Nat, {b.epoch, b.crev} \subseteq Nat \ {0},
         b.rows = Newest(S, Capacity), b.nextSeq = next
  PROVE  Sound(b, n)
  BY NewestSound DEF Sound

LEMMA LaterRevision ==
  ASSUME NEW n \in Nat, NEW b, Sound(b, n), NEW v \in Nat \ {0}
  PROVE  LET c == [b EXCEPT !.crev = v]
         IN  Sound(c, n) /\ c.lineage = b.lineage /\ c.epoch = b.epoch
  <1> DEFINE c == [b EXCEPT !.crev = v]
  <1>1. /\ DOMAIN c = BlobFields /\ c.lineage = b.lineage /\ c.epoch = b.epoch
        /\ c.crev = v /\ c.nextSeq = b.nextSeq /\ c.rows = b.rows
    BY DEF Sound, BlobFields
  <1>2. IsRecord(c)
    BY Zenon DEF IsRecord
  <1> HIDE DEF c
  <1>3. Sound(c, n)
    BY <1>1, <1>2 DEF Sound
  <1>4. QED BY <1>1, <1>3 DEF c

LEMMA SameEpochSound ==
  ASSUME NEW n \in Nat, n <= MaxSessions, NEW k \in Nat,
         NEW a, Sound(a, n), NEW p, Sound(p, n)
  PROVE  LET m == MergeSameEpoch(a, p, k)
         IN  /\ Sound(m, n) /\ m.lineage = a.lineage /\ m.epoch = a.epoch
             /\ Ahead(a, m) /\ Ahead(p, m)
             /\ Ids(m.rows) \subseteq Ids(a.rows) \union Ids(p.rows)
  <1> DEFINE newer    == p.crev > a.crev
             unknown  == {c \in p.rows : c.id \notin Ids(a.rows)}
             clashing == {c \in unknown : c.seq \in Seqs(a.rows)}
             base     == Larger(a.nextSeq, p.nextSeq)
             fresh(seq) == base + Cardinality({c \in clashing : c.seq < seq})
             merged(r) == IF r.id \in Ids(p.rows)
                          THEN MergeRow(r, RowWithId(p.rows, r.id), newer)
                          ELSE r
             moved(r, yields) == IF yields THEN [r EXCEPT !.seq = fresh(r.seq)] ELSE r
             O == [r \in a.rows |-> moved(merged(r), r.seq \in Seqs(clashing) /\ r.seq >= k)]
             A == [c \in unknown |-> moved(c, c \in clashing /\ c.seq < k)]
             S == {O[r] : r \in a.rows} \union {A[c] : c \in unknown}
             result == [a EXCEPT !.rows = Newest(S, Capacity),
                                 !.nextSeq = base + Cardinality(clashing),
                                 !.crev = Larger(a.crev, p.crev)]
  <1>1. MergeSameEpoch(a, p, k) = IF result = a THEN a ELSE [result EXCEPT !.crev = @ + 1]
    <2>1. S = {moved(merged(r), r.seq \in Seqs(clashing) /\ r.seq >= k) : r \in a.rows}
                \union {moved(c, c \in clashing /\ c.seq < k) : c \in unknown}
      <3> HIDE DEF unknown, clashing, moved, merged
      <3> QED OBVIOUS
    <2> HIDE DEF S
    <2>2. QED BY <2>1 DEF MergeSameEpoch
  <1>2. /\ base \in Nat /\ base > 0 /\ a.nextSeq <= base /\ p.nextSeq <= base
        /\ Larger(a.crev, p.crev) \in Nat \ {0} /\ newer \in BOOLEAN
    BY DEF Sound, Larger
  <1>3. RowsSound(a.rows, base, n)
    <2>1. \A r \in a.rows : r.seq \in Nat /\ r.seq < a.nextSeq /\ a.nextSeq \in Nat
      BY DEF Sound, RowsSound, RowKnown, RowValid, Rows
    <2> HIDE DEF base
    <2>2. \A r \in a.rows : r.seq < base
      BY <1>2, <2>1
    <2>3. QED BY <2>2 DEF Sound, RowsSound
  <1>4. RowsSound(unknown, base, n)
    <2>1. \A r \in p.rows : r.seq \in Nat /\ r.seq < p.nextSeq /\ p.nextSeq \in Nat
      BY DEF Sound, RowsSound, RowKnown, RowValid, Rows
    <2>2. unknown \in SUBSET p.rows /\ IsFiniteSet(p.rows)
      BY DEF Sound, RowsSound
    <2>3. IsFiniteSet(unknown)
      BY <2>2, FS_Subset
    <2> HIDE DEF base, unknown
    <2>4. \A r \in unknown : r.seq < base
      BY <1>2, <2>1, <2>2
    <2>5. QED BY <2>2, <2>3, <2>4 DEF Sound, RowsSound
  <1>5. \A c \in unknown : c.id \notin Ids(a.rows)
    OBVIOUS
  <1>6. \A s : fresh(s) = Fresh(clashing, base, s)
    BY DEF Fresh
  <1>7. \A s \in Seqs(clashing) : /\ Fresh(clashing, base, s) \in Nat
                                  /\ base <= Fresh(clashing, base, s)
    <2>1. clashing \in SUBSET unknown
      OBVIOUS
    <2> HIDE DEF clashing, base, unknown
    <2>2. clashing \in SUBSET Rows /\ IsFiniteSet(clashing)
      BY <1>4, <2>1, FS_Subset DEF RowsSound, RowKnown, RowValid
    <2>3. QED BY <1>2, <2>2, FreshSeqs
  <1>8. ASSUME NEW r \in a.rows
        PROVE  /\ RowKnown(merged(r), n) /\ SameRow(merged(r), r) /\ NoOlder(merged(r), r)
               /\ r.id \in Ids(p.rows) => NoOlder(merged(r), RowWithId(p.rows, r.id))
    <2>1. RowKnown(r, n) /\ \A s \in p.rows : RowKnown(s, n)
      BY DEF Sound, RowsSound
    <2> HIDE DEF newer
    <2>2. QED BY <1>2, <2>1, MergedKnown
  <1> HIDE DEF fresh, base, unknown, clashing, merged
  <1>9. ASSUME NEW r \in a.rows
        PROVE  /\ RowKnown(O[r], n) /\ O[r].id = r.id /\ NoOlder(O[r], r)
               /\ r.id \in Ids(p.rows) => NoOlder(O[r], RowWithId(p.rows, r.id))
               /\ O[r].seq = IF r.seq \in Seqs(clashing) /\ r.seq >= k
                             THEN Fresh(clashing, base, r.seq) ELSE r.seq
    <2>1. /\ merged(r).seq = r.seq /\ merged(r).id = r.id /\ RowKnown(merged(r), n)
          /\ NoOlder(merged(r), r)
          /\ r.id \in Ids(p.rows) => NoOlder(merged(r), RowWithId(p.rows, r.id))
      BY <1>8 DEF SameRow
    <2>2. CASE r.seq \in Seqs(clashing) /\ r.seq >= k
      <3>1. O[r] = [merged(r) EXCEPT !.seq = Fresh(clashing, base, r.seq)]
        BY <1>6, <2>1, <2>2
      <3> HIDE DEF O
      <3>2. QED BY <1>7, <2>1, <2>2, <3>1, ReseqKnown DEF NoOlder
    <2>3. CASE ~(r.seq \in Seqs(clashing) /\ r.seq >= k)
      <3>1. O[r] = merged(r)
        BY <2>3
      <3> HIDE DEF O
      <3>2. QED BY <2>1, <2>3, <3>1
    <2>4. QED BY <2>2, <2>3
  <1>10. ASSUME NEW c \in unknown
         PROVE  /\ RowKnown(A[c], n) /\ A[c].id = c.id
                /\ NoOlder(A[c], c)
                /\ A[c].seq = IF c \in clashing /\ c.seq < k
                              THEN Fresh(clashing, base, c.seq) ELSE c.seq
    <2>1. RowKnown(c, n) /\ NoOlder(c, c)
      BY <1>4 DEF RowsSound, NoOlder, RowKnown, RowValid, Rows
    <2>2. CASE c \in clashing /\ c.seq < k
      <3>1. A[c] = [c EXCEPT !.seq = Fresh(clashing, base, c.seq)]
        BY <1>6, <2>2
      <3>2. Fresh(clashing, base, c.seq) \in Nat
        BY <1>7, <2>2 DEF Seqs
      <3> HIDE DEF A
      <3>3. QED BY <2>1, <2>2, <3>1, <3>2, ReseqKnown DEF NoOlder
    <2>3. CASE ~(c \in clashing /\ c.seq < k)
      <3>1. A[c] = c
        BY <2>3
      <3> HIDE DEF A
      <3>2. QED BY <2>1, <2>3, <3>1
    <2>4. QED BY <2>2, <2>3
  <1>11. DOMAIN O = a.rows /\ DOMAIN A = unknown /\ O = [r \in a.rows |-> O[r]]
         /\ A = [c \in unknown |-> A[c]]
    OBVIOUS
  <1>12. clashing = {c \in unknown : c.seq \in Seqs(a.rows)}
    BY DEF clashing
  <1> HIDE DEF O, A
  <1>13. O \in [a.rows -> Rows] /\ A \in [unknown -> Rows]
    BY <1>9, <1>10, <1>11 DEF RowKnown, RowValid
  <1>14. RowsSound(S, base + Cardinality(clashing), n)
    <2> DEFINE Y == {r \in a.rows : r.seq \in Seqs(clashing) /\ r.seq >= k}
               Z == {c \in clashing : c.seq < k}
    <2>1. Moves(O, a.rows, Y, clashing, base, n)
      BY <1>9, <1>13 DEF Moves
    <2>2. Moves(A, unknown, Z, clashing, base, n)
      BY <1>10, <1>13 DEF Moves
    <2>3. base \in Nat /\ base > 0
      BY <1>2
    <2>4. QED
      BY ONLY n \in Nat, k \in Nat, <1>3, <1>4, <1>5, <1>12, <2>1, <2>2, <2>3, UnionSound
  <1>15. Cardinality(clashing) \in Nat
    <2>1. clashing \in SUBSET unknown
      BY <1>12
    <2>2. QED BY <1>4, <2>1, FS_Subset, FS_CardinalityType DEF RowsSound
  <1>a. \A r \in a.rows : r.seq \in Nat /\ r.seq < base /\ Counters(r)
    BY <1>3 DEF RowsSound, RowKnown, RowValid, Rows, Counters
  <1>k. ASSUME NEW x \in S, NEW r, Counters(r), x.id = r.id, NoOlder(x, r)
        PROVE  Kept(r, Newest(S, Capacity))
    <2>1. PICK next \in Nat : next = base + Cardinality(clashing)
      BY <1>2, <1>15
    <2> HIDE DEF S
    <2>2. RowsSound(S, next, n)
      BY <1>14, <2>1
    <2>3. Kept(x, Newest(S, Capacity))
      BY ONLY n \in Nat, x \in S, <2>2, KeptInRing
    <2>4. Newest(S, Capacity) \in SUBSET Rows /\ Counters(x)
      BY <2>2 DEF RowsSound, RowKnown, RowValid, Newest, Rows, Counters
    <2>5. QED BY ONLY <1>k, <2>3, <2>4, KeptOlder
  <1>b. ASSUME NEW r \in a.rows PROVE Kept(r, Newest(S, Capacity))
    <2>1. O[r] \in S
      OBVIOUS
    <2>2. QED BY <1>9, <1>a, <1>k, <2>1
  <1>e. ASSUME NEW c \in p.rows PROVE Kept(c, Newest(S, Capacity))
    <2>1. Counters(c) /\ \A d \in p.rows : d # c => d.id # c.id
      BY DEF Sound, RowsSound, RowKnown, RowValid, Rows, Counters
    <2>2. CASE c \in unknown
      <3>1. A[c] \in S
        BY <2>2
      <3>2. QED BY <1>10, <1>k, <2>1, <2>2, <3>1
    <2>3. CASE c \notin unknown
      <3>1. PICK r \in a.rows : r.id = c.id
        BY <2>3 DEF unknown, Ids
      <3>2. r.id \in Ids(p.rows) /\ RowWithId(p.rows, r.id) = c
        BY <2>1, <3>1 DEF Ids, RowWithId
      <3>3. O[r] \in S /\ O[r].id = c.id /\ NoOlder(O[r], c)
        BY <1>9, <3>1, <3>2
      <3> HIDE DEF S
      <3>4. QED BY <1>k, <2>1, <3>3
    <2>4. QED BY <2>2, <2>3
  <1>c. Ids(Newest(S, Capacity)) \subseteq Ids(a.rows) \union Ids(p.rows)
    <2>1. \A c \in unknown : c \in p.rows
      BY DEF unknown
    <2>2. \A x \in S : x.id \in Ids(a.rows) \union Ids(p.rows)
      BY <1>9, <1>10, <2>1 DEF Ids
    <2> HIDE DEF S
    <2>3. QED BY <2>2 DEF Ids, Newest
  <1> HIDE DEF S
  <1>16. /\ DOMAIN result = BlobFields /\ result.rows = Newest(S, Capacity)
         /\ result.nextSeq = base + Cardinality(clashing)
         /\ result.crev = Larger(a.crev, p.crev)
         /\ result.lineage = a.lineage /\ result.epoch = a.epoch
    BY DEF Sound, BlobFields
  <1> HIDE DEF newer, unknown, clashing, base, fresh, merged, moved, O, A
  <1>17. IsRecord(result)
    BY Zenon DEF IsRecord
  <1> HIDE DEF result
  <1>18. Sound(result, n)
    <2>1. base + Cardinality(clashing) \in Nat \ {0}
      BY <1>2, <1>15
    <2>2. a.lineage \in Nat /\ a.epoch \in Nat \ {0}
      BY DEF Sound
    <2>3. QED BY <1>2, <1>14, <1>16, <1>17, <2>1, <2>2, RingSound
  <1>d. Ahead(a, result) /\ Ahead(p, result)
    BY <1>16, <1>b, <1>e DEF Ahead
  <1>19. CASE result = a
    BY <1>1, <1>16, <1>18, <1>19, <1>c, <1>d
  <1>20. CASE result # a
    <2>1. result.crev + 1 \in Nat \ {0}
      BY <1>2, <1>16
    <2>2. MergeSameEpoch(a, p, k) = [result EXCEPT !.crev = result.crev + 1]
      BY <1>1, <1>20
    <2>3. [result EXCEPT !.crev = result.crev + 1].rows = result.rows
      BY <1>16 DEF BlobFields
    <2>4. QED BY <1>16, <1>18, <1>c, <1>d, <2>1, <2>2, <2>3, LaterRevision DEF Ahead
  <1>21. QED BY <1>19, <1>20

(* The messages that a set of rows holds acknowledged.  A merge finds them *)
(* acknowledged in one of its two copies: it takes a row's state from one  *)
(* of the two, and moves rows without changing their state.                *)
LEMMA MergedState ==
  ASSUME NEW d, NEW s, RowValid(d), RowValid(s), NEW b \in BOOLEAN, NEW m,
         m = MergeRow(d, s, b)
  PROVE  m \in Rows /\ m.id = d.id /\ m.st \in {d.st, s.st}
  <1> DEFINE a == MergeAck(d, s, b)
  <1>1. a \in Rows /\ a.id = d.id /\ a.st = d.st
    BY DEF RowValid, Rows, MergeAck
  <1> HIDE DEF a
  <1>2. m = MergeDelivery(a, s, b)
    BY DEF MergeRow, a
  <1>3. QED BY <1>1, <1>2 DEF RowValid, Rows, MergeDelivery

LEMMA NewestAcks ==
  ASSUME NEW S, NEW n
  PROVE  Acked(Newest(S, n)) \subseteq Acked(S)
  BY DEF Acked, Newest

LEMMA SameEpochAcks ==
  ASSUME NEW n \in Nat, NEW k \in Nat, NEW a, Sound(a, n), NEW p, Sound(p, n)
  PROVE  Acked(MergeSameEpoch(a, p, k).rows) \subseteq Acked(a.rows) \union Acked(p.rows)
  <1> DEFINE newer    == p.crev > a.crev
             unknown  == {c \in p.rows : c.id \notin Ids(a.rows)}
             clashing == {c \in unknown : c.seq \in Seqs(a.rows)}
             base     == Larger(a.nextSeq, p.nextSeq)
             fresh(seq) == base + Cardinality({c \in clashing : c.seq < seq})
             merged(r) == IF r.id \in Ids(p.rows)
                          THEN MergeRow(r, RowWithId(p.rows, r.id), newer)
                          ELSE r
             moved(r, yields) == IF yields THEN [r EXCEPT !.seq = fresh(r.seq)] ELSE r
             own == {moved(merged(r), r.seq \in Seqs(clashing) /\ r.seq >= k) : r \in a.rows}
             added == {moved(c, c \in clashing /\ c.seq < k) : c \in unknown}
             result == [a EXCEPT !.rows = Newest(own \union added, Capacity),
                                 !.nextSeq = base + Cardinality(clashing),
                                 !.crev = Larger(a.crev, p.crev)]
  <1>1. MergeSameEpoch(a, p, k) = IF result = a THEN a ELSE [result EXCEPT !.crev = @ + 1]
    BY DEF MergeSameEpoch
  <1>2. \A r \in a.rows \union p.rows : RowValid(r) /\ r \in Rows
    BY DEF Sound, RowsSound, RowKnown, RowValid
  <1>3. newer \in BOOLEAN
    OBVIOUS
  <1>4. ASSUME NEW r \in a.rows
        PROVE  /\ merged(r) \in Rows
               /\ merged(r).st = "ACKNOWLEDGED" => merged(r).id \in Acked(a.rows) \union Acked(p.rows)
    <2>1. CASE r.id \notin Ids(p.rows)
      BY <1>2, <2>1 DEF Acked
    <2>2. CASE r.id \in Ids(p.rows)
      <3>1. PICK s : s = RowWithId(p.rows, r.id)
        OBVIOUS
      <3>2. s \in p.rows /\ s.id = r.id
        BY <2>2, <3>1 DEF RowWithId, Ids
      <3>3. PICK m : m = MergeRow(r, s, newer)
        OBVIOUS
      <3>4. m \in Rows /\ m.id = r.id /\ m.st \in {r.st, s.st}
        BY ONLY <1>2, <1>3, <3>2, <3>3, r \in a.rows, MergedState
      <3>5. merged(r) = m
        BY <2>2, <3>1, <3>3
      <3> HIDE DEF merged
      <3>6. QED BY <3>2, <3>4, <3>5 DEF Acked
    <2>3. QED BY <2>1, <2>2
  <1> HIDE DEF merged
  <1>5. \A r, yields : r \in Rows => moved(r, yields).id = r.id /\ moved(r, yields).st = r.st
    BY DEF Rows
  <1> HIDE DEF moved
  <1>6. Acked(own \union added) \subseteq Acked(a.rows) \union Acked(p.rows)
    <2>1. ASSUME NEW x \in own, x.st = "ACKNOWLEDGED"
          PROVE  x.id \in Acked(a.rows) \union Acked(p.rows)
      <3>1. PICK r \in a.rows : x = moved(merged(r), r.seq \in Seqs(clashing) /\ r.seq >= k)
        OBVIOUS
      <3>2. x.id = merged(r).id /\ x.st = merged(r).st
        BY <1>4, <1>5, <3>1
      <3>3. QED BY <1>4, <2>1, <3>2
    <2>2. \A x \in added : x.st = "ACKNOWLEDGED" => x.id \in Acked(p.rows)
      BY <1>2, <1>5 DEF Acked
    <2> HIDE DEF own, added
    <2>3. QED BY <2>1, <2>2 DEF Acked
  <1> HIDE DEF own, added
  <1>7. result.rows = Newest(own \union added, Capacity) /\ DOMAIN result = BlobFields
    BY DEF Sound, BlobFields
  <1> HIDE DEF result
  <1>8. MergeSameEpoch(a, p, k).rows \in {a.rows, result.rows}
    BY <1>1, <1>7 DEF BlobFields
  <1>9. Acked(result.rows) \subseteq Acked(own \union added)
    BY <1>7, NewestAcks
  <1>10. QED BY <1>6, <1>8, <1>9

LEMMA AheadSelf ==
  ASSUME NEW n \in Nat, NEW b, Sound(b, n)
  PROVE  Ahead(b, b)
  <1>1. \A r \in b.rows : r.rev \in Nat /\ r.ackN \in Nat
    BY DEF Sound, RowsSound, RowKnown, RowValid, Rows
  <1>2. QED BY <1>1 DEF Ahead, Kept

LEMMA AheadTrans ==
  ASSUME NEW n \in Nat, NEW a, NEW b, NEW c, Sound(a, n), Sound(b, n), Sound(c, n),
         Ahead(a, b), Ahead(b, c)
  PROVE  Ahead(a, c)
  <1>1. SUFFICES ASSUME NEW x \in a.rows PROVE Kept(x, c.rows)
    BY DEF Ahead
  <1>2. /\ RowsSound(b.rows, b.nextSeq, n) /\ RowsSound(c.rows, c.nextSeq, n)
        /\ Cardinality(c.rows) <= Capacity /\ b.nextSeq \in Nat /\ c.nextSeq \in Nat
    BY DEF Sound
  <1>3. Counters(x)
    BY DEF Sound, RowsSound, RowKnown, RowValid, Rows, Counters
  <1>4. Kept(x, b.rows) /\ \A y \in b.rows : Kept(y, c.rows)
    BY DEF Ahead
  <1>5. QED BY ONLY n \in Nat, <1>2, <1>3, <1>4, KeptTrans

(* A card that wins the history takes up one row of the ring at a time.    *)
LEMMA AbsorbSound ==
  ASSUME NEW n \in Nat, n <= MaxSessions, NEW k \in Nat, NEW b, Sound(b, n),
         NEW r, RowKnown(r, n)
  PROVE  Sound(Absorb(b, r, k), n) /\ Kin(Absorb(b, r, k), b) /\ Ahead(b, Absorb(b, r, k))
  <1> DEFINE merged(s) == IF s.id = r.id THEN MergeRow(s, r, TRUE) ELSE s
             merge == [s \in b.rows |-> merged(s)]
             met == {merge[s] : s \in b.rows}
             last == [r EXCEPT !.seq = b.nextSeq]
             all == b.rows \union {last}
             next == b.nextSeq + 1
             M == [b EXCEPT !.rows = met]
             N == [b EXCEPT !.rows = Newest(all, Capacity), !.nextSeq = next]
  <1>1. \/ Absorb(b, r, k) = M
        \/ r.id \notin Ids(b.rows) /\ Absorb(b, r, k) = N
        \/ Absorb(b, r, k) = b
    <2>1. met = {merged(s) : s \in b.rows}
      <3> HIDE DEF merged
      <3>1. QED OBVIOUS
    <2> HIDE DEF met
    <2>2. QED BY <2>1 DEF Absorb
  <1>2. /\ \A s \in b.rows : RowKnown(s, n) /\ s.seq \in Nat /\ s.seq < b.nextSeq
        /\ b.nextSeq \in Nat \ {0}
    BY DEF Sound, RowsSound, RowKnown, RowValid, Rows
  <1>3. Sound(M, n) /\ Kin(M, b) /\ Ahead(b, M)
    <2>1. ASSUME NEW s \in b.rows
          PROVE  RowKnown(merge[s], n) /\ SameRow(merge[s], s) /\ NoOlder(merge[s], s)
      <3>1. CASE s.id = r.id
        <4>1. s.dir = r.dir /\ RowValid(s) /\ RowValid(r)
          BY <1>2, <3>1, SameIdSameDir DEF RowKnown
        <4>2. merge[s] = MergeRow(s, r, TRUE)
          BY <3>1
        <4> HIDE DEF merge
        <4>3. RowValid(merge[s]) /\ SameRow(merge[s], s) /\ NoOlder(merge[s], s)
          BY <4>1, <4>2, MergedRow
        <4>4. QED BY <1>2, <4>3 DEF RowKnown, SameRow
      <3>2. CASE s.id # r.id
        BY <1>2, <3>2 DEF SameRow, NoOlder, RowKnown, RowValid, Rows
      <3>3. QED BY <3>1, <3>2
    <2>a. \A s \in b.rows : merge[s] \in met /\ merge[s].id = s.id /\ NoOlder(merge[s], s)
      <3>1. \A s \in b.rows : merge[s] \in met
        OBVIOUS
      <3> HIDE DEF merge, met
      <3>2. QED BY <2>1, <3>1 DEF SameRow
    <2>2. merge \in [b.rows -> Rows]
      <3>1. merge = [s \in b.rows |-> merge[s]]
        OBVIOUS
      <3> HIDE DEF merge
      <3>2. QED BY <2>1, <3>1 DEF RowKnown, RowValid
    <2> HIDE DEF merge
    <2>3. IsFiniteSet(b.rows) /\ Cardinality(b.rows) <= Capacity
      BY DEF Sound, RowsSound
    <2>4. IsFiniteSet(met) /\ Cardinality(met) <= Cardinality(b.rows)
      BY <2>2, <2>3, ImageFinite
    <2>5. Cardinality(met) <= Capacity
      <3>1. Cardinality(met) \in Nat /\ Cardinality(b.rows) \in Nat
        BY <2>3, <2>4, FS_CardinalityType
      <3> HIDE DEF met
      <3>2. QED BY <2>3, <2>4, <3>1, CapacityAssumption
    <2>6. \A x \in met : RowKnown(x, n) /\ x.seq > 0 /\ x.seq < b.nextSeq
      BY <2>1 DEF Sound, RowsSound, SameRow
    <2>7. \A x, y \in met : x # y => x.seq # y.seq /\ x.id # y.id
      BY <2>1 DEF Sound, RowsSound, SameRow
    <2> HIDE DEF met
    <2>8. RowsSound(met, b.nextSeq, n)
      BY <2>4, <2>6, <2>7 DEF RowsSound
    <2>9. /\ DOMAIN M = BlobFields /\ M.rows = met /\ M.crev = b.crev
          /\ M.nextSeq = b.nextSeq /\ M.lineage = b.lineage /\ M.epoch = b.epoch
      BY DEF Sound, BlobFields
    <2>10. IsRecord(M)
      BY Zenon DEF IsRecord
    <2> HIDE DEF M
    <2>11. Ahead(b, M)
      BY <2>9, <2>a DEF Ahead, Kept, NoOlder
    <2>12. QED BY <2>5, <2>8, <2>9, <2>10, <2>11 DEF Sound, Kin
  <1>4. CASE r.id \notin Ids(b.rows)
    <2>1. RowKnown(last, n) /\ last.seq = b.nextSeq /\ last.id = r.id
      BY <1>2, ReseqKnown
    <2> HIDE DEF last
    <2>2. IsFiniteSet(all)
      BY FS_AddElement DEF Sound, RowsSound
    <2>3. \A x \in all : RowKnown(x, n) /\ x.seq > 0 /\ x.seq < next
      BY <1>2, <2>1 DEF Sound, RowsSound
    <2>4. \A x, y \in all : x # y => x.seq # y.seq /\ x.id # y.id
      BY <1>2, <1>4, <2>1 DEF Sound, RowsSound, Ids
    <2>5. next \in Nat \ {0}
      BY <1>2
    <2> HIDE DEF all, next
    <2>6. RowsSound(all, next, n)
      BY <2>2, <2>3, <2>4 DEF RowsSound
    <2>7. /\ DOMAIN N = BlobFields /\ N.rows = Newest(all, Capacity) /\ N.crev = b.crev
          /\ N.nextSeq = next /\ N.lineage = b.lineage /\ N.epoch = b.epoch
      BY DEF Sound, BlobFields
    <2>8. IsRecord(N)
      BY Zenon DEF IsRecord
    <2> HIDE DEF N
    <2>9. b.lineage \in Nat /\ {b.epoch, b.crev} \subseteq Nat \ {0}
      BY DEF Sound
    <2>10. Sound(N, n)
      BY <2>5, <2>6, <2>7, <2>8, <2>9, RingSound
    <2>11. Ahead(b, N)
      <3>1. PICK end \in Nat : end = next
        BY <2>5
      <3>2. RowsSound(all, end, n) /\ \A x \in b.rows : x \in all
        BY <2>6, <3>1 DEF all
      <3>3. \A x \in all : Kept(x, Newest(all, Capacity))
        BY ONLY n \in Nat, end \in Nat, <3>2, KeptInRing
      <3>4. QED BY <2>7, <3>2, <3>3 DEF Ahead
    <2>12. Ahead(b, b)
      BY AheadSelf
    <2>13. QED BY <1>1, <1>3, <2>7, <2>10, <2>11, <2>12 DEF Kin
  <1>5. Ahead(b, b)
    BY AheadSelf
  <1> HIDE DEF M, N
  <1>6. QED BY <1>1, <1>3, <1>4, <1>5 DEF Kin

LEMMA AbsorbAcks ==
  ASSUME NEW n \in Nat, NEW k \in Nat, NEW b, Sound(b, n), NEW r, RowKnown(r, n), NEW m,
         m = Absorb(b, r, k)
  PROVE  /\ Acked(m.rows) \subseteq Acked(b.rows) \union Acked({r})
         /\ Ids(m.rows) \subseteq Ids(b.rows) \union Ids({r})
  <1> DEFINE merged(s) == IF s.id = r.id THEN MergeRow(s, r, TRUE) ELSE s
             last == [r EXCEPT !.seq = b.nextSeq]
  <1>1. DOMAIN b = BlobFields /\ r \in Rows /\ \A s \in b.rows : s \in Rows /\ RowValid(s)
    BY DEF Sound, RowsSound, RowKnown, RowValid
  <1>2. CASE r.id \in Ids(b.rows)
    <2>1. m = [b EXCEPT !.rows = {merged(s) : s \in b.rows}]
      BY <1>2 DEF Absorb
    <2>2. m.rows = {merged(s) : s \in b.rows}
      <3> HIDE DEF merged
      <3>1. QED BY <1>1, <2>1 DEF BlobFields
    <2>3. ASSUME NEW s \in b.rows, merged(s).st = "ACKNOWLEDGED"
          PROVE  merged(s).id \in Acked(b.rows) \union Acked({r})
      <3>1. CASE s.id # r.id
        BY <2>3, <3>1 DEF Acked
      <3>2. CASE s.id = r.id
        <4>1. PICK x : x = MergeRow(s, r, TRUE)
          OBVIOUS
        <4>2. x.id = s.id /\ x.st \in {s.st, r.st}
          BY <1>1, <4>1, MergedState DEF RowKnown
        <4>3. merged(s) = x
          BY <3>2, <4>1
        <4> HIDE DEF merged
        <4>4. QED BY <2>3, <3>2, <4>2, <4>3 DEF Acked
      <3>3. QED BY <3>1, <3>2
    <2>4. ASSUME NEW s \in b.rows PROVE merged(s).id = s.id
      <3>1. CASE s.id # r.id
        BY <3>1
      <3>2. CASE s.id = r.id
        <4>1. PICK x : x = MergeRow(s, r, TRUE)
          OBVIOUS
        <4>2. x.id = s.id
          BY <1>1, <4>1, MergedState DEF RowKnown
        <4>3. merged(s) = x
          BY <3>2, <4>1
        <4> HIDE DEF merged
        <4>4. QED BY <4>2, <4>3
      <3>3. QED BY <3>1, <3>2
    <2> HIDE DEF merged
    <2>5. Acked(m.rows) \subseteq Acked(b.rows) \union Acked({r})
      BY <2>2, <2>3 DEF Acked
    <2>6. Ids(m.rows) \subseteq Ids(b.rows)
      BY <2>2, <2>4 DEF Ids
    <2>7. QED BY <2>5, <2>6
  <1>3. CASE r.id \notin Ids(b.rows)
    <2>1. last.id = r.id /\ last.st = r.st
      BY <1>1 DEF Rows
    <2>2. \/ m = b
          \/ m = [b EXCEPT !.rows = Newest(b.rows \union {last}, Capacity), !.nextSeq = @ + 1]
      BY <1>3 DEF Absorb
    <2> HIDE DEF last
    <2>3. m.rows \in {b.rows, Newest(b.rows \union {last}, Capacity)}
      BY <1>1, <2>2 DEF BlobFields
    <2>4. Acked(b.rows \union {last}) \subseteq Acked(b.rows) \union Acked({r})
      BY <2>1 DEF Acked
    <2>5. Ids(m.rows) \subseteq Ids(b.rows) \union Ids({r})
      BY <2>1, <2>3 DEF Ids, Newest
    <2>6. QED BY <2>3, <2>4, <2>5, NewestAcks
  <1>4. QED BY <1>2, <1>3

(* The recursion over the rows a merge absorbs, oldest first, is defined.  *)
Absorbing(f, dom, p, k) ==
  f = [rows \in dom |->
         IF rows = {} THEN p ELSE Absorb(f[rows \ {Latest(rows)}], Latest(rows), k)]

LEMMA LatestRow ==
  ASSUME NEW R \in SUBSET Rows, IsFiniteSet(R), NEW bound \in Nat,
         \A r \in R : r.seq < bound, NEW rows \in SUBSET R, rows # {}
  PROVE  /\ Latest(rows) \in rows /\ IsFiniteSet(rows)
         /\ rows \ {Latest(rows)} \in SUBSET R /\ IsFiniteSet(rows \ {Latest(rows)})
         /\ Cardinality(rows) \in Nat
         /\ Cardinality(rows \ {Latest(rows)}) = Cardinality(rows) - 1
  <1>1. \E r \in rows : \A s \in rows : s.seq <= r.seq
    BY LastSeq
  <1>2. Latest(rows) \in rows
    BY <1>1 DEF Latest
  <1>3. IsFiniteSet(rows)
    BY FS_Subset
  <1>4. QED BY <1>2, <1>3, FS_RemoveElement, FS_CardinalityType

LEMMA AbsorbingExists ==
  ASSUME NEW R \in SUBSET Rows, IsFiniteSet(R), NEW bound \in Nat,
         \A r \in R : r.seq < bound, NEW p, NEW k
  PROVE  \E f : Absorbing(f, SUBSET R, p, k)
  <1> DEFINE upTo(j) == {rows \in SUBSET R : Cardinality(rows) <= j}
             U == {j \in Nat : \E f : Absorbing(f, upTo(j), p, k)}
  <1>1. \A rows \in SUBSET R : IsFiniteSet(rows) /\ Cardinality(rows) \in Nat
    BY FS_Subset, FS_CardinalityType
  <1>2. 0 \in U
    <2>1. \A rows \in upTo(0) : rows = {}
      BY <1>1, FS_EmptySet
    <2>2. PICK f : f = [rows \in upTo(0) |-> p]
      OBVIOUS
    <2> HIDE DEF upTo
    <2>3. Absorbing(f, upTo(0), p, k)
      BY <2>1, <2>2 DEF Absorbing
    <2>4. QED BY <2>3
  <1>3. ASSUME NEW j \in U PROVE j + 1 \in U
    <2>1. PICK f : Absorbing(f, upTo(j), p, k)
      OBVIOUS
    <2>2. PICK g : g = [rows \in upTo(j + 1) |->
                          IF rows = {} THEN p
                          ELSE Absorb(f[rows \ {Latest(rows)}], Latest(rows), k)]
      OBVIOUS
    <2>3. \A rows \in upTo(j) : rows \in upTo(j + 1) /\ g[rows] = f[rows]
      <3>1. \A rows \in upTo(j) : rows \in upTo(j + 1)
        BY <1>1
      <3> HIDE DEF upTo, U
      <3>2. QED BY <2>1, <2>2, <3>1 DEF Absorbing
    <2>4. ASSUME NEW rows \in upTo(j + 1), rows # {}
          PROVE  rows \ {Latest(rows)} \in upTo(j)
      <3>1. PICK rest : rest = rows \ {Latest(rows)}
        OBVIOUS
      <3>2. /\ rest \in SUBSET R /\ Cardinality(rows) \in Nat
            /\ Cardinality(rest) = Cardinality(rows) - 1
        BY <2>4, <3>1, LatestRow
      <3>3. QED BY <3>1, <3>2
    <2>5. \A rows \in upTo(j + 1) : rows # {} =>
            g[rows \ {Latest(rows)}] = f[rows \ {Latest(rows)}]
      BY <2>3, <2>4
    <2>6. j + 1 \in Nat
      OBVIOUS
    <2> HIDE DEF upTo
    <2>7. Absorbing(g, upTo(j + 1), p, k)
      BY <2>2, <2>5 DEF Absorbing
    <2>8. QED BY <2>6, <2>7
  <1>4. U = Nat
    <2> HIDE DEF U
    <2>1. U \in SUBSET Nat
      BY DEF U
    <2>2. QED BY <1>2, <1>3, <2>1, EveryNumber
  <1>5. PICK j \in Nat : j = Cardinality(R)
    BY <1>1
  <1>6. upTo(j) = SUBSET R
    <2>1. \A rows \in SUBSET R : Cardinality(rows) <= j
      BY <1>5, FS_Subset
    <2>2. QED BY <2>1
  <1> HIDE DEF upTo
  <1>7. \E f : Absorbing(f, upTo(j), p, k)
    BY <1>4
  <1>8. QED BY <1>6, <1>7

(* A card that wins the history: what it absorbs is a copy of its branch.  *)
LEMMA DominatingSound ==
  ASSUME NEW n \in Nat, n <= MaxSessions, NEW k \in Nat,
         NEW a, Sound(a, n), NEW p, Sound(p, n),
         NEW m, m = MergeDominating(a, p, k)
  PROVE  /\ Sound(m, n) /\ Kin(m, p) /\ Ahead(p, m)
         /\ Acked(m.rows) \subseteq Acked(a.rows) \union Acked(p.rows)
         /\ Ids(m.rows) \subseteq Ids(a.rows) \union Ids(p.rows)
  <1> DEFINE overlay == {r \in a.rows : r.dir = "rx" \/ r.seq >= k}
             absorbed == CHOOSE f : Absorbing(f, SUBSET overlay, p, k)
             result == [absorbed[overlay] EXCEPT !.crev = Larger(@, a.crev)]
             Of(b) == /\ Sound(b, n) /\ Kin(b, p) /\ Ahead(p, b)
                      /\ Acked(b.rows) \subseteq Acked(overlay) \union Acked(p.rows)
                      /\ Ids(b.rows) \subseteq Ids(overlay) \union Ids(p.rows)
             V == {j \in Nat : \A rows \in SUBSET overlay : Cardinality(rows) <= j =>
                                 Of(absorbed[rows])}
  <1>1. m = IF result # p \/ \E r \in a.rows : r.seq >= k
            THEN [result EXCEPT !.crev = @ + 1] ELSE p
    BY DEF MergeDominating, Absorbing
  <1>2. /\ overlay \in SUBSET Rows /\ IsFiniteSet(overlay) /\ a.nextSeq \in Nat
        /\ \A r \in overlay : RowKnown(r, n) /\ r.seq < a.nextSeq
    BY FS_Subset DEF Sound, RowsSound, RowKnown, RowValid
  <1> HIDE DEF overlay
  <1>3. Absorbing(absorbed, SUBSET overlay, p, k)
    <2>1. \E f : Absorbing(f, SUBSET overlay, p, k)
      BY <1>2, AbsorbingExists
    <2>2. QED BY <2>1
  <1> HIDE DEF absorbed
  <1>4. absorbed[{}] = p
    BY <1>3 DEF Absorbing
  <1>5. ASSUME NEW rows \in SUBSET overlay, rows # {}
        PROVE  absorbed[rows] = Absorb(absorbed[rows \ {Latest(rows)}], Latest(rows), k)
    BY <1>3, <1>5 DEF Absorbing
  <1>6. 0 \in V
    <2>1. \A rows \in SUBSET overlay : Cardinality(rows) <= 0 => rows = {}
      BY <1>2, FS_Subset, FS_CardinalityType, FS_EmptySet
    <2>2. QED BY <1>4, <2>1, AheadSelf DEF Kin
  <1>7. ASSUME NEW j \in V PROVE j + 1 \in V
    <2>1. ASSUME NEW rows \in SUBSET overlay, Cardinality(rows) <= j + 1
          PROVE  Of(absorbed[rows])
      <3>1. CASE rows = {}
        BY <1>4, <3>1, AheadSelf DEF Kin
      <3>2. CASE rows # {}
        <4>1. PICK r, rest : r = Latest(rows) /\ rest = rows \ {r}
          OBVIOUS
        <4>2. /\ r \in overlay /\ rest \in SUBSET overlay /\ Cardinality(rows) \in Nat
              /\ Cardinality(rest) = Cardinality(rows) - 1
          <5>1. PICK bound \in Nat : \A x \in overlay : x.seq < bound
            BY <1>2
          <5>2. /\ Latest(rows) \in rows /\ rows \ {Latest(rows)} \in SUBSET overlay
                /\ Cardinality(rows) \in Nat
                /\ Cardinality(rows \ {Latest(rows)}) = Cardinality(rows) - 1
            BY ONLY <1>2, <3>2, <5>1, rows \in SUBSET overlay, LatestRow
          <5>3. QED BY <4>1, <5>2
        <4>3. Of(absorbed[rest])
          BY <2>1, <4>2
        <4>4. PICK b, c : b = absorbed[rest] /\ c = Absorb(b, r, k)
          OBVIOUS
        <4>5. Sound(c, n) /\ Kin(c, b) /\ Ahead(b, c)
          BY <1>2, <4>2, <4>3, <4>4, AbsorbSound
        <4>a. Ahead(p, c)
          BY <4>3, <4>4, <4>5, AheadTrans
        <4>6. /\ Acked(c.rows) \subseteq Acked(b.rows) \union Acked({r})
              /\ Ids(c.rows) \subseteq Ids(b.rows) \union Ids({r})
          BY <1>2, <4>2, <4>3, <4>4, AbsorbAcks
        <4>7. Acked({r}) \subseteq Acked(overlay) /\ Ids({r}) \subseteq Ids(overlay)
          BY <4>2 DEF Acked, Ids
        <4>8. absorbed[rows] = c
          BY <1>5, <3>2, <4>1, <4>4
        <4>9. QED BY <4>3, <4>4, <4>5, <4>6, <4>7, <4>8, <4>a DEF Kin
      <3>3. QED BY <3>1, <3>2
    <2>2. QED BY <2>1
  <1>8. Of(absorbed[overlay])
    <2>1. V \in SUBSET Nat
      OBVIOUS
    <2>2. V = Nat
      <3> HIDE DEF V
      <3>1. QED BY <1>6, <1>7, <2>1, EveryNumber
    <2>3. PICK j \in Nat : j = Cardinality(overlay)
      BY <1>2, FS_CardinalityType
    <2>4. QED BY <2>2, <2>3
  <1>9. Sound(result, n) /\ Kin(result, p) /\ result.rows = absorbed[overlay].rows
    <2>1. PICK b : b = absorbed[overlay]
      OBVIOUS
    <2>2. PICK v : v = Larger(b.crev, a.crev)
      OBVIOUS
    <2>3. v \in Nat \ {0} /\ Sound(b, n) /\ Kin(b, p)
      BY <1>8, <2>1, <2>2 DEF Sound, Larger
    <2>4. result = [b EXCEPT !.crev = v]
      BY <2>1, <2>2
    <2> HIDE DEF result
    <2>5. result.rows = b.rows
      BY <2>3, <2>4 DEF Sound, BlobFields
    <2>6. QED BY <2>1, <2>3, <2>4, <2>5, LaterRevision DEF Kin
  <1> HIDE DEF result
  <1>10. Sound([result EXCEPT !.crev = result.crev + 1], n)
           /\ Kin([result EXCEPT !.crev = result.crev + 1], p)
           /\ [result EXCEPT !.crev = result.crev + 1].rows = result.rows
    <2>1. PICK v : v = result.crev + 1
      OBVIOUS
    <2>2. v \in Nat \ {0}
      BY <1>9, <2>1 DEF Sound
    <2>3. [result EXCEPT !.crev = v].rows = result.rows
      BY <1>9 DEF Sound, BlobFields
    <2>4. QED BY <1>9, <2>1, <2>2, <2>3, LaterRevision DEF Kin
  <1>11. Acked(overlay) \subseteq Acked(a.rows) /\ Ids(overlay) \subseteq Ids(a.rows)
    BY DEF overlay, Acked, Ids
  <1>12. Ahead(p, p)
    BY AheadSelf
  <1>13. QED BY <1>1, <1>8, <1>9, <1>10, <1>11, <1>12 DEF Kin, Ahead

(* A merge keeps every row of either copy whose history it goes on with.   *)
LEMMA PrimarySound ==
  ASSUME NEW n \in Nat, n <= MaxSessions, NEW k \in Nat, NEW auth,
         NEW a, Sound(a, n), NEW p, Sound(p, n),
         NEW m, m = MergePrimary(a, p, auth, k)
  PROVE  /\ Sound(m, n) /\ (m = a \/ Kin(m, p))
         /\ Acked(m.rows) \subseteq Acked(a.rows) \union Acked(p.rows)
         /\ Ids(m.rows) \subseteq Ids(a.rows) \union Ids(p.rows)
         /\ Kin(a, m) => Ahead(a, m)
         /\ Kin(p, m) => Ahead(p, m)
         /\ auth => m.lineage = a.lineage
  <1>1. \/ m = a /\ MergeRefused(a, p, auth)
        \/ m = MergeSameEpoch(a, p, k) /\ Kin(p, a)
        \/ m = MergeDominating(a, p, k) /\ ~Kin(p, a) /\ ~MergeRefused(a, p, auth)
    BY Zenon DEF MergePrimary, Kin
  <1>2. a.epoch \in Nat /\ p.epoch \in Nat
    BY DEF Sound
  <1>3. CASE m = a /\ MergeRefused(a, p, auth)
    <2>1. ~Kin(p, m)
      BY <1>2, <1>3 DEF MergeRefused, Kin
    <2>2. QED BY <1>3, <2>1, AheadSelf
  <1>4. CASE m = MergeSameEpoch(a, p, k) /\ Kin(p, a)
    <2>1. /\ Sound(m, n) /\ m.lineage = a.lineage /\ m.epoch = a.epoch
          /\ Ahead(a, m) /\ Ahead(p, m) /\ Ids(m.rows) \subseteq Ids(a.rows) \union Ids(p.rows)
      BY <1>4, SameEpochSound
    <2>2. Acked(m.rows) \subseteq Acked(a.rows) \union Acked(p.rows)
      BY <1>4, SameEpochAcks
    <2>3. QED BY <1>4, <2>1, <2>2 DEF Kin
  <1>5. CASE m = MergeDominating(a, p, k) /\ ~Kin(p, a) /\ ~MergeRefused(a, p, auth)
    <2>1. /\ Sound(m, n) /\ Kin(m, p) /\ Ahead(p, m)
          /\ Acked(m.rows) \subseteq Acked(a.rows) \union Acked(p.rows)
          /\ Ids(m.rows) \subseteq Ids(a.rows) \union Ids(p.rows)
      BY <1>5, DominatingSound
    <2>2. auth => m.lineage = a.lineage
      BY <1>5, <2>1 DEF MergeRefused, Kin
    <2>3. QED BY <1>5, <2>1, <2>2 DEF Kin
  <1>6. QED BY <1>1, <1>3, <1>4, <1>5

(* What a reboot loads.                                                    *)
LEMMA NormalizedSound ==
  ASSUME NEW n \in Nat, NEW b, Sound(b, n)
  PROVE  /\ Sound(Normalized(b), n) /\ Kin(Normalized(b), b)
         /\ Ahead(b, Normalized(b)) /\ Ids(Normalized(b).rows) = Ids(b.rows)
  <1> DEFINE f == [r \in b.rows |-> NormalizedDelivery(NormalizedAck(r))]
             acks == {NormalizedAck(r) : r \in b.rows}
             rows == {NormalizedDelivery(r) : r \in acks}
             bump(changed) == IF changed THEN 1 ELSE 0
             crev == b.crev + bump(acks # b.rows) + bump(rows # acks)
             m == [b EXCEPT !.rows = rows, !.crev = crev]
  <1>1. Normalized(b) = m
    BY DEF Normalized
  <1>2. rows = {f[r] : r \in b.rows}
    OBVIOUS
  <1>3. \A r \in b.rows : RowKnown(f[r], n) /\ SameRow(f[r], r) /\ NoOlder(f[r], r)
    <2> SUFFICES ASSUME NEW r \in b.rows
                 PROVE  RowKnown(f[r], n) /\ SameRow(f[r], r) /\ NoOlder(f[r], r)
      OBVIOUS
    <2>1. RowKnown(r, n)
      BY DEF Sound, RowsSound
    <2>2. /\ RowValid(NormalizedAck(r)) /\ SameRow(NormalizedAck(r), r)
          /\ NoOlder(NormalizedAck(r), r)
      BY <2>1, NormalizedRow DEF RowKnown
    <2>3. /\ RowValid(f[r]) /\ SameRow(f[r], NormalizedAck(r))
          /\ NoOlder(f[r], NormalizedAck(r))
      BY <2>2, NormalizedRow
    <2> HIDE DEF f
    <2>4. RowKnown(f[r], n) /\ SameRow(f[r], r)
      BY <2>1, <2>2, <2>3 DEF SameRow, RowKnown
    <2>5. NoOlder(f[r], r)
      BY <2>1, <2>2, <2>3 DEF NoOlder, RowKnown, RowValid, Rows
    <2>6. QED BY <2>4, <2>5
  <1>4. f \in [b.rows -> Rows]
    BY <1>3 DEF RowKnown, RowValid
  <1>5. crev \in Nat \ {0}
    BY DEF Sound
  <1> HIDE DEF f, rows, crev, acks
  <1>6. IsFiniteSet(rows) /\ Cardinality(rows) <= Cardinality(b.rows)
    <2>1. IsFiniteSet(b.rows)
      BY DEF Sound, RowsSound
    <2>2. QED BY <1>2, <1>4, <2>1, ImageFinite
  <1>7. Cardinality(rows) <= Capacity
    <2>1. /\ Cardinality(rows) \in Nat /\ Cardinality(b.rows) \in Nat
          /\ Cardinality(b.rows) <= Capacity
      BY <1>6, FS_CardinalityType DEF Sound, RowsSound
    <2>2. QED BY <1>6, <2>1, CapacityAssumption
  <1>8. RowsSound(rows, b.nextSeq, n)
    <2>1. \A x \in rows : RowKnown(x, n) /\ x.seq > 0 /\ x.seq < b.nextSeq
      BY <1>2, <1>3 DEF Sound, RowsSound, SameRow
    <2>2. \A x, y \in rows : x # y => x.seq # y.seq /\ x.id # y.id
      BY <1>2, <1>3 DEF Sound, RowsSound, SameRow
    <2>3. QED BY <1>6, <2>1, <2>2 DEF RowsSound
  <1>9. /\ DOMAIN m = BlobFields /\ m.rows = rows /\ m.crev = crev /\ m.nextSeq = b.nextSeq
        /\ m.lineage = b.lineage /\ m.epoch = b.epoch
    BY DEF Sound, BlobFields
  <1>10. IsRecord(m)
    BY Zenon DEF IsRecord
  <1> HIDE DEF m
  <1>11. Sound(m, n)
    BY <1>5, <1>7, <1>8, <1>9, <1>10 DEF Sound
  <1>12. Ahead(b, m) /\ Ids(m.rows) = Ids(b.rows)
    <2>1. \A r \in b.rows : f[r] \in m.rows
      BY <1>2, <1>9
    <2>2. Ahead(b, m)
      BY <1>3, <2>1 DEF Ahead, Kept, SameRow, NoOlder
    <2>3. QED BY <1>2, <1>3, <1>9, <2>2 DEF Ids, SameRow
  <1>13. QED BY <1>1, <1>9, <1>11, <1>12 DEF Kin

-----------------------------------------------------------------------------
(* The copies of the history: the rows in RAM, the snapshot an older       *)
(* firmware left in NVS, the cards and the snapshot a persist operation is *)
(* writing.  Every one decodes, and the copies of one lineage are of one   *)
(* epoch: a clear draws a lineage no copy has, and every other step only   *)
(* makes copies of copies.                                                 *)
Stored == ({nvs.snapshot} \union {cards[c] : c \in Cards}) \ {NoBlob}
Copies == Stored \union {ram} \union {b \in {io.snap} : io.pc \in WithSnapshot}
Known == Copies \union {EmptyBlob}
FoundLineages == {b.lineage : b \in Found}

UsedOK ==
  /\ DOMAIN used = {"sessions", "changes", "faults", "reads", "toggles", "crashes",
                    "clears"}
  /\ used.sessions \in 0 .. MaxSessions
  /\ used.clears \in 0 .. MaxClears
LineageInv ==
  /\ \A b \in Copies : b.lineage \in (0 .. used.clears) \union FoundLineages
  /\ OneSchema => \A a, b \in Known : a.lineage = b.lineage => a.epoch = b.epoch

BlobsInv ==
  /\ UsedOK
  /\ fl.bootNext \in Nat
  /\ \A b \in Copies : Sound(b, used.sessions)
  /\ LineageInv

(* The NVS record: nothing writes a snapshot there.                        *)
NvsFields == {"snapshot", "marker", "retired", "committed"}
NvsInv ==
  /\ DOMAIN nvs = NvsFields
  /\ {nvs.marker, nvs.retired, nvs.committed} \subseteq BOOLEAN

LEMMA InitNvs ==
  ASSUME Init
  PROVE  NvsInv
  <1>1. PICK old : nvs = [snapshot |-> old, marker |-> FALSE, retired |-> FALSE,
                          committed |-> FALSE]
    BY Zenon DEF Init
  <1>2. DOMAIN nvs = NvsFields
    BY <1>1 DEF NvsFields
  <1>3. nvs.marker = FALSE /\ nvs.retired = FALSE /\ nvs.committed = FALSE
    BY <1>1
  <1>4. QED BY <1>2, <1>3 DEF NvsInv

LEMMA StepKeepsNvs ==
  ASSUME NvsInv, [Next]_vars
  PROVE  NvsInv' /\ nvs'.snapshot = nvs.snapshot
  <1> DEFINE Same == NvsInv' /\ nvs'.snapshot = nvs.snapshot
  <1>1. UNCHANGED nvs => Same
    BY DEF NvsInv
  <1>2. MarkRetired => Same
    BY DEF MarkRetired, NvsInv, NvsFields
  <1>3. MarkFails => Same
    BY DEF MarkFails, NvsInv, NvsFields
  <1>4. \A ret : WriteNvs(ret) => Same
    BY <1>1, <1>2, <1>3 DEF WriteNvs
  <1>5. ClearErase \/ NvsOnlyWrite \/ NvsWrite => Same
    <2> HIDE DEF Same
    <2>1. QED BY <1>2, <1>3, <1>4, Zenon DEF ClearErase, NvsOnlyWrite, NvsWrite
  <1>6. SdWrite => Same
    <2>1. SdWrite => UNCHANGED nvs \/ nvs' = [nvs EXCEPT !.committed = TRUE]
      BY DEF SdWrite, NotFinished
    <2>2. QED BY <2>1, <1>1 DEF NvsInv, NvsFields
  <1>7. Crash => Same
    <2>1. Crash => nvs' = [nvs EXCEPT !.retired = nvs.marker, !.committed = FALSE]
      BY DEF Crash
    <2>2. QED BY <2>1 DEF NvsInv, NvsFields
  <1>8. Boot \/ Toggle \/ RowsMove \/ ClearRows => UNCHANGED nvs
    BY RowsTouch DEF Boot, Toggle
  <1>9. ASSUME NEW who, NEW force, PersistBegin(who, force) PROVE UNCHANGED nvs
    BY <1>9 DEF PersistBegin
  <1>10. Reconcile \/ NvsOnlySnapshot \/ NvsOnlyFinish => UNCHANGED nvs
    BY DEF Reconcile, NotFinished, NvsOnlySnapshot, NvsOnlyFinish
  <1>11. Snapshot \/ SdCheck \/ Finish => UNCHANGED nvs
    BY DEF Snapshot, SdCheck, Finish
  <1>12. UNCHANGED vars => UNCHANGED nvs
    BY DEF vars
  <1> HIDE DEF Same
  <1>13. Same
    <2>1. Persist => Same
      BY <1>1, <1>5, <1>6, <1>9, <1>10, <1>11 DEF Persist
    <2>2. Next => Same
      BY <1>1, <1>5, <1>7, <1>8, <2>1 DEF Next, RowsMove
    <2>3. QED BY <1>1, <1>12, <2>2
  <1>14. QED BY <1>13 DEF Same

LEMMA MoreSessions ==
  ASSUME NEW n \in Nat, NEW k \in Nat, n <= k, NEW b, Sound(b, n)
  PROVE  Sound(b, k)
  <1>1. \A r : RowKnown(r, n) => RowKnown(r, k)
    BY DEF RowKnown
  <1>2. QED BY <1>1 DEF Sound, RowsSound

(* A step that only makes copies of copies.                                *)
LEMMA CopiesOfCopies ==
  ASSUME BlobsInv, UsedOK', used'.clears = used.clears, fl'.bootNext \in Nat,
         \A b \in Copies' : Sound(b, used'.sessions) /\ \E a \in Known : Kin(b, a)
  PROVE  BlobsInv'
  <1>1. \A b \in Known' : \E a \in Known : Kin(b, a)
    BY DEF Known, Kin
  <1>2. \A b \in Copies' : b.lineage \in (0 .. used.clears) \union FoundLineages
    <2> SUFFICES ASSUME NEW b \in Copies'
                 PROVE  b.lineage \in (0 .. used.clears) \union FoundLineages
      OBVIOUS
    <2>1. PICK a \in Known : Kin(b, a)
      OBVIOUS
    <2>2. a \in Copies \/ a.lineage = 0
      BY DEF Known, EmptyBlob
    <2>3. 0 \in 0 .. used.clears
      BY DEF BlobsInv, UsedOK
    <2>4. QED BY <2>1, <2>2, <2>3 DEF Kin, BlobsInv, LineageInv
  <1>3. OneSchema => \A a, b \in Known' : a.lineage = b.lineage => a.epoch = b.epoch
    <2> SUFFICES ASSUME OneSchema, NEW a \in Known', NEW b \in Known', a.lineage = b.lineage
                 PROVE  a.epoch = b.epoch
      OBVIOUS
    <2>1. PICK x \in Known : Kin(a, x)
      BY <1>1
    <2>2. PICK y \in Known : Kin(b, y)
      BY <1>1
    <2>3. QED BY <2>1, <2>2 DEF Kin, BlobsInv, LineageInv
  <1>4. LineageInv'
    <2>1. FoundLineages' = FoundLineages
      BY DEF FoundLineages
    <2>2. QED BY <1>2, <1>3, <2>1 DEF LineageInv
  <1>5. QED BY <1>4 DEF BlobsInv

LEMMA NoNewCopies ==
  ASSUME BlobsInv, UNCHANGED used \/ (UsedOK' /\ used'.clears = used.clears
                                        /\ used'.sessions = used.sessions),
         fl'.bootNext \in Nat, Copies' \subseteq Known
  PROVE  BlobsInv'
  <1>1. UsedOK' /\ used'.clears = used.clears /\ used'.sessions = used.sessions
    BY DEF BlobsInv, UsedOK
  <1>2. used.sessions \in Nat
    BY DEF BlobsInv, UsedOK
  <1>3. \A b \in Known : Sound(b, used.sessions)
    BY <1>2, EmptySound DEF Known, BlobsInv
  <1>4. QED BY <1>1, <1>3, CopiesOfCopies DEF Kin

LEMMA CardSound ==
  ASSUME NEW b \in Found
  PROVE  Sound(b, 0)
  <1>1. /\ b \in Blobs /\ IsFiniteSet(b.rows) /\ BlobValid(b)
        /\ \A r \in b.rows : r.dir = "rx" /\ r.id \in Digests
    BY CardsAssumption
  <1>2. RowsSound(b.rows, b.nextSeq, 0)
    BY <1>1 DEF RowsSound, RowKnown, RowValid, Blobs, BlobValid
  <1>3. IsRecord(b)
    BY <1>1 DEF IsRecord, Blobs
  <1>4. QED BY <1>1, <1>2, <1>3 DEF Sound, Blobs, BlobValid, BlobFields

LEMMA InitBlobs ==
  ASSUME Init
  PROVE  BlobsInv
  <1>a. /\ ram = EmptyBlob /\ fl = ResetFlags(FALSE) /\ io = IdleIo
        /\ cards \in [Cards -> InitialCards] /\ nvs.snapshot \in InitialLegacy
    BY DEF Init
  <1>1. Copies \subseteq Found \union {EmptyBlob}
    BY <1>a DEF Copies, Stored, IdleIo, WithSnapshot, Found
  <1>2. UsedOK /\ used.sessions = 0 /\ used.clears = 0 /\ fl.bootNext \in Nat
    <2>1. used = [sessions |-> 0, changes |-> 0, faults |-> 0, reads |-> 0,
                  toggles |-> 0, crashes |-> 0, clears |-> 0]
      BY DEF Init
    <2>2. QED BY <1>a, <2>1, BoundsAssumption DEF ResetFlags, UsedOK
  <1>3. \A b \in Copies : Sound(b, 0)
    BY <1>1, CardSound, EmptySound
  <1>4. LineageInv
    <2>1. EmptyBlob.lineage = 0 /\ EmptyBlob.epoch = 1
      BY DEF EmptyBlob
    <2>2. \A b \in Copies : b.lineage \in 0 .. 0 \union FoundLineages
      BY <1>1, <2>1 DEF FoundLineages
    <2>3. \A a, b \in Found :
            /\ a.lineage = b.lineage /\ a.lineage # 0 => a.epoch = b.epoch
            /\ OneSchema /\ a.lineage = 0 => a.epoch = 1
      BY CardsAssumption DEF OneSchema
    <2>4. ASSUME OneSchema, NEW a \in Known, NEW b \in Known, a.lineage = b.lineage
          PROVE  a.epoch = b.epoch
      <3>1. /\ a \in Found \/ a = EmptyBlob
            /\ b \in Found \/ b = EmptyBlob
        BY <1>1 DEF Known
      <3>2. QED BY <2>1, <2>3, <2>4, <3>1
    <2>5. QED BY <1>2, <2>2, <2>4 DEF LineageInv
  <1>5. QED BY <1>2, <1>3, <1>4 DEF BlobsInv

(* The actions that change the rows.                                       *)
LEMMA RowsChanged ==
  ASSUME SnapshotInv, BlobsInv, fl' = Touched, io' = [io EXCEPT !.fresh = FALSE],
         UNCHANGED <<nvs, cards>>,
         UsedOK', used'.clears = used.clears, used.sessions <= used'.sessions,
         Sound(ram', used'.sessions), Kin(ram', ram)
  PROVE  BlobsInv'
  <1>1. fl'.bootNext = fl.bootNext
    BY SnapshotFacts DEF Touched, FlagFields
  <1>2. io'.pc = io.pc /\ io'.snap = io.snap
    BY SnapshotFacts DEF IoFields
  <1>3. Copies' \subseteq Copies \union {ram'} /\ ram \in Copies
    BY <1>2 DEF Copies, Stored
  <1>4. used.sessions \in Nat /\ used'.sessions \in Nat
    BY DEF BlobsInv, UsedOK
  <1>5. \A b \in Copies : Sound(b, used'.sessions)
    BY <1>4, MoreSessions DEF BlobsInv
  <1>6. QED
    BY <1>1, <1>3, <1>5, CopiesOfCopies DEF BlobsInv, Known, Kin

LEMMA RowReplaced ==
  ASSUME SnapshotInv, BlobsInv, NEW r \in ram.rows, NEW s,
         RowKnown(s, used.sessions), SameRow(s, r), NoOlder(s, r), Mutate(Replace(r, s))
  PROVE  BlobsInv' /\ Kin(ram', ram) /\ Ahead(ram, ram')
  <1> DEFINE rows == Replace(r, s)
  <1>1. Sound(ram, used.sessions) /\ used.sessions \in Nat
    BY DEF BlobsInv, Copies, UsedOK
  <1>2. IsFiniteSet(rows) /\ Cardinality(rows) <= Capacity
    <2>1. IsFiniteSet(ram.rows) /\ Cardinality(ram.rows) <= Capacity
      BY <1>1 DEF Sound, RowsSound
    <2>2. /\ IsFiniteSet(ram.rows \ {r})
          /\ Cardinality(ram.rows \ {r}) = Cardinality(ram.rows) - 1
      BY <2>1, FS_RemoveElement
    <2>3. /\ IsFiniteSet(rows)
          /\ Cardinality(rows) \in {Cardinality(ram.rows \ {r}),
                                    Cardinality(ram.rows \ {r}) + 1}
      BY <2>2, FS_AddElement DEF Replace
    <2>4. Cardinality(ram.rows) \in Nat /\ Cardinality(rows) \in Nat
      BY <2>1, <2>3, FS_CardinalityType
    <2> HIDE DEF rows
    <2>5. QED BY <2>1, <2>2, <2>3, <2>4, CapacityAssumption
  <1>3. RowsSound(rows, ram.nextSeq, used.sessions)
    BY <1>1, <1>2 DEF Sound, RowsSound, SameRow, Replace
  <1>4. /\ DOMAIN ram' = BlobFields /\ ram'.rows = rows /\ ram'.crev = ram.crev + 1
        /\ ram'.lineage = ram.lineage /\ ram'.epoch = ram.epoch
        /\ ram'.nextSeq = ram.nextSeq
    BY <1>1 DEF Mutate, Sound, BlobFields
  <1>5. IsRecord(ram')
    BY Zenon DEF Mutate, IsRecord
  <1>6. Sound(ram', used.sessions) /\ Kin(ram', ram)
    BY <1>1, <1>2, <1>3, <1>4, <1>5 DEF Sound, Kin
  <1>7. UsedOK' /\ used'.clears = used.clears /\ used'.sessions = used.sessions
    BY DEF Mutate, BlobsInv, UsedOK
  <1>8. Ahead(ram, ram')
    <2>1. \A x \in ram.rows : Counters(x)
      BY <1>1 DEF Sound, RowsSound, RowKnown, RowValid, Rows, Counters
    <2>2. ASSUME NEW x \in ram.rows PROVE Kept(x, rows)
      <3>1. CASE x = r
        BY <2>1, <3>1 DEF Kept, Replace, SameRow, NoOlder, Counters
      <3>2. CASE x # r
        BY <2>1, <3>2 DEF Kept, Replace, Counters
      <3>3. QED BY <3>1, <3>2
    <2>3. QED BY <1>4, <2>2 DEF Ahead
  <1>9. QED BY <1>1, <1>6, <1>7, <1>8, RowsChanged DEF Mutate

LEMMA RowAppended ==
  ASSUME SnapshotInv, BlobsInv, NEW row, row.seq = ram.nextSeq,
         row.id \notin Ids(ram.rows), RowKnown(row, used'.sessions), AppendRow(row),
         UsedOK', used'.clears = used.clears, used.sessions <= used'.sessions
  PROVE  BlobsInv' /\ Kin(ram', ram) /\ Ahead(ram, ram') /\ Kept(row, ram'.rows)
  <1> DEFINE n == used'.sessions
             S == ram.rows \union {row}
             next == ram.nextSeq + 1
  <1>1. Sound(ram, n) /\ n \in Nat
    BY MoreSessions DEF BlobsInv, Copies, UsedOK
  <1>2. next \in Nat \ {0} /\ \A r \in ram.rows : r.seq \in Nat /\ r.seq < ram.nextSeq
    BY <1>1 DEF Sound, RowsSound, RowKnown, RowValid, Rows
  <1>3. IsFiniteSet(S)
    BY <1>1, FS_AddElement DEF Sound, RowsSound
  <1>4. RowsSound(S, next, n)
    <2>1. \A r \in S : RowKnown(r, n) /\ r.seq > 0 /\ r.seq < next
      BY <1>1, <1>2 DEF Sound, RowsSound
    <2>2. \A r, s \in S : r # s => r.seq # s.seq /\ r.id # s.id
      BY <1>1, <1>2 DEF Sound, RowsSound, Ids
    <2>3. QED BY <1>3, <2>1, <2>2 DEF RowsSound
  <1> HIDE DEF S, next
  <1>5. /\ DOMAIN ram' = BlobFields /\ ram'.rows = Newest(S, Capacity)
        /\ ram'.nextSeq = next /\ ram'.crev = ram.crev + 1
        /\ ram'.lineage = ram.lineage /\ ram'.epoch = ram.epoch
    BY <1>1 DEF AppendRow, Sound, BlobFields, S, next
  <1>6. IsRecord(ram')
    BY Zenon DEF AppendRow, IsRecord
  <1>7. Sound(ram', n) /\ Kin(ram', ram)
    <2>1. /\ ram'.lineage \in Nat /\ {ram'.epoch, ram'.crev} \subseteq Nat \ {0}
      BY <1>1, <1>5 DEF Sound
    <2>2. QED BY <1>1, <1>2, <1>4, <1>5, <1>6, <2>1, RingSound DEF Kin
  <1>8. \A x \in S : Kept(x, ram'.rows)
    BY <1>1, <1>2, <1>4, <1>5, KeptInRing
  <1>9. Ahead(ram, ram') /\ Kept(row, ram'.rows)
    BY <1>8 DEF Ahead, S
  <1>10. QED BY <1>7, <1>9, RowsChanged DEF AppendRow

LEMMA MovedKnown ==
  ASSUME NEW n \in Nat, NEW r, RowKnown(r, n), r.dir = "tx",
         NEW next \in DeliveryStates \ {"NOT_APPLICABLE"}
  PROVE  RowKnown(Moved(r, next), n) /\ SameRow(Moved(r, next), r)
         /\ NoOlder(Moved(r, next), r) /\ Moved(r, next).rev = r.rev + 1
  <1> DEFINE m == Moved(r, next)
  <1>1. /\ m \in Rows /\ m.seq = r.seq /\ m.id = r.id /\ m.dir = r.dir /\ m.st = next
        /\ m.rev > 0 /\ m.ackSt = r.ackSt /\ m.ackN = r.ackN /\ m.rev = r.rev + 1
    <2>1. r \in Rows
      BY DEF RowKnown, RowValid
    <2>2. PICK v \in Nat : v = r.rev + 1
      BY <2>1 DEF Rows
    <2>3. PICK h \in Nat : h = IF next = "RETRY_TX" THEN r.hash + 1 ELSE r.hash
      BY <2>1 DEF Rows
    <2>4. m = [r EXCEPT !.st = next, !.rev = v, !.hash = h]
      BY <2>2, <2>3 DEF Moved
    <2>5. v > 0
      BY <2>1, <2>2 DEF Rows
    <2> HIDE DEF m
    <2>6. QED BY <2>1, <2>2, <2>4, <2>5 DEF Rows
  <1> HIDE DEF m
  <1>2. RowKnown(m, n) /\ SameRow(m, r)
    BY <1>1 DEF RowKnown, RowValid, SameRow, AckMetadataValid, DeliveryMetadataValid
  <1>3. NoOlder(m, r)
    BY <1>1 DEF RowKnown, RowValid, Rows, NoOlder
  <1>4. QED BY <1>1, <1>2, <1>3 DEF m

LEMMA AckMovedKnown ==
  ASSUME NEW n \in Nat, NEW r, RowKnown(r, n), r.dir = "rx",
         NEW st \in AckStates, NEW k \in Nat, NEW m, m = [r EXCEPT !.ackSt = st, !.ackN = k],
         AckMetadataValid(m), k >= r.ackN
  PROVE  RowKnown(m, n) /\ SameRow(m, r) /\ NoOlder(m, r)
  <1>1. r \in Rows
    BY DEF RowKnown, RowValid
  <1>2. /\ m \in Rows /\ m.seq = r.seq /\ m.id = r.id /\ m.dir = r.dir /\ m.st = r.st
        /\ m.rev = r.rev /\ m.ackN = k /\ r.rev \in Nat
    BY <1>1 DEF Rows
  <1>3. NoOlder(m, r)
    BY <1>2 DEF NoOlder
  <1>4. QED
    BY <1>2, <1>3 DEF RowKnown, RowValid, SameRow, DeliveryMetadataValid

LEMMA AppendsKeepBlobs ==
  ASSUME SnapshotInv, BlobsInv, AppendTx \/ AppendRx
  PROVE  /\ BlobsInv' /\ Kin(ram', ram) /\ Ahead(ram, ram')
         /\ AppendTx => Kept(TxRow(ram.nextSeq, used.sessions + 1), ram'.rows)
  <1>1. /\ Sound(ram, used.sessions) /\ used.sessions \in Nat
        /\ used.sessions <= MaxSessions /\ ram.nextSeq \in Nat \ {0}
    BY BoundsAssumption DEF BlobsInv, Copies, UsedOK, Sound
  <1>2. CASE AppendTx
    <2> DEFINE session == used.sessions + 1
               row == TxRow(ram.nextSeq, session)
    <2>1. /\ AppendRow(row) /\ used.sessions < MaxSessions
          /\ used' = [used EXCEPT !.changes = @ + 1, !.sessions = @ + 1]
      BY <1>2 DEF AppendTx
    <2>2. UsedOK' /\ used'.clears = used.clears /\ used'.sessions = session
      BY <1>1, <2>1, BoundsAssumption DEF BlobsInv, UsedOK
    <2>3. /\ row \in Rows /\ row.seq = ram.nextSeq /\ row.id = session /\ row.dir = "tx"
          /\ row.st = "QUEUED" /\ row.rev = 1 /\ row.ackSt = "LEGACY" /\ row.ackN = 0
      BY <1>1, <2>1, BoundsAssumption
      DEF TxRow, Rows, Sessions, AckStates, DeliveryStates
    <2> HIDE DEF row
    <2>4. RowKnown(row, session)
      BY <1>1, <2>3 DEF RowKnown, RowValid, AckMetadataValid, DeliveryMetadataValid,
                        DeliveryStates
    <2>5. session \notin Ids(ram.rows)
      <3>1. \A r \in ram.rows : r.id \in 1 .. used.sessions \/ r.id \in Digests
        BY <1>1 DEF Sound, RowsSound, RowKnown
      <3>2. session \in Sessions /\ session \notin 1 .. used.sessions
        BY <1>1, <2>1, BoundsAssumption DEF Sessions
      <3>3. QED BY <3>1, <3>2, CardsAssumption DEF Ids
    <2>6. /\ BlobsInv' /\ Kin(ram', ram) /\ Ahead(ram, ram')
          /\ Kept(row, ram'.rows)
      BY <1>1, <2>1, <2>2, <2>3, <2>4, <2>5, RowAppended
    <2>7. QED BY <2>6 DEF row
  <1>3. CASE AppendRx /\ ~AppendTx
    <2>1. PICK digest \in Digests \ Ids(ram.rows) : AppendRow(RxRow(ram.nextSeq, digest))
      BY <1>3 DEF AppendRx
    <2> DEFINE row == RxRow(ram.nextSeq, digest)
    <2>2. UsedOK' /\ used'.clears = used.clears /\ used'.sessions = used.sessions
      BY <1>1, <1>3 DEF AppendRx, BlobsInv, UsedOK
    <2>3. /\ row \in Rows /\ row.seq = ram.nextSeq /\ row.id = digest /\ row.dir = "rx"
          /\ row.st = "NOT_APPLICABLE" /\ row.rev = 0 /\ row.ackSt = "RETRYABLE"
          /\ row.ackN = 0
      BY <1>1 DEF RxRow, Rows, AckStates, DeliveryStates
    <2> HIDE DEF row
    <2>4. RowKnown(row, used.sessions)
      BY <2>3 DEF RowKnown, RowValid, AckMetadataValid, DeliveryMetadataValid
    <2>5. AppendRow(row)
      BY <2>1 DEF row
    <2>6. QED BY <1>1, <1>3, <2>2, <2>3, <2>4, <2>5, RowAppended
  <1>4. QED BY <1>2, <1>3

LEMMA MovesKeepBlobs ==
  ASSUME SnapshotInv, BlobsInv,
         TransitionSync \/ TransitionDeferred \/ Acknowledge \/ ReserveAck \/ CompleteAck
  PROVE  BlobsInv' /\ Kin(ram', ram) /\ Ahead(ram, ram')
  <1>1. used.sessions \in Nat /\ \A r \in ram.rows : RowKnown(r, used.sessions)
    BY DEF BlobsInv, Copies, UsedOK, Sound, RowsSound
  <1>2. CASE TransitionSync \/ TransitionDeferred \/ Acknowledge
    <2>1. PICK r \in ram.rows, next \in DeliveryStates \ {"NOT_APPLICABLE"} :
            r.dir = "tx" /\ Mutate(Replace(r, Moved(r, next)))
      BY <1>2 DEF TransitionSync, TransitionDeferred, Acknowledge, SyncEdges,
                  DeferredEdges, DeliveryStates
    <2>2. QED BY <1>1, <2>1, MovedKnown, RowReplaced
  <1>3. CASE ReserveAck
    <2>1. PICK r \in ram.rows :
            /\ r.dir = "rx" /\ r.ackN < AckDispatchMax
            /\ Mutate(Replace(r, [r EXCEPT !.ackSt = "PENDING", !.ackN = @ + 1]))
      BY <1>3 DEF ReserveAck
    <2>2. r \in Rows
      BY <1>1 DEF RowKnown, RowValid
    <2>3. PICK k \in Nat : k = r.ackN + 1
      BY <2>2 DEF Rows
    <2>4. PICK m : m = [r EXCEPT !.ackSt = "PENDING", !.ackN = k]
      OBVIOUS
    <2>5. Mutate(Replace(r, m))
      BY <2>1, <2>3, <2>4
    <2>6. m.dir = "rx" /\ m.ackSt = "PENDING" /\ m.ackN = k
      BY <2>1, <2>2, <2>4 DEF Rows
    <2>7. AckMetadataValid(m)
      BY <2>1, <2>2, <2>3, <2>6 DEF AckMetadataValid, AckDispatchMax, Rows
    <2>8. RowKnown(m, used.sessions) /\ SameRow(m, r) /\ NoOlder(m, r)
      <3>1. k >= r.ackN
        BY <2>2, <2>3 DEF Rows
      <3>2. QED BY <1>1, <2>1, <2>4, <2>7, <3>1, AckMovedKnown DEF AckStates
    <2>9. QED BY <2>5, <2>8, RowReplaced
  <1>4. CASE CompleteAck
    <2>1. PICK r \in ram.rows, sent \in BOOLEAN :
            /\ r.dir = "rx" /\ r.ackSt = "PENDING"
            /\ Mutate(Replace(r, [r EXCEPT !.ackSt =
                 IF sent THEN "SENT"
                 ELSE IF r.ackN >= AckDispatchMax THEN "TERMINAL" ELSE "RETRYABLE"]))
      BY <1>4 DEF CompleteAck
    <2>2. r \in Rows /\ AckMetadataValid(r)
      BY <1>1 DEF RowKnown, RowValid
    <2>3. r.ackN \in 1 .. AckDispatchMax
      BY <2>1, <2>2 DEF AckMetadataValid
    <2>4. PICK st \in AckStates :
            st = IF sent THEN "SENT"
                 ELSE IF r.ackN >= AckDispatchMax THEN "TERMINAL" ELSE "RETRYABLE"
      BY DEF AckStates
    <2>5. PICK m : m = [r EXCEPT !.ackSt = st]
      OBVIOUS
    <2>6. Mutate(Replace(r, m))
      BY <2>1, <2>4, <2>5
    <2>7. PICK k \in Nat : k = r.ackN
      BY <2>3 DEF AckDispatchMax
    <2>8. m = [r EXCEPT !.ackSt = st, !.ackN = k]
      BY <2>2, <2>5, <2>7 DEF Rows
    <2>9. m.dir = "rx" /\ m.ackSt = st /\ m.ackN = r.ackN
      BY <2>1, <2>2, <2>5 DEF Rows
    <2>10. AckMetadataValid(m)
      BY <2>3, <2>4, <2>9 DEF AckMetadataValid, AckDispatchMax
    <2>11. RowKnown(m, used.sessions) /\ SameRow(m, r) /\ NoOlder(m, r)
      <3>1. k >= r.ackN
        BY <2>7
      <3>2. QED BY <1>1, <2>1, <2>8, <2>10, <3>1, AckMovedKnown
    <2>12. QED BY <2>6, <2>11, RowReplaced
  <1>5. QED BY <1>2, <1>3, <1>4

(* A clear draws a lineage no copy has: no earlier clear drew it, nor is   *)
(* it on a card of another device.                                         *)
LEMMA ClearRowsKeepsBlobs ==
  ASSUME SnapshotInv, BlobsInv, ClearRows
  PROVE  BlobsInv'
  <1>1. /\ Sound(ram, used.sessions) /\ used.sessions \in Nat
        /\ used.clears \in Nat /\ used.clears < MaxClears
    BY BoundsAssumption DEF BlobsInv, Copies, UsedOK, ClearRows, Spend
  <1>2. UsedOK' /\ used'.clears = used.clears + 1 /\ used'.sessions = used.sessions
    BY <1>1, BoundsAssumption DEF BlobsInv, UsedOK, ClearRows, Spend
  <1>3. fl'.bootNext = 1 /\ io'.pc = io.pc /\ io'.snap = io.snap
    BY SnapshotFacts DEF ClearRows, Touched, FlagFields, IoFields
  <1>4. Copies' \subseteq Copies \union {ram'}
    BY <1>3 DEF ClearRows, Copies, Stored
  <1>5. /\ DOMAIN ram' = BlobFields /\ ram'.rows = {} /\ ram'.nextSeq = 1
        /\ ram'.epoch = ram.epoch + 1 /\ ram'.crev = ram.crev + 1
        /\ ram'.lineage = used.clears + 1
    BY <1>1 DEF ClearRows, FreshLineage, Sound, BlobFields
  <1>6. Sound(ram', used.sessions)
    <2>1. RowsSound({}, 1, used.sessions) /\ Cardinality({}) <= Capacity
      BY FS_EmptySet, CapacityAssumption DEF RowsSound
    <2>2. IsRecord(ram')
      BY Zenon DEF ClearRows, IsRecord
    <2>3. QED BY <1>1, <1>5, <2>1, <2>2 DEF Sound
  <1>7. \A b \in Copies' : Sound(b, used'.sessions)
    BY <1>2, <1>4, <1>6 DEF BlobsInv
  <1>8. \A b \in Known : b.lineage \in (0 .. used.clears) \union FoundLineages
    BY <1>1 DEF Known, EmptyBlob, BlobsInv, LineageInv
  <1>9. used.clears + 1 \notin (0 .. used.clears) \union FoundLineages
    BY <1>1, BoundsAssumption, CardsAssumption DEF FoundLineages
  <1>10. LineageInv'
    <2>1. \A b \in Copies' : b.lineage \in (0 .. used'.clears) \union FoundLineages
      BY <1>1, <1>2, <1>4, <1>5, <1>8 DEF Known
    <2>2. OneSchema => \A a, b \in Known' : a.lineage = b.lineage => a.epoch = b.epoch
      BY <1>4, <1>5, <1>8, <1>9 DEF Known, BlobsInv, LineageInv
    <2>3. QED BY <2>1, <2>2 DEF LineageInv, FoundLineages
  <1>11. QED BY <1>2, <1>3, <1>7, <1>10 DEF BlobsInv

LEMMA SpendKeeps ==
  ASSUME BlobsInv, NEW what \in {"changes", "faults", "reads", "toggles", "crashes"},
         NEW bound, Spend(what, bound)
  PROVE  UsedOK' /\ used'.clears = used.clears /\ used'.sessions = used.sessions
  BY DEF BlobsInv, UsedOK, Spend

(* The steps that only move copies.                                        *)
SameUsed == UsedOK /\ UsedOK' /\ used'.clears = used.clears
              /\ used'.sessions = used.sessions
LEMMA QuietKeepsBlobs ==
  ASSUME BlobsInv, ram' = ram, fl'.bootNext = fl.bootNext,
         UNCHANGED used \/ SameUsed, Stored' \subseteq Copies,
         io'.pc \in WithSnapshot => io'.snap \in Copies
  PROVE  BlobsInv'
  <1>1. Copies' \subseteq Known
    BY DEF Copies, Known
  <1>2. fl'.bootNext \in Nat
    BY DEF BlobsInv
  <1>3. QED BY <1>1, <1>2, NoNewCopies DEF SameUsed

LEMMA NotFinishedKeepsBlobs ==
  ASSUME BlobsInv, nvs'.snapshot = nvs.snapshot, NotFinished
  PROVE  BlobsInv'
  <1>1. SameUsed
    BY SpendKeeps DEF NotFinished, SameUsed, BlobsInv
  <1>2. Stored' \subseteq Copies /\ io'.pc \notin WithSnapshot
    BY Idle DEF NotFinished, Stored, Copies, WithSnapshot
  <1>3. QED BY <1>1, <1>2, QuietKeepsBlobs DEF NotFinished

LEMMA ClearEraseKeepsBlobs ==
  ASSUME BlobsInv, nvs'.snapshot = nvs.snapshot, ClearErase
  PROVE  BlobsInv'
  <1>1. UNCHANGED used \/ SameUsed
    BY SpendKeeps DEF ClearErase, MarkRetired, MarkFails, SameUsed, BlobsInv
  <1>2. Stored' \subseteq Copies
    BY DEF ClearErase, Stored, Copies
  <1>3. io'.pc \in WithSnapshot => io'.snap \in Copies
    BY DEF ClearErase, Copies
  <1>4. QED BY <1>1, <1>2, <1>3, QuietKeepsBlobs DEF ClearErase

LEMMA BeginKeepsBlobs ==
  ASSUME SnapshotInv, BlobsInv, nvs'.snapshot = nvs.snapshot, NEW who, NEW force, PersistBegin(who, force)
  PROVE  BlobsInv'
  <1>1. fl'.bootNext = fl.bootNext
    BY SnapshotFacts DEF PersistBegin, GenerationNoted, FlagFields
  <1>2. io'.pc \notin WithSnapshot
    <2>1. \/ io' = io /\ io.pc = "idle"
          \/ \E sd : \E pc \in {"reconcile", "snapshot"} :
               io' = [IdleIo EXCEPT !.pc = pc, !.who = who, !.force = force,
                                    !.sd = sd, !.genOk = TRUE, !.card = slot]
      BY DEF PersistBegin
    <2>2. QED BY <2>1 DEF IdleIo, WithSnapshot
  <1>3. Stored' \subseteq Copies
    BY DEF PersistBegin, Stored, Copies
  <1>4. QED BY <1>1, <1>2, <1>3, QuietKeepsBlobs DEF PersistBegin

LEMMA NvsOnlyKeepsBlobs ==
  ASSUME SnapshotInv, BlobsInv, nvs'.snapshot = nvs.snapshot, NvsOnlySnapshot \/ NvsOnlyWrite \/ NvsOnlyFinish
  PROVE  BlobsInv'
  <1>1. CASE NvsOnlySnapshot
    <2>1. io'.pc \in WithSnapshot => io'.snap = ram
      <3>1. \/ io' = IdleIo
            \/ io' = [io EXCEPT !.pc = "nvsOnlyWrite", !.snap = ram, !.fresh = TRUE]
        BY <1>1 DEF NvsOnlySnapshot
      <3>2. QED BY <3>1, Idle, SnapshotFacts DEF WithSnapshot, IoFields
    <2>2. Stored' \subseteq Copies
      BY <1>1 DEF NvsOnlySnapshot, Stored, Copies
    <2>3. QED BY <1>1, <2>1, <2>2, QuietKeepsBlobs DEF NvsOnlySnapshot, Copies
  <1>2. CASE NvsOnlyWrite
    <2>1. io.snap \in Copies
      BY <1>2 DEF NvsOnlyWrite, Copies, WithSnapshot
    <2>2. io'.snap = io.snap
      BY <1>2, SnapshotFacts DEF NvsOnlyWrite, IoFields
    <2>3. Stored' \subseteq Copies
      BY <1>2 DEF NvsOnlyWrite, Stored, Copies
    <2>4. UNCHANGED used \/ SameUsed
      BY <1>2, SpendKeeps
      DEF NvsOnlyWrite, WriteNvs, MarkRetired, MarkFails, SameUsed, BlobsInv
    <2>5. QED BY <1>2, <2>1, <2>2, <2>3, <2>4, QuietKeepsBlobs DEF NvsOnlyWrite
  <1>3. CASE NvsOnlyFinish
    <2>1. io'.pc \notin WithSnapshot
      BY <1>3 DEF NvsOnlyFinish, IdleIo, WithSnapshot
    <2>2. Stored' \subseteq Copies
      BY <1>3 DEF NvsOnlyFinish, Stored, Copies
    <2>3. fl'.bootNext = fl.bootNext
      BY <1>3, SnapshotFacts DEF NvsOnlyFinish, FlagFields
    <2>4. QED BY <1>3, <2>1, <2>2, <2>3, QuietKeepsBlobs DEF NvsOnlyFinish
  <1>4. QED BY <1>1, <1>2, <1>3

LEMMA WritesKeepBlobs ==
  ASSUME SnapshotInv, CardInv, BlobsInv, nvs'.snapshot = nvs.snapshot, Snapshot \/ SdWrite \/ SdCheck \/ NvsWrite
  PROVE  BlobsInv'
  <1>1. CASE Snapshot
    <2>1. io'.snap = ram
      BY <1>1, SnapshotFacts DEF Snapshot, IoFields
    <2>2. Stored' \subseteq Copies
      BY <1>1 DEF Snapshot, Stored, Copies
    <2>3. QED BY <1>1, <2>1, <2>2, QuietKeepsBlobs DEF Snapshot, Copies
  <1>2. CASE SdWrite /\ ~NotFinished
    <2>1. io.snap \in Copies /\ UNCHANGED <<ram, fl>>
      BY <1>2 DEF SdWrite, Copies, WithSnapshot
    <2>2. io'.snap = io.snap
      BY <1>2, SnapshotFacts DEF SdWrite, IoFields
    <2>3. \A c \in Cards : cards'[c] \in {cards[c], io.snap}
      BY <1>2 DEF SdWrite, CardInv
    <2>4. Stored' \subseteq Copies
      BY <2>1, <2>3 DEF Stored, Copies
    <2>5. UNCHANGED used \/ SameUsed
      BY <1>2, SpendKeeps DEF SdWrite, SameUsed, BlobsInv
    <2>6. QED BY <2>1, <2>2, <2>4, <2>5, QuietKeepsBlobs
  <1>3. CASE SdCheck
    <2>1. io.snap \in Copies
      BY <1>3 DEF SdCheck, Copies, WithSnapshot
    <2>2. io'.snap = io.snap
      BY <1>3, SnapshotFacts DEF SdCheck, IoFields
    <2>3. Stored' \subseteq Copies
      BY <1>3 DEF SdCheck, Stored, Copies
    <2>4. QED BY <1>3, <2>1, <2>2, <2>3, QuietKeepsBlobs DEF SdCheck
  <1>4. CASE NvsWrite
    <2>1. io.snap \in Copies
      BY <1>4 DEF NvsWrite, Copies, WithSnapshot
    <2>2. io'.snap = io.snap
      BY <1>4, SnapshotFacts DEF NvsWrite, IoFields
    <2>3. Stored' \subseteq Copies
      BY <1>4 DEF NvsWrite, Stored, Copies
    <2>4. UNCHANGED used \/ SameUsed
      BY <1>4, SpendKeeps
      DEF NvsWrite, WriteNvs, MarkRetired, MarkFails, SameUsed, BlobsInv
    <2>5. QED BY <1>4, <2>1, <2>2, <2>3, <2>4, QuietKeepsBlobs DEF NvsWrite
  <1>5. QED BY <1>1, <1>2, <1>3, <1>4, NotFinishedKeepsBlobs DEF SdWrite

LEMMA RamFacts ==
  ASSUME BlobsInv
  PROVE  /\ Sound(ram, used.sessions) /\ used.sessions \in Nat
         /\ used.sessions <= MaxSessions /\ ram.nextSeq \in Nat
  BY BoundsAssumption DEF BlobsInv, Copies, UsedOK, Sound

LEMMA FinishKeepsBlobs ==
  ASSUME SnapshotInv, BlobsInv, nvs'.snapshot = nvs.snapshot, Finish
  PROVE  BlobsInv'
  <1>1. fl'.bootNext \in {fl.bootNext, ram.nextSeq}
    BY SnapshotFacts DEF Finish, FlagFields
  <1>2. fl'.bootNext \in Nat
    BY <1>1, RamFacts DEF BlobsInv
  <1>3. io'.pc \notin WithSnapshot /\ UNCHANGED <<ram, cards, used>>
    BY Idle DEF Finish, WithSnapshot
  <1>4. Copies' \subseteq Known
    BY <1>3 DEF Copies, Stored, Known
  <1>5. QED BY <1>1, <1>2, <1>3, <1>4, NoNewCopies

(* A merge of the rows with the card in the slot.                          *)
LEMMA MergeKeepsBlobs ==
  ASSUME SnapshotInv, CardInv, BlobsInv, nvs'.snapshot = nvs.snapshot, io.pc = "reconcile", ReconcileMerges,
         UNCHANGED nvs
  PROVE  BlobsInv'
  <1> DEFINE card == cards[slot]
             merged == MergePrimary(ram, card, fl.auth, LiveFrom)
  <1> DEFINE n == used.sessions
  <1>1. /\ card # NoBlob /\ ram' = merged
        /\ fl' = [fl EXCEPT !.recon = FALSE, !.auth = TRUE,
                            !.sdDirty = merged # card,
                            !.nvsDirty = @ \/ merged # ram,
                            !.bootNext = IF fl.mutated THEN @ ELSE merged.nextSeq]
        /\ io' = [io EXCEPT !.pc = "snapshot"]
        /\ UNCHANGED <<cards, used>>
    BY DEF ReconcileMerges
  <1>2. card \in Copies \/ slot = NoCard
    BY <1>1 DEF Copies, Stored, CardInv
  <1>3. slot # NoCard
    BY DEF CardInv, GenerationInv, ReconcileMerges
  <1>4. card \in Copies
    BY <1>2, <1>3
  <1>5. Sound(card, n) /\ Sound(ram, n) /\ n \in Nat /\ n <= MaxSessions
    BY <1>4, RamFacts DEF BlobsInv
  <1>6. LiveFrom \in Nat
    BY RamFacts DEF LiveFrom, BlobsInv
  <1> HIDE DEF card, merged
  <1>9. Sound(ram', n) /\ (Kin(ram', ram) \/ Kin(ram', card))
    <2>1. PICK auth : auth = fl.auth
      OBVIOUS
    <2>2. PICK m : m = MergePrimary(ram, card, auth, LiveFrom)
      OBVIOUS
    <2>3. Sound(m, n) /\ (m = ram \/ Kin(m, card))
      BY ONLY <1>5, <1>6, <2>2, PrimarySound
    <2>4. QED BY <1>1, <2>1, <2>2, <2>3 DEF merged, Kin
  <1>10. fl'.bootNext \in {fl.bootNext, ram'.nextSeq}
    BY <1>1, SnapshotFacts DEF FlagFields
  <1>11. fl'.bootNext \in Nat
    BY <1>9, <1>10 DEF BlobsInv, Sound
  <1>12. Copies' \subseteq Copies \union {ram'}
    BY <1>1, SnapshotFacts DEF Copies, Stored, WithSnapshot, IoFields
  <1>13. UsedOK' /\ used'.clears = used.clears /\ used'.sessions = n
    BY <1>1 DEF BlobsInv, UsedOK
  <1>14. \A b \in Copies' : Sound(b, used'.sessions) /\ \E a \in Known : Kin(b, a)
    BY <1>4, <1>9, <1>12, <1>13 DEF BlobsInv, Known, Copies, Kin
  <1>15. QED BY <1>10, <1>11, <1>13, <1>14, CopiesOfCopies

LEMMA ReconcileKeepsBlobs ==
  ASSUME SnapshotInv, CardInv, BlobsInv, nvs'.snapshot = nvs.snapshot, Reconcile
  PROVE  BlobsInv'
  <1>1. io.pc = "reconcile"
    BY DEF Reconcile
  <1>2. CASE NotFinished
    BY <1>2, NotFinishedKeepsBlobs
  <1>3. CASE ReconcileMerges /\ UNCHANGED nvs
    BY <1>1, <1>3, MergeKeepsBlobs
  <1>4. CASE ~NotFinished /\ ~ReconcileMerges
    <2>1. UNCHANGED <<ram, cards>>
      BY <1>4 DEF Reconcile, ReconcileStale, ReconcileRolledBack, ReconcileReadFails,
                  ReconcileAbsent, ReconcileConflict, ReconcileFails
    <2>2. /\ fl'.bootNext = fl.bootNext
          /\ io'.pc \in {"nvsOnly", "snapshot"}
      BY <1>4, SnapshotFacts
      DEF Reconcile, ReconcileStale, ReconcileRolledBack, ReconcileReadFails,
          ReconcileAbsent, ReconcileConflict, ReconcileFails, FlagFields, IoFields
    <2>3. UNCHANGED used \/ SameUsed
      BY <1>4, SpendKeeps
      DEF Reconcile, ReconcileStale, ReconcileRolledBack, ReconcileReadFails,
          ReconcileAbsent, ReconcileConflict, SameUsed, BlobsInv
    <2>4. Stored' \subseteq Copies
      BY <2>1 DEF Stored, Copies
    <2>5. QED BY <2>1, <2>2, <2>3, <2>4, QuietKeepsBlobs DEF WithSnapshot
  <1>5. QED BY <1>2, <1>3, <1>4 DEF Reconcile

LEMMA StorageKeepsBlobs ==
  ASSUME SnapshotInv, BlobsInv, nvs'.snapshot = nvs.snapshot, Toggle \/ Crash
  PROVE  BlobsInv'
  <1>1. CASE Toggle
    <2>1. /\ fl'.bootNext = fl.bootNext
          /\ io'.pc = io.pc /\ io'.snap = io.snap
      BY <1>1, SnapshotFacts DEF Toggle, FlagFields, IoFields
    <2>2. SameUsed
      BY <1>1, SpendKeeps DEF Toggle, SameUsed, BlobsInv
    <2>3. Stored' \subseteq Copies /\ (io'.pc \in WithSnapshot => io'.snap \in Copies)
      BY <1>1, <2>1 DEF Toggle, Stored, Copies
    <2>4. QED BY <1>1, <2>1, <2>2, <2>3, QuietKeepsBlobs DEF Toggle
  <1>2. CASE Crash
    <2>1. /\ ram' = EmptyBlob /\ fl'.bootNext = 1 /\ io'.pc \notin WithSnapshot
          /\ UNCHANGED cards
      BY <1>2, Idle DEF Crash, ResetFlags, WithSnapshot
    <2>2. SameUsed
      BY <1>2, SpendKeeps DEF Crash, SameUsed, BlobsInv
    <2>3. Copies' \subseteq Known
      BY <2>1 DEF Copies, Stored, Known
    <2>4. QED BY <2>1, <2>2, <2>3, NoNewCopies DEF SameUsed
  <1>3. QED BY <1>1, <1>2

(* What a boot loads: the legacy snapshot, the card, a merge of the    *)
(* two, or nothing.                                                        *)
LEMMA BootKeepsBlobs ==
  ASSUME SnapshotInv, CardInv, BlobsInv, nvs'.snapshot = nvs.snapshot, Boot
  PROVE  BlobsInv'
  <1> DEFINE n == used.sessions
  <1>1. PICK nvsRead \in BOOLEAN, sdRead \in BOOLEAN, changed \in BOOLEAN :
          Load(nvsRead, sdRead, changed)
    BY DEF Boot
  <1>2. /\ UNCHANGED <<cards, io>> /\ io.pc = "idle"
        /\ UsedOK' /\ used'.clears = used.clears /\ used'.sessions = n
    BY SnapshotFacts DEF Boot, BlobsInv, UsedOK
  <1> DEFINE on == slot # NoCard
             card == IF on THEN cards[slot] ELSE NoBlob
             old == Legacy
             nvsValid == nvsRead /\ old # NoBlob
             sdAccepted == sdRead /\ card # NoBlob /\ ~changed
             merged == MergePrimary(old, card, TRUE, old.nextSeq)
  <1>3. PICK chosen :
          /\ ram' = Normalized(chosen) /\ fl'.bootNext = ram'.nextSeq
          /\ \/ nvsValid /\ sdAccepted /\ chosen = merged
             \/ nvsValid /\ chosen = old
             \/ sdAccepted /\ chosen = card
             \/ chosen = EmptyBlob
    BY <1>1 DEF Load
  <1>4. /\ nvsValid => old \in Copies
        /\ sdAccepted => card \in Copies
    BY DEF Copies, Stored, CardInv, Legacy
  <1>5. n \in Nat /\ n <= MaxSessions
    BY RamFacts
  <1> HIDE DEF card, old
  <1>6. Sound(chosen, n) /\ \E a \in Known : Kin(chosen, a)
    <2>1. CASE nvsValid /\ sdAccepted /\ chosen = merged
      <3>1. Sound(old, n) /\ Sound(card, n) /\ old.nextSeq \in Nat
        BY <1>4, <2>1 DEF BlobsInv, Sound
      <3>2. PICK auth, k : auth = TRUE /\ k = old.nextSeq
        OBVIOUS
      <3>3. PICK m : m = MergePrimary(old, card, auth, k)
        OBVIOUS
      <3>4. Sound(m, n) /\ (m = old \/ Kin(m, card))
        <4> HIDE DEF n
        <4>1. k \in Nat /\ Sound(old, n) /\ Sound(card, n)
          BY <3>1, <3>2
        <4>2. QED BY ONLY <1>5, <3>3, <4>1, PrimarySound
      <3>5. QED BY <1>4, <2>1, <3>2, <3>3, <3>4 DEF Known, Kin
    <2>2. CASE nvsValid /\ chosen = old
      BY <1>4, <2>2 DEF BlobsInv, Known, Kin
    <2>3. CASE sdAccepted /\ chosen = card
      BY <1>4, <2>3 DEF BlobsInv, Known, Kin
    <2>4. CASE chosen = EmptyBlob
      BY <1>5, <2>4, EmptySound DEF Known, Kin
    <2>5. QED BY <1>3, <2>1, <2>2, <2>3, <2>4
  <1>7. Sound(ram', n) /\ Kin(ram', chosen)
    BY <1>3, <1>5, <1>6, NormalizedSound
  <1>8. \E a \in Known : Kin(ram', a)
    BY <1>6, <1>7 DEF Kin
  <1>9. Copies' \subseteq Copies \union {ram'}
    BY <1>2 DEF Copies, Stored, WithSnapshot
  <1>10. \A b \in Copies' : Sound(b, used'.sessions) /\ \E a \in Known : Kin(b, a)
    BY <1>2, <1>7, <1>8, <1>9 DEF BlobsInv, Known, Kin
  <1>11. fl'.bootNext \in Nat
    BY <1>3, <1>7 DEF Sound
  <1>12. QED BY <1>2, <1>10, <1>11, CopiesOfCopies

LEMMA StepKeepsBlobs ==
  ASSUME SnapshotInv, CardInv, NvsInv, BlobsInv, [Next]_vars
  PROVE  BlobsInv'
  <1>0. nvs'.snapshot = nvs.snapshot
    BY StepKeepsNvs
  <1>1. CASE UNCHANGED vars
    <2>1. Copies' = Copies /\ UNCHANGED <<ram, fl, used>>
      BY <1>1 DEF vars, Copies, Stored
    <2>2. QED
      BY <2>1 DEF BlobsInv, UsedOK, LineageInv, Known, FoundLineages
  <1>2. CASE Persist
    BY <1>0, <1>2, BeginKeepsBlobs, ReconcileKeepsBlobs, NvsOnlyKeepsBlobs, WritesKeepBlobs,
       FinishKeepsBlobs
    DEF Persist
  <1>3. CASE Next /\ ~Persist
    BY <1>0, <1>3, AppendsKeepBlobs, MovesKeepBlobs, ClearRowsKeepsBlobs, ClearEraseKeepsBlobs,
       StorageKeepsBlobs, BootKeepsBlobs DEF Next
  <1>4. QED BY <1>1, <1>2, <1>3

(* What the theorems rest on: the persist operation knows what the card    *)
(* holds of its snapshot, the legacy snapshot in NVS is never written, and *)
(* every copy of the history (RAM, snapshots, cards) is sound and of the   *)
(* one epoch of its lineage.                                               *)
THEOREM StoreInvariant ==
  Spec => [](SnapshotInv /\ CardInv /\ NvsInv /\ BlobsInv)
  <1> DEFINE Inv == SnapshotInv /\ CardInv /\ NvsInv /\ BlobsInv
  <1>1. Init => Inv
    BY InitSnapshot, InitCard, InitNvs, InitBlobs
  <1>2. Inv /\ [Next]_vars => Inv'
    BY StepKeepsSnapshot, StepKeepsCard, StepKeepsNvs, StepKeepsBlobs
  <1> HIDE DEF Inv
  <1>3. Spec => []Inv
    BY <1>1, <1>2, PTL DEF Spec
  <1>4. QED BY <1>3 DEF Inv

(* Whatever is merged, renumbered, normalised, evicted or half written,    *)
(* every copy is one blob_layout_is_valid accepts: nothing a store saved   *)
(* is lost at a boot because it does not decode.                           *)
THEOREM CopiesAlwaysDecode == Spec => []CopiesDecode
  <1>1. BlobsInv => CopiesDecode
    <2>1. Media \subseteq Copies
      BY DEF Media, Legacy, Copies, Stored
    <2>2. QED BY <2>1, SoundDecodes DEF BlobsInv, UsedOK, Copies, CopiesDecode
  <1>2. QED BY <1>1, StoreInvariant, PTL

(* Two copies of one lineage are of one epoch, so a merge never finds a    *)
(* newer epoch of the history it has: whatever cards were met, as long as  *)
(* none was written by a schema that counted epochs without lineages.      *)
THEOREM LineageIsOneEpoch == Spec /\ OneSchema => []LineageHasOneEpoch
  <1> SUFFICES ASSUME OneSchema PROVE Spec => []LineageHasOneEpoch
    OBVIOUS
  <1>1. BlobsInv => LineageHasOneEpoch
    <2>1. Media \subseteq Known
      BY DEF Media, Legacy, Copies, Stored, Known
    <2>2. QED BY <2>1 DEF BlobsInv, LineageInv, Known, Copies, LineageHasOneEpoch
  <1>2. QED BY <1>1, StoreInvariant, PTL

-----------------------------------------------------------------------------
(* The control state, and the callers that wait for a flush.               *)
Flags == FlagFields \ {"bootNext"}
IoFlags == {"force", "sd", "genOk", "fresh", "sdTry", "nvsTry"}
FlagsInv == \A f \in Flags : fl[f] \in BOOLEAN
Slots == Cards \union {NoCard}
IoInv == io.card \in Slots /\ \A f \in IoFlags : io[f] \in BOOLEAN
MaskInv == mask \subseteq [id : Sessions, st : DeliveryStates, rev : Nat]
CallersInv ==
  /\ owner \in [pc : {"idle", "flush"}, id : {NoSession} \union Sessions, rev : Nat]
  /\ DOMAIN clear = {"pc", "gone"} /\ clear.pc \in {"idle", "erase", "flush"}
  /\ told \in [Sessions -> [rev : Nat, card : Slots]]
TypesInv == FlagsInv /\ IoInv /\ MaskInv /\ CallersInv

LEMMA IdleFlags ==
  /\ IdleIo.force = FALSE /\ IdleIo.sd = FALSE /\ IdleIo.genOk = FALSE
  /\ IdleIo.fresh = FALSE /\ IdleIo.sdTry = FALSE /\ IdleIo.nvsTry = FALSE
  /\ IdleIo.card = NoCard
  BY DEF IdleIo

LEMMA ResetFlagsFields ==
  ASSUME NEW on \in BOOLEAN
  PROVE  LET f == ResetFlags(on)
         IN  /\ f.loaded = FALSE /\ f.nvsDirty = FALSE /\ f.sdDirty = FALSE
             /\ f.recon = ~on /\ f.retry = FALSE /\ f.auth = FALSE
             /\ f.mutated = FALSE /\ f.genSeen = TRUE
  BY DEF ResetFlags

LEMMA InitTypes == Init => TypesInv
  <1> SUFFICES ASSUME Init PROVE TypesInv
    OBVIOUS
  <1>0. /\ fl = ResetFlags(FALSE) /\ io = IdleIo /\ mask = {} /\ owner = IdleOwner
        /\ clear = IdleClear /\ told = [x \in Sessions |-> NotTold]
    BY DEF Init
  <1>1. FlagsInv
    BY <1>0, ResetFlagsFields DEF FlagsInv, Flags, FlagFields
  <1>2. IoInv
    BY <1>0, IdleFlags DEF IoInv, IoFlags, Slots
  <1>3. MaskInv
    BY <1>0 DEF MaskInv
  <1>4. CallersInv
    BY <1>0 DEF CallersInv, IdleOwner, IdleClear, NotTold, NoSession, Slots
  <1>5. QED BY <1>1, <1>2, <1>3, <1>4 DEF TypesInv

LEMMA ReturnKeepsCallers ==
  ASSUME CallersInv, NEW who, NEW ok, NEW card \in Slots, Return(who, ok, card) \/ NoReturn
  PROVE  CallersInv'
  <1>1. owner' \in {owner, IdleOwner} /\ clear' \in {clear, IdleClear}
    BY DEF Return, NoReturn, ghosts
  <1>2. told' \in {told, [told EXCEPT ![owner.id] = Report(card)]}
    BY DEF Return, NoReturn, ghosts
  <1>3. Report(card) \in [rev : Nat, card : Slots]
    BY DEF CallersInv, Report
  <1>4. told' \in [Sessions -> [rev : Nat, card : Slots]]
    BY <1>2, <1>3 DEF CallersInv
  <1>5. QED BY <1>1, <1>4 DEF CallersInv, IdleOwner, IdleClear, NoSession

LEMMA TouchedFlags ==
  ASSUME SnapshotInv, FlagsInv, fl' = Touched \/ fl' = [Touched EXCEPT !.bootNext = 1]
  PROVE  FlagsInv'
  BY SnapshotFacts DEF FlagsInv, Touched, Flags, FlagFields

LEMMA RowsKeepTypes ==
  ASSUME SnapshotInv, BlobsInv, TypesInv, RowsMove \/ ClearRows
  PROVE  TypesInv'
  <1>1. io' = [io EXCEPT !.fresh = FALSE]
    BY RowsTouch
  <1>2. fl' = Touched \/ fl' = [Touched EXCEPT !.bootNext = 1]
    BY RowsTouch
  <1>3. FlagsInv' /\ IoInv'
    BY <1>1, <1>2, SnapshotFacts, TouchedFlags DEF TypesInv, IoInv, IoFlags, IoFields
  <1>4. /\ used.sessions \in Nat
        /\ \A r \in ram.rows : /\ r \in Rows
                               /\ r.dir = "tx" => r.id \in Sessions
    BY RamFacts, BoundsAssumption
    DEF Sound, RowsSound, RowKnown, RowValid, Sessions
  <1>5. MaskInv'
    <2>1. CASE Acknowledge
      <3>1. PICK r \in ram.rows :
              /\ r.dir = "tx"
              /\ mask' = mask \union {[id |-> r.id, st |-> r.st, rev |-> r.rev]}
        BY <2>1 DEF Acknowledge
      <3>2. QED BY <1>4, <3>1 DEF TypesInv, MaskInv, Rows
    <2>2. CASE ~Acknowledge
      <3>1. mask' \in {mask, {}}
        BY <2>2 DEF RowsMove, AppendTx, AppendRx, TransitionSync, TransitionDeferred, ReserveAck,
                    CompleteAck, AppendRow, ClearRows
      <3>2. QED BY <3>1 DEF TypesInv, MaskInv
    <2>3. QED BY <2>1, <2>2
  <1>6. CallersInv'
    <2>1. CASE ClearRows
      <3>1. /\ owner' = [owner EXCEPT !.rev = 0] /\ told' = [s \in Sessions |-> NotTold]
            /\ \E gone : clear' = [pc |-> "erase", gone |-> gone]
        BY <2>1 DEF ClearRows
      <3>2. QED BY <3>1 DEF TypesInv, CallersInv, NotTold, Slots
    <2>2. CASE ~ClearRows
      <3>1. UNCHANGED <<clear, told>>
        BY <2>2, RowsTouch
      <3>2. \/ owner' = owner
            \/ \E id \in Sessions, rev \in Nat :
                 owner' = [pc |-> "flush", id |-> id, rev |-> rev]
        <4>1. CASE AppendTx
          <5>1. used.sessions + 1 \in Sessions
            BY <1>4, <4>1, BoundsAssumption DEF AppendTx, Sessions
          <5>2. QED BY <4>1, <5>1 DEF AppendTx
        <4>2. CASE TransitionSync
          <5>1. PICK r \in ram.rows :
                  /\ r.dir = "tx"
                  /\ owner' = [pc |-> "flush", id |-> r.id, rev |-> r.rev + 1]
            BY <4>2 DEF TransitionSync
          <5>2. r.rev + 1 \in Nat /\ r.id \in Sessions
            BY <1>4, <5>1 DEF Rows
          <5>3. QED BY <5>1, <5>2
        <4>3. CASE ~AppendTx /\ ~TransitionSync
          BY <2>2, <4>3 DEF RowsMove, AppendRx, TransitionDeferred, Acknowledge, ReserveAck,
                            CompleteAck
        <4>4. QED BY <4>1, <4>2, <4>3
      <3>3. QED BY <3>1, <3>2 DEF TypesInv, CallersInv
    <2>3. QED BY <2>1, <2>2
  <1>7. QED BY <1>3, <1>5, <1>6 DEF TypesInv

LEMMA ClearEraseKeepsTypes ==
  ASSUME SnapshotInv, TypesInv, ClearErase
  PROVE  TypesInv'
  <1>1. UNCHANGED <<mask, fl, io, owner, told>>
    BY DEF ClearErase, ghosts
  <1>2. clear' = [clear EXCEPT !.pc = "flush"] \/ clear' = IdleClear
    BY DEF ClearErase
  <1>3. CallersInv'
    BY <1>1, <1>2 DEF TypesInv, CallersInv, IdleClear
  <1>4. QED BY <1>1, <1>3 DEF TypesInv, FlagsInv, IoInv, MaskInv

(* A step of a persist operation, from what it does to the flags.          *)
LEMMA PersistKeepsTypes ==
  ASSUME TypesInv, FlagsInv', IoInv', mask' \in {mask, {}},
         NoReturn \/ \E who, ok : \E card \in Slots : Return(who, ok, card)
  PROVE  TypesInv'
  <1>1. CallersInv'
    <2>1. NoCard \in Slots
      BY DEF Slots
    <2>2. QED BY <2>1, ReturnKeepsCallers DEF TypesInv
  <1>2. QED BY <1>1 DEF TypesInv, MaskInv

LEMMA IdleKeepsIo ==
  ASSUME io' = IdleIo
  PROVE  IoInv'
  BY IdleFlags DEF IoInv, IoFlags, Slots

LEMMA BeginKeepsTypes ==
  ASSUME SnapshotInv, CardInv, TypesInv, NEW who, NEW force \in BOOLEAN,
         PersistBegin(who, force)
  PROVE  TypesInv'
  <1>1. FlagsInv'
    BY SnapshotFacts
    DEF PersistBegin, GenerationNoted, TypesInv, FlagsInv, Flags, FlagFields
  <1>2. IoInv'
    <2>1. CASE io' = io
      BY <2>1 DEF TypesInv, IoInv
    <2>2. CASE io' # io
      <3>1. PICK pc \in {"reconcile", "snapshot"}, sd \in BOOLEAN :
              io' = [IdleIo EXCEPT !.pc = pc, !.who = who, !.force = force,
                                   !.sd = sd, !.genOk = TRUE, !.card = slot]
        BY <2>2 DEF PersistBegin
      <3>2. /\ io'.card = slot
            /\ io'.force = force /\ io'.sd = sd /\ io'.genOk = TRUE
            /\ io'.fresh = FALSE /\ io'.sdTry = FALSE /\ io'.nvsTry = FALSE
        BY <3>1 DEF IdleIo
      <3>3. QED BY <3>2 DEF IoInv, IoFlags, CardInv, Slots
    <2>3. QED BY <2>1, <2>2
  <1>3. mask' \in {mask, {}} /\ (NoReturn \/ \E w, ok : Return(w, ok, slot))
    BY DEF PersistBegin
  <1>a. slot \in Slots
    BY DEF CardInv, Slots
  <1>4. QED BY <1>1, <1>2, <1>3, <1>a, PersistKeepsTypes

LEMMA NotFinishedKeepsTypes ==
  ASSUME TypesInv, NotFinished
  PROVE  TypesInv'
  <1>1. FlagsInv' /\ IoInv'
    BY IdleKeepsIo DEF NotFinished, TypesInv, FlagsInv
  <1>2. mask' = mask /\ \E w, ok : \E card \in Slots : Return(w, ok, card)
    BY DEF NotFinished, TypesInv, IoInv
  <1>3. QED BY <1>1, <1>2, PersistKeepsTypes

LEMMA ReconcileKeepsTypes ==
  ASSUME SnapshotInv, TypesInv, Reconcile
  PROVE  TypesInv'
  <1>1. CASE NotFinished
    BY <1>1, NotFinishedKeepsTypes
  <1>2. CASE ~NotFinished
    <2>1. FlagsInv'
      BY <1>2, SnapshotFacts
      DEF Reconcile, ReconcileStale, ReconcileRolledBack, ReconcileReadFails,
          ReconcileAbsent, ReconcileConflict, ReconcileMerges, ReconcileFails,
          TypesInv, FlagsInv, Flags, FlagFields
    <2>2. IoInv'
      BY <1>2, SnapshotFacts
      DEF Reconcile, ReconcileStale, ReconcileRolledBack, ReconcileReadFails,
          ReconcileAbsent, ReconcileConflict, ReconcileMerges, ReconcileFails,
          TypesInv, IoInv, IoFlags, IoFields
    <2>3. NoReturn
      BY <1>2
      DEF Reconcile, ReconcileStale, ReconcileRolledBack, ReconcileReadFails,
          ReconcileAbsent, ReconcileConflict, ReconcileMerges, ReconcileFails
    <2>4. mask' \in {mask, {}}
      BY <1>2
      DEF Reconcile, ReconcileStale, ReconcileRolledBack, ReconcileReadFails,
          ReconcileAbsent, ReconcileConflict, ReconcileMerges
    <2>5. QED BY <2>1, <2>2, <2>3, <2>4, PersistKeepsTypes
  <1>3. QED BY <1>1, <1>2

LEMMA WritesKeepTypes ==
  ASSUME SnapshotInv, TypesInv,
         NvsOnlySnapshot \/ NvsOnlyWrite \/ Snapshot \/ SdWrite \/ SdCheck \/ NvsWrite
  PROVE  TypesInv'
  <1>1. CASE NotFinished
    BY <1>1, NotFinishedKeepsTypes
  <1>2. CASE SdWrite /\ ~NotFinished
    <2>1. /\ UNCHANGED <<fl, mask, owner, clear>>
          /\ told' = told \/ told' = StillTold(slot, io.snap)
      BY <1>2 DEF SdWrite, NoReturn, ghosts
    <2>2. told' \in [Sessions -> [rev : Nat, card : Slots]]
      BY <2>1 DEF TypesInv, CallersInv, StillTold, NotTold, Slots
    <2>3. IoInv'
      BY <1>2, SnapshotFacts DEF SdWrite, TypesInv, IoInv, IoFlags, IoFields
    <2>4. QED BY <2>1, <2>2, <2>3 DEF TypesInv, FlagsInv, MaskInv, CallersInv
  <1>3. CASE ~NotFinished /\ ~SdWrite
    <2>1. UNCHANGED <<fl, mask>>
      BY <1>3 DEF NvsOnlySnapshot, NvsOnlyWrite, Snapshot, SdCheck, NvsWrite
    <2>2. IoInv'
      <3>1. CASE NvsOnlySnapshot
        <4>1. \/ io' = IdleIo
              \/ io' = [io EXCEPT !.pc = "nvsOnlyWrite", !.snap = ram, !.fresh = TRUE]
          BY <3>1 DEF NvsOnlySnapshot
        <4>2. QED BY <4>1, IdleKeepsIo, SnapshotFacts DEF TypesInv, IoInv, IoFlags, IoFields
      <3>2. CASE Snapshot
        <4>1. fl.sdDirty \in BOOLEAN /\ fl.nvsDirty \in BOOLEAN /\ io.sd \in BOOLEAN
          BY DEF TypesInv, FlagsInv, IoInv, Flags, FlagFields, IoFlags
        <4>2. PICK sdTry \in BOOLEAN : \E pc :
                io' = [io EXCEPT !.snap = ram, !.fresh = TRUE, !.sdTry = sdTry,
                                 !.nvsTry = fl.nvsDirty, !.pc = pc]
          BY <3>2, <4>1 DEF Snapshot
        <4>3. QED BY <4>1, <4>2, SnapshotFacts DEF TypesInv, IoInv, IoFlags, IoFields
      <3>3. CASE ~NvsOnlySnapshot /\ ~Snapshot
        BY <1>3, <3>3, SnapshotFacts
        DEF NvsOnlyWrite, SdCheck, NvsWrite, TypesInv, IoInv, IoFlags, IoFields
      <3>4. QED BY <3>1, <3>2, <3>3
    <2>3. NoReturn \/ \E w, ok : Return(w, ok, io.card)
      BY <1>3 DEF NvsOnlySnapshot, NvsOnlyWrite, Snapshot, SdCheck, NvsWrite
    <2>4. FlagsInv'
      BY <2>1 DEF TypesInv, FlagsInv
    <2>5. io.card \in Slots
      BY DEF TypesInv, IoInv
    <2>6. QED BY <2>1, <2>2, <2>3, <2>4, <2>5, PersistKeepsTypes
  <1>4. QED BY <1>1, <1>2, <1>3

LEMMA FinishKeepsTypes ==
  ASSUME SnapshotInv, TypesInv, NvsOnlyFinish \/ Finish
  PROVE  TypesInv'
  <1>1. FlagsInv'
    <2>1. DOMAIN fl = FlagFields /\ \A f \in Flags : fl[f] \in BOOLEAN
      BY SnapshotFacts DEF TypesInv, FlagsInv
    <2>2. CASE NvsOnlyFinish
      BY <2>1, <2>2 DEF NvsOnlyFinish, FlagsInv, Flags, FlagFields
    <2>3. CASE Finish
      <3> DEFINE saved(try, ret) == try /\ ret = "ok" /\ io.fresh
                 g == [fl EXCEPT !.sdDirty = @ /\ ~saved(io.sdTry, io.sdRet),
                                 !.nvsDirty = @ /\ ~saved(io.nvsTry, io.nvsRet),
                                 !.recon = @ \/ io.sdRet = "stale"]
                 again == g.retry \/ (io.sdRet # "ok" \/ io.nvsRet # "ok") \/ ~io.fresh
      <3>1. DOMAIN g = FlagFields /\ \A f \in Flags : g[f] \in BOOLEAN
        BY <2>1 DEF Flags, FlagFields
      <3>2. again \in BOOLEAN
        BY <3>1 DEF Flags, FlagFields
      <3>3. \/ fl' = [g EXCEPT !.retry = again]
            \/ fl' = [g EXCEPT !.retry = FALSE]
            \/ fl' = [g EXCEPT !.retry = FALSE, !.mutated = FALSE,
                              !.bootNext = ram.nextSeq]
        BY <2>3 DEF Finish
      <3> HIDE DEF g, again
      <3>4. QED BY <3>1, <3>2, <3>3 DEF FlagsInv, Flags, FlagFields
    <2>4. QED BY <2>2, <2>3
  <1>2. IoInv' /\ mask' \in {mask, {}} /\ \E w, ok : \E card \in Slots : Return(w, ok, card)
    BY IdleKeepsIo DEF NvsOnlyFinish, Finish, TypesInv, IoInv
  <1>3. QED BY <1>1, <1>2, PersistKeepsTypes

LEMMA StorageKeepsTypes ==
  ASSUME SnapshotInv, TypesInv, Toggle \/ Crash
  PROVE  TypesInv'
  <1>1. CASE Toggle
    <2>1. FlagsInv' /\ IoInv'
      BY <1>1, SnapshotFacts
      DEF Toggle, TypesInv, FlagsInv, Flags, FlagFields, IoInv, IoFlags, IoFields
    <2>2. QED BY <1>1, <2>1 DEF Toggle, TypesInv, MaskInv, CallersInv, ghosts
  <1>2. CASE Crash
    <2>1. FlagsInv'
      BY <1>2, ResetFlagsFields DEF Crash, FlagsInv, Flags, FlagFields
    <2>2. CallersInv'
      <3>1. owner' = IdleOwner /\ clear' = IdleClear /\ told' = told
        BY <1>2 DEF Crash, ghosts
      <3>2. QED BY <3>1 DEF TypesInv, CallersInv, IdleOwner, IdleClear, NoSession
    <2>3. QED BY <1>2, <2>1, <2>2, IdleKeepsIo DEF Crash, TypesInv, MaskInv
  <1>3. QED BY <1>1, <1>2

LEMMA BootKeepsTypes ==
  ASSUME TypesInv, Boot
  PROVE  TypesInv'
  <1>1. PICK nvsRead \in BOOLEAN, sdRead \in BOOLEAN, changed \in BOOLEAN :
          Load(nvsRead, sdRead, changed)
    BY DEF Boot
  <1>2. FlagsInv'
    <2>1. /\ fl'.loaded \in BOOLEAN /\ fl'.nvsDirty \in BOOLEAN /\ fl'.sdDirty \in BOOLEAN
          /\ fl'.recon \in BOOLEAN /\ fl'.retry \in BOOLEAN /\ fl'.auth \in BOOLEAN
          /\ fl'.mutated \in BOOLEAN /\ fl'.genSeen \in BOOLEAN
      BY <1>1 DEF Load
    <2>2. QED BY <2>1 DEF FlagsInv, Flags, FlagFields
  <1>3. QED BY <1>2 DEF Boot, TypesInv, IoInv, MaskInv, CallersInv, ghosts

LEMMA StepKeepsTypes ==
  ASSUME SnapshotInv, CardInv, BlobsInv, TypesInv, [Next]_vars
  PROVE  TypesInv'
  <1>1. CASE UNCHANGED vars
    BY <1>1 DEF vars, ghosts, TypesInv, FlagsInv, IoInv, MaskInv, CallersInv
  <1>2. CASE Persist
    BY <1>2, BeginKeepsTypes, ReconcileKeepsTypes, WritesKeepTypes, FinishKeepsTypes
    DEF Persist
  <1>3. CASE Next /\ ~Persist
    BY <1>3, RowsKeepTypes, ClearEraseKeepsTypes, StorageKeepsTypes, BootKeepsTypes
    DEF Next, RowsMove
  <1>4. QED BY <1>1, <1>2, <1>3

(* Every variable keeps its type, the blobs included: a merge with any     *)
(* card of any device makes nothing but rows.                              *)
THEOREM StoreTyping == Spec => []TypeOK
  <1> DEFINE Inv == SnapshotInv /\ CardInv /\ NvsInv /\ BlobsInv
  <1>1. Inv /\ TypesInv => TypeOK
    <2> SUFFICES ASSUME Inv, TypesInv PROVE TypeOK
      OBVIOUS
    <2>1. ControlOK
      BY SnapshotFacts DEF ControlOK, TypesInv, FlagsInv, IoInv, Flags, IoFlags
    <2>2. \A b \in Copies : b \in Blobs
      BY SoundDecodes DEF BlobsInv, UsedOK
    <2>3. /\ ram \in Blobs /\ (nvs.snapshot # NoBlob => nvs.snapshot \in Blobs)
          /\ \A c \in Cards : cards[c] # NoBlob => cards[c] \in Blobs
          /\ io.pc \in WithSnapshot => io.snap \in Blobs
      BY <2>2 DEF Copies, Stored
    <2>4. slot \in Slots /\ io.card \in Slots
      BY DEF CardInv, TypesInv, IoInv, Slots
    <2>5. QED BY <2>1, <2>3, <2>4 DEF TypeOK, NvsInv, TypesInv, MaskInv, CallersInv, Slots
  <1>2. Inv /\ TypesInv /\ [Next]_vars => TypesInv'
    BY StepKeepsTypes
  <1> HIDE DEF Inv
  <1>3. Spec => []Inv
    BY StoreInvariant DEF Inv
  <1>4. Spec => []TypesInv
    BY InitTypes, <1>2, <1>3, PTL DEF Spec
  <1>5. QED BY <1>1, <1>3, <1>4, PTL

-----------------------------------------------------------------------------
(* The rows that open deliveries need.  Only an append or a merge evicts;  *)
(* an append evicts at most the oldest row, and is refused while that row  *)
(* is open.                                                                *)
LEMMA RamRows ==
  ASSUME BlobsInv
  PROVE  /\ \A r \in ram.rows : r \in Rows /\ RowKnown(r, used.sessions)
         /\ \A r, s \in ram.rows : r # s => r.id # s.id
         /\ DOMAIN ram = BlobFields
  BY RamFacts DEF Sound, RowsSound, RowKnown, RowValid

LEMMA NewestDropsOldest ==
  ASSUME NEW S, IsFiniteSet(S), Cardinality(S) <= Capacity + 1,
         \A r \in S : r.seq \in Nat,
         NEW r \in S, r \notin Newest(S, Capacity)
  PROVE  Cardinality(S) = Capacity + 1 /\ \A s \in S : r.seq <= s.seq
  <1> DEFINE N == {s \in S : s.seq >= r.seq}
  <1>1. IsFiniteSet(N) /\ N \subseteq S /\ Cardinality(N) <= Cardinality(S)
    BY FS_Subset
  <1>2. Cardinality(N) \in Nat /\ Cardinality(S) \in Nat
    BY <1>1, FS_CardinalityType
  <1>3. Cardinality(N) > Capacity
    BY <1>2, CapacityAssumption DEF Newest
  <1>4. Cardinality(S) = Capacity + 1 /\ Cardinality(N) = Cardinality(S)
    BY <1>1, <1>2, <1>3, CapacityAssumption
  <1>5. N = S
    BY <1>1, <1>4, FS_Subset
  <1>6. QED BY <1>4, <1>5

LEMMA AppendKeepsOpenRows ==
  ASSUME BlobsInv, NEW row, row.seq = ram.nextSeq, AppendRow(row),
         NEW r \in ram.rows, r.dir = "tx", ~Terminal(Public(r).st)
  PROVE  r.id \in Ids(ram'.rows)
  <1> DEFINE S == ram.rows \union {row}
  <1>1. Sound(ram, used.sessions) /\ ram.nextSeq \in Nat
    BY RamFacts
  <1>2. /\ \A s \in ram.rows : s.seq \in Nat /\ s.seq < ram.nextSeq
        /\ \A s, t \in ram.rows : s # t => s.seq # t.seq
        /\ IsFiniteSet(ram.rows) /\ Cardinality(ram.rows) <= Capacity
    BY <1>1 DEF Sound, RowsSound, RowKnown, RowValid, Rows
  <1>3. row \notin ram.rows
    BY <1>1, <1>2
  <1>4. /\ IsFiniteSet(S) /\ Cardinality(S) = Cardinality(ram.rows) + 1
        /\ Cardinality(ram.rows) \in Nat
    BY <1>2, <1>3, FS_AddElement, FS_CardinalityType
  <1>5. ram'.rows = Newest(S, Capacity)
    BY <1>1 DEF AppendRow, Sound, BlobFields
  <1>6. CASE r \in Newest(S, Capacity)
    BY <1>5, <1>6 DEF Ids
  <1>7. CASE r \notin Newest(S, Capacity)
    <2>1. Cardinality(S) = Capacity + 1 /\ \A s \in S : r.seq <= s.seq
      <3>1. \A s \in S : s.seq \in Nat
        BY <1>1, <1>2
      <3>2. Cardinality(S) <= Capacity + 1 /\ r \in S
        BY <1>2, <1>4, CapacityAssumption
      <3> HIDE DEF S
      <3>3. QED BY <1>4, <1>7, <3>1, <3>2, NewestDropsOldest
    <2>2. Cardinality(ram.rows) = Capacity
      BY <1>4, <2>1, CapacityAssumption
    <2>3. Oldest(ram.rows) = r
      BY <1>2, <2>1 DEF Oldest
    <2>4. QED BY <2>2, <2>3 DEF AppendRow, RoomToAppend
  <1>8. QED BY <1>6, <1>7

LEMMA MovesKeepIds ==
  ASSUME BlobsInv,
         TransitionSync \/ TransitionDeferred \/ Acknowledge \/ ReserveAck \/ CompleteAck
  PROVE  Ids(ram'.rows) = Ids(ram.rows)
  <1>1. \A r \in ram.rows : r \in Rows
    BY RamRows
  <1>2. \E r \in ram.rows : \E s : s.id = r.id /\ Mutate(Replace(r, s))
    <2>1. CASE TransitionSync \/ TransitionDeferred \/ Acknowledge
      <3>1. \E r \in ram.rows : \E next : Mutate(Replace(r, Moved(r, next)))
        BY <2>1 DEF TransitionSync, TransitionDeferred, Acknowledge
      <3>2. \A r \in ram.rows : \A next : Moved(r, next).id = r.id
        BY <1>1 DEF Moved, Rows
      <3>3. QED BY <3>1, <3>2
    <2>2. CASE ReserveAck \/ CompleteAck
      <3>1. \E r \in ram.rows : \E st, n : Mutate(Replace(r, [r EXCEPT !.ackSt = st, !.ackN = n]))
                                    \/ Mutate(Replace(r, [r EXCEPT !.ackSt = st]))
        BY <2>2 DEF ReserveAck, CompleteAck
      <3>2. \A r \in ram.rows : \A st, n : /\ [r EXCEPT !.ackSt = st, !.ackN = n].id = r.id
                                           /\ [r EXCEPT !.ackSt = st].id = r.id
        BY <1>1 DEF Rows
      <3>3. QED BY <3>1, <3>2
    <2>3. QED BY <2>1, <2>2
  <1>3. PICK r \in ram.rows : \E s : s.id = r.id /\ Mutate(Replace(r, s))
    BY <1>2
  <1>4. PICK s : s.id = r.id /\ Mutate(Replace(r, s))
    BY <1>3
  <1>5. ram'.rows = Replace(r, s)
    BY <1>4, RamRows DEF Mutate, BlobFields
  <1>6. QED BY <1>4, <1>5 DEF Replace, Ids

(* Nothing but a merge takes the row of an open delivery away while the    *)
(* device runs and no clear begins: no append to a full ring, and no step  *)
(* of a flush.  (A merge may: it keeps the newest rows of both copies.)    *)
THEOREM OnlyMergesEvictOpenRows == Spec => [][ReconcileMerges \/ OpenRowsStay]_vars
  <1> DEFINE Inv == SnapshotInv /\ CardInv /\ NvsInv /\ BlobsInv
  <1>1. Inv /\ [Next]_vars => [ReconcileMerges \/ OpenRowsStay]_vars
    <2> SUFFICES ASSUME SnapshotInv, BlobsInv, Next, ~ReconcileMerges,
                        fl.loaded, fl'.loaded, clear'.pc # "erase",
                        NEW r \in ram.rows, r.dir = "tx", ~Terminal(Public(r).st)
                 PROVE  r.id \in Ids(ram'.rows)
      BY DEF OpenRowsStay
    <2>1. CASE UNCHANGED ram
      BY <2>1 DEF Ids
    <2>2. CASE AppendTx
      <3>1. PICK id : AppendRow(TxRow(ram.nextSeq, id))
        BY <2>2 DEF AppendTx
      <3>2. TxRow(ram.nextSeq, id).seq = ram.nextSeq
        BY DEF TxRow
      <3>3. QED BY <3>1, <3>2, AppendKeepsOpenRows
    <2>3. CASE AppendRx
      <3>1. PICK id : AppendRow(RxRow(ram.nextSeq, id))
        BY <2>3 DEF AppendRx
      <3>2. RxRow(ram.nextSeq, id).seq = ram.nextSeq
        BY DEF RxRow
      <3>3. QED BY <3>1, <3>2, AppendKeepsOpenRows
    <2>4. CASE TransitionSync \/ TransitionDeferred \/ Acknowledge \/ ReserveAck \/ CompleteAck
      BY <2>4, MovesKeepIds DEF Ids
    <2>5. CASE ClearRows
      BY <2>5 DEF ClearRows
    <2>6. CASE Crash
      BY <2>6 DEF Crash, ResetFlags
    <2>7. CASE ClearErase \/ Toggle \/ Boot
      BY <2>1, <2>7 DEF ClearErase, Toggle, Boot
    <2>8. CASE Persist
      <3>1. UNCHANGED ram
        BY <2>8 DEF Persist, PersistBegin, Reconcile, NotFinished, ReconcileStale,
                    ReconcileRolledBack, ReconcileReadFails, ReconcileAbsent,
                    ReconcileConflict, ReconcileFails, NvsOnlySnapshot, NvsOnlyWrite,
                    NvsOnlyFinish, Snapshot, SdWrite, SdCheck, NvsWrite, Finish
      <3>2. QED BY <2>1, <3>1
    <2>9. QED BY <2>2, <2>3, <2>4, <2>5, <2>6, <2>7, <2>8 DEF Next
  <1> HIDE DEF Inv
  <1>2. Spec => []Inv
    BY StoreInvariant DEF Inv
  <1>3. QED BY <1>1, <1>2, PTL DEF Spec

-----------------------------------------------------------------------------
(* The card a persist operation began with.  While the backend is the one  *)
(* of its beginning it is the card in the slot; the operation has nothing  *)
(* to save to it only when it holds the rows, and a write that returned OK *)
(* has put the snapshot there, wherever the card is by now.                *)
SavedOn(c) == cards[c] = ram \/ (cards[c] = NoBlob /\ ram.rows = {})
OpCard ==
  /\ io.pc = "idle" => ~io.sd
  /\ io.pc # "idle" /\ io.sd => io.card \in Cards /\ (io.genOk => slot = io.card)
OpClean ==
  io.pc \in {"snapshot", "nvs", "finish"} /\ io.sd /\ ~fl.sdDirty /\ ~fl.recon =>
    SavedOn(io.card)
OpWritten ==
  /\ io.pc \in {"sdCheck", "nvs", "finish"} /\ io.sd /\ io.sdTry /\ io.sdRet = "ok"
  /\ io.pc = "sdCheck" => io.genOk
  => cards[io.card] = io.snap
OperationInv == OpCard /\ OpClean /\ OpWritten

LEMMA InitOperation == Init => OperationInv
  <1>1. Init => io = IdleIo
    BY Zenon DEF Init
  <1>2. QED BY <1>1 DEF IdleIo, OperationInv, OpCard, OpClean, OpWritten

LEMMA IdleOperation ==
  ASSUME io' = IdleIo
  PROVE  OperationInv'
  BY DEF IdleIo, OperationInv, OpCard, OpClean, OpWritten

(* A step within an operation that leaves the media and the rows alone.    *)
LEMMA QuietOperation ==
  ASSUME OperationInv, UNCHANGED <<ram, cards>>, io.pc # "idle",
         io'.sd = io.sd, io'.card = io.card,
         io'.genOk => io.genOk /\ slot' = slot,
         fl'.sdDirty = fl.sdDirty, fl.recon => fl'.recon,
         io'.pc \in {"nvsOnly", "nvsOnlyWrite", "nvsOnlyFinish"}
  PROVE  OperationInv'
  BY DEF OperationInv, OpCard, OpClean, OpWritten

LEMMA RowsKeepOperation ==
  ASSUME SnapshotInv, OperationInv, RowsMove \/ ClearRows
  PROVE  OperationInv'
  <1>1. io' = [io EXCEPT !.fresh = FALSE] /\ UNCHANGED <<cards, slot>>
    BY RowsTouch
  <1>2. fl' = Touched \/ fl' = [Touched EXCEPT !.bootNext = 1]
    BY RowsTouch
  <1>3. fl'.sdDirty
    BY <1>2, SnapshotFacts DEF Touched, FlagFields
  <1>4. /\ io'.pc = io.pc /\ io'.sd = io.sd /\ io'.genOk = io.genOk /\ io'.sdTry = io.sdTry
        /\ io'.sdRet = io.sdRet /\ io'.snap = io.snap /\ io'.card = io.card
    BY <1>1, SnapshotFacts DEF IoFields
  <1>5. QED
    BY <1>1, <1>3, <1>4 DEF OperationInv, OpCard, OpClean, OpWritten

LEMMA BeginKeepsOperation ==
  ASSUME SnapshotInv, CardInv, OperationInv, NEW who, NEW force, PersistBegin(who, force)
  PROVE  OperationInv'
  <1>1. io.pc = "idle" /\ fl.loaded /\ UNCHANGED <<ram, cards, slot>>
    BY DEF PersistBegin
  <1>2. CASE io' = io
    BY <1>1, <1>2 DEF OperationInv, OpCard, OpClean, OpWritten
  <1>3. CASE io' # io
    <2>1. io' = [IdleIo EXCEPT !.pc = IF (slot # NoCard) /\ fl'.recon THEN "reconcile"
                                                                 ELSE "snapshot",
                               !.who = who, !.force = force,
                               !.sd = (slot # NoCard), !.genOk = TRUE,
                               !.card = slot]
      BY <1>3 DEF PersistBegin
    <2>2. /\ io'.pc = IF (slot # NoCard) /\ fl'.recon THEN "reconcile" ELSE "snapshot"
          /\ io'.sd = (slot # NoCard) /\ io'.card = slot /\ io'.sdTry = FALSE
      BY <2>1 DEF IdleIo
    <2>3. \/ fl.genSeen /\ fl' = fl
          \/ ~fl.genSeen /\ fl' = GenerationNoted(fl)
      BY DEF PersistBegin
    <2>4. ~fl'.recon => fl' = fl /\ fl.genSeen
      BY <2>3, SnapshotFacts DEF GenerationNoted, FlagFields
    <2>5. io'.sd /\ ~fl'.sdDirty /\ ~fl'.recon => SavedOn(slot)
      BY <1>1, <2>2, <2>4 DEF CardInv, SdCleanMeansSaved, SavedOn
    <2>6. slot \in Cards \/ slot = NoCard
      BY DEF CardInv
    <2>7. OpCard'
      BY <1>1, <2>2, <2>6 DEF OpCard
    <2>8. OpClean'
      BY <1>1, <2>2, <2>5 DEF OpClean, SavedOn
    <2>9. OpWritten'
      BY <2>2 DEF OpWritten
    <2>10. QED BY <2>7, <2>8, <2>9 DEF OperationInv
  <1>4. QED BY <1>2, <1>3

LEMMA ReconcileKeepsOperation ==
  ASSUME SnapshotInv, CardInv, OperationInv, Reconcile
  PROVE  OperationInv'
  <1>1. io.pc = "reconcile"
    BY DEF Reconcile
  <1>2. io.sd /\ io.card \in Cards /\ (io.genOk => slot = io.card)
    BY <1>1 DEF CardInv, GenerationInv, OperationInv, OpCard
  <1>3. CASE NotFinished
    BY <1>3, IdleOperation DEF NotFinished
  <1>4. CASE ReconcileRolledBack
    <2>1. /\ fl'.recon /\ fl'.sdDirty = fl.sdDirty
          /\ io'.pc = "nvsOnly" /\ io'.genOk = FALSE /\ io'.sd = io.sd /\ io'.card = io.card
      BY <1>4, SnapshotFacts DEF ReconcileRolledBack, FlagFields, IoFields
    <2>2. QED BY <1>1, <1>4, <2>1, QuietOperation DEF ReconcileRolledBack
  <1>5. CASE ReconcileStale \/ ReconcileReadFails \/ ReconcileConflict
    <2>1. UNCHANGED <<ram, cards, slot>> /\ ReconcileFails
      BY <1>5 DEF ReconcileStale, ReconcileReadFails, ReconcileConflict, ReconcileFails
    <2>2. /\ fl'.recon /\ fl'.sdDirty = fl.sdDirty
          /\ io'.pc = "nvsOnly" /\ io'.genOk = io.genOk /\ io'.sd = io.sd
          /\ io'.card = io.card
      BY <2>1, SnapshotFacts DEF ReconcileFails, FlagFields, IoFields
    <2>3. QED BY <1>1, <2>1, <2>2, QuietOperation
  <1>6. CASE ReconcileAbsent
    <2>1. /\ fl'.sdDirty = (ram.rows # {} \/ ram.epoch > 1 \/ ram.lineage # 0)
          /\ io'.pc = "snapshot" /\ io'.genOk = io.genOk /\ io'.sd = io.sd
          /\ io'.card = io.card
      BY <1>6, SnapshotFacts DEF ReconcileAbsent, FlagFields, IoFields
    <2>2. UNCHANGED <<ram, cards, slot>> /\ cards[slot] = NoBlob /\ io.genOk
      BY <1>6 DEF ReconcileAbsent
    <2>3. QED
      BY <1>2, <2>1, <2>2 DEF OperationInv, OpCard, OpClean, OpWritten, SavedOn
  <1>7. CASE ReconcileMerges
    <2> DEFINE merged == MergePrimary(ram, cards[slot], fl.auth, LiveFrom)
    <2>1. /\ ram' = merged
          /\ io' = [io EXCEPT !.pc = "snapshot"]
          /\ fl' = [fl EXCEPT !.recon = FALSE, !.auth = TRUE,
                              !.sdDirty = merged # cards[slot],
                              !.nvsDirty = @ \/ merged # ram,
                              !.bootNext = IF fl.mutated THEN @ ELSE merged.nextSeq]
          /\ UNCHANGED <<cards, slot>> /\ io.genOk
      BY <1>7 DEF ReconcileMerges
    <2> HIDE DEF merged
    <2>2. fl'.sdDirty = (merged # cards[slot])
      BY <2>1, SnapshotFacts DEF FlagFields
    <2>3. /\ io'.pc = "snapshot" /\ io'.genOk = io.genOk /\ io'.sd = io.sd
          /\ io'.card = io.card
      BY <2>1, SnapshotFacts DEF IoFields
    <2>4. QED
      BY <1>2, <2>1, <2>2, <2>3 DEF OperationInv, OpCard, OpClean, OpWritten, SavedOn
  <1>8. QED BY <1>3, <1>4, <1>5, <1>6, <1>7 DEF Reconcile

LEMMA NvsOnlyKeepsOperation ==
  ASSUME SnapshotInv, OperationInv, NvsOnlySnapshot \/ NvsOnlyWrite \/ NvsOnlyFinish
  PROVE  OperationInv'
  <1>1. CASE io' = IdleIo
    BY <1>1, IdleOperation
  <1>2. CASE NvsOnlySnapshot /\ io' # IdleIo
    <2>1. io' = [io EXCEPT !.pc = "nvsOnlyWrite", !.snap = ram, !.fresh = TRUE]
      BY <1>2 DEF NvsOnlySnapshot
    <2>2. /\ io'.pc = "nvsOnlyWrite" /\ io'.genOk = io.genOk /\ io'.sd = io.sd
          /\ io'.card = io.card
      BY <2>1, SnapshotFacts DEF IoFields
    <2>3. io.pc = "nvsOnly" /\ UNCHANGED <<ram, fl, cards, slot>>
      BY <1>2 DEF NvsOnlySnapshot
    <2>4. QED BY <2>2, <2>3, QuietOperation
  <1>3. CASE NvsOnlyWrite
    <2>1. PICK ret \in {"ok", "fail"} : io' = [io EXCEPT !.pc = "nvsOnlyFinish", !.nvsRet = ret]
      BY <1>3 DEF NvsOnlyWrite
    <2>2. /\ io'.pc = "nvsOnlyFinish" /\ io'.genOk = io.genOk /\ io'.sd = io.sd
          /\ io'.card = io.card
      BY <2>1, SnapshotFacts DEF IoFields
    <2>3. io.pc = "nvsOnlyWrite" /\ UNCHANGED <<ram, fl, cards, slot>>
      BY <1>3 DEF NvsOnlyWrite
    <2>4. QED BY <2>2, <2>3, QuietOperation
  <1>4. QED BY <1>1, <1>2, <1>3 DEF NvsOnlyFinish

LEMMA WritesKeepOperation ==
  ASSUME SnapshotInv, CardInv, OperationInv, Snapshot \/ SdWrite \/ SdCheck \/ NvsWrite
  PROVE  OperationInv'
  <1>1. CASE Snapshot
    <2>1. UNCHANGED <<ram, fl, cards, slot>> /\ io.pc = "snapshot"
      BY <1>1 DEF Snapshot
    <2>2. /\ io'.genOk = io.genOk /\ io'.sd = io.sd /\ io'.sdTry = (io.sd /\ fl.sdDirty)
          /\ io'.card = io.card
          /\ io'.pc \in {"sd", "nvs", "finish"} /\ (io'.pc = "sd") = (io.sd /\ fl.sdDirty)
      BY <1>1, SnapshotFacts DEF Snapshot, IoFields
    <2>3. QED BY <2>1, <2>2 DEF OperationInv, OpCard, OpClean, OpWritten, SavedOn
  <1>2. CASE SdWrite
    <2>1. CASE NotFinished
      BY <2>1, IdleOperation DEF NotFinished
    <2>2. CASE ~NotFinished
      <3>1. io.pc = "sd" /\ UNCHANGED <<ram, fl, slot>>
        BY <1>2, <2>2 DEF SdWrite
      <3>2. /\ io'.pc = "sdCheck" /\ io'.genOk = io.genOk /\ io'.sd = io.sd
            /\ io'.sdTry = io.sdTry /\ io'.snap = io.snap /\ io'.card = io.card
        BY <1>2, <2>2, SnapshotFacts DEF SdWrite, IoFields
      <3>3. \/ io.genOk /\ cards' = [cards EXCEPT ![slot] = io.snap]
            \/ ~io.genOk
            \/ io'.sdRet = "fail"
        BY <1>2, <2>2, SnapshotFacts DEF SdWrite, IoFields
      <3>4. io.sd /\ io.card \in Cards /\ (io.genOk => slot = io.card)
        BY <3>1 DEF CardInv, SdWriting, OperationInv, OpCard
      <3>5. io'.genOk /\ io'.sdRet = "ok" => cards'[io.card] = io.snap
        BY <3>2, <3>3, <3>4 DEF CardInv
      <3>6. QED
        BY <3>1, <3>2, <3>4, <3>5 DEF OperationInv, OpCard, OpClean, OpWritten
    <2>3. QED BY <2>1, <2>2
  <1>3. CASE SdCheck
    <2>1. UNCHANGED <<ram, fl, cards, slot>> /\ io.pc = "sdCheck"
      BY <1>3 DEF SdCheck
    <2>2. /\ io'.genOk = io.genOk /\ io'.sd = io.sd /\ io'.sdTry = io.sdTry
          /\ io'.snap = io.snap /\ io'.pc \in {"nvs", "finish"} /\ io'.card = io.card
          /\ io'.sdRet = IF io.genOk THEN io.sdRet ELSE "stale"
      BY <1>3, SnapshotFacts DEF SdCheck, IoFields
    <2>3. fl.sdDirty
      BY <2>1 DEF CardInv, SdWriting
    <2>4. QED BY <2>1, <2>2, <2>3 DEF OperationInv, OpCard, OpClean, OpWritten
  <1>4. CASE NvsWrite
    <2>1. PICK ret \in {"ok", "fail"} : io' = [io EXCEPT !.pc = "finish", !.nvsRet = ret]
      BY <1>4 DEF NvsWrite
    <2>2. /\ io'.genOk = io.genOk /\ io'.sd = io.sd /\ io'.sdTry = io.sdTry
          /\ io'.snap = io.snap /\ io'.pc = "finish" /\ io'.sdRet = io.sdRet
          /\ io'.card = io.card
      BY <2>1, SnapshotFacts DEF IoFields
    <2>3. UNCHANGED <<ram, fl, cards, slot>> /\ io.pc = "nvs"
      BY <1>4 DEF NvsWrite
    <2>4. QED
      BY <2>2, <2>3 DEF OperationInv, OpCard, OpClean, OpWritten, SavedOn
  <1>5. QED BY <1>1, <1>2, <1>3, <1>4

LEMMA ToggleKeepsOperation ==
  ASSUME SnapshotInv, OperationInv, Toggle
  PROVE  OperationInv'
  <1>1. /\ io'.genOk = FALSE /\ io'.pc = io.pc /\ io'.sd = io.sd /\ io'.card = io.card
        /\ io'.sdTry = io.sdTry /\ io'.sdRet = io.sdRet /\ io'.snap = io.snap
        /\ fl'.sdDirty = fl.sdDirty /\ fl'.recon = fl.recon
    BY SnapshotFacts DEF Toggle, FlagFields, IoFields
  <1>2. UNCHANGED <<ram, cards>>
    BY DEF Toggle
  <1>3. QED BY <1>1, <1>2 DEF OperationInv, OpCard, OpClean, OpWritten, SavedOn

LEMMA StepKeepsOperation ==
  ASSUME SnapshotInv, CardInv, OperationInv, [Next]_vars
  PROVE  OperationInv'
  <1>1. CASE UNCHANGED vars
    BY <1>1 DEF vars, OperationInv, OpCard, OpClean, OpWritten, SavedOn
  <1>2. CASE Persist
    BY <1>2, BeginKeepsOperation, ReconcileKeepsOperation, NvsOnlyKeepsOperation,
       WritesKeepOperation, IdleOperation
    DEF Persist, Finish
  <1>3. CASE Crash
    BY <1>3, IdleOperation DEF Crash
  <1>4. CASE Boot
    BY <1>4, SnapshotFacts DEF Boot, OperationInv, OpCard, OpClean, OpWritten
  <1>5. CASE ClearErase
    BY <1>5 DEF ClearErase, OperationInv, OpCard, OpClean, OpWritten, SavedOn
  <1>6. CASE Next /\ ~Persist /\ ~Crash /\ ~Boot /\ ~ClearErase
    BY <1>6, RowsKeepOperation, ToggleKeepsOperation DEF Next, RowsMove
  <1>7. QED BY <1>1, <1>2, <1>3, <1>4, <1>5, <1>6

LEMMA StoreAndOperation ==
  Spec => [](SnapshotInv /\ CardInv /\ NvsInv /\ BlobsInv /\ OperationInv)
  <1> DEFINE Inv == SnapshotInv /\ CardInv /\ NvsInv /\ BlobsInv
  <1>1. Inv /\ OperationInv /\ [Next]_vars => OperationInv'
    BY StepKeepsOperation
  <1> HIDE DEF Inv
  <1>2. Spec => []Inv
    BY StoreInvariant DEF Inv
  <1>3. Spec => [](Inv /\ OperationInv)
    BY <1>1, <1>2, InitOperation, PTL DEF Spec
  <1>4. QED BY <1>3, PTL DEF Inv
-----------------------------------------------------------------------------
(* The ACK a reader is shown.  A new ACK is masked; with a card in the     *)
(* slot, the mask ends when the operation finds the card to hold the rows, *)
(* in a merge (which the property exempts) or with the rows.               *)
Shown(r) == Public(r).st = "ACKNOWLEDGED"
Held(id) == \E b \in Media : id \in Acked(b.rows)
MaskWaits == \A m \in mask : m.st = "AWAITING_ACK"

LEMMA MaskedRow ==
  ASSUME NEW r \in Rows, NEW P, \A m \in P : m.st = "AWAITING_ACK",
         NEW p, p = IF r.st = "ACKNOWLEDGED" /\ P # {}
                    THEN LET m == CHOOSE m \in P : TRUE
                         IN [r EXCEPT !.st = m.st, !.rev = m.rev]
                    ELSE r
  PROVE  p.st = "ACKNOWLEDGED" <=> r.st = "ACKNOWLEDGED" /\ P = {}
  <1>1. CASE r.st = "ACKNOWLEDGED" /\ P # {}
    <2>1. PICK m : m = CHOOSE x \in P : TRUE
      OBVIOUS
    <2>2. m.st = "AWAITING_ACK"
      BY <1>1, <2>1
    <2>3. p = [r EXCEPT !.st = m.st, !.rev = m.rev]
      BY <1>1, <2>1
    <2>4. p.st = "AWAITING_ACK"
      BY <2>2, <2>3 DEF Rows
    <2>5. QED BY <1>1, <2>4
  <1>2. CASE ~(r.st = "ACKNOWLEDGED" /\ P # {})
    BY <1>2
  <1>3. QED BY <1>1, <1>2

LEMMA ShownRow ==
  ASSUME MaskWaits, NEW r \in Rows
  PROVE  Shown(r) <=> r.st = "ACKNOWLEDGED" /\ Pending(r) = {}
  <1>1. \A m \in Pending(r) : m.st = "AWAITING_ACK"
    BY DEF Pending, MaskWaits
  <1>2. QED BY <1>1, MaskedRow DEF Public, Shown

LEMMA ShownNext ==
  ASSUME MaskWaits', NEW r \in Rows
  PROVE  Shown(r)' <=> r.st = "ACKNOWLEDGED" /\ Pending(r)' = {}
  <1>1. \A m \in Pending(r)' : m.st = "AWAITING_ACK"
    BY DEF Pending, MaskWaits
  <1>2. QED BY <1>1, MaskedRow DEF Public, Shown

(* A mutation shows no new ACK: the only one it makes is masked.           *)
LEMMA MovesShowNothing ==
  ASSUME BlobsInv, MaskWaits, RowsMove
  PROVE  /\ MaskWaits'
         /\ \A x \in ram'.rows : x.st = "ACKNOWLEDGED" /\ Pending(x)' = {} =>
              x \in ram.rows /\ Shown(x)
  <1>1. /\ \A r \in ram.rows : r \in Rows /\ RowKnown(r, used.sessions)
        /\ MaskWaits
    BY RamRows
  <1>2. CASE mask' = mask /\ \A x \in ram'.rows : x \in ram.rows \/ x.st # "ACKNOWLEDGED"
    BY <1>1, <1>2, ShownRow DEF Pending, MaskWaits
  <1>3. CASE AppendTx \/ AppendRx
    <2>1. PICK row : AppendRow(row) /\ row.st # "ACKNOWLEDGED"
      <3>1. \A seq, id : /\ TxRow(seq, id).st # "ACKNOWLEDGED"
                         /\ RxRow(seq, id).st # "ACKNOWLEDGED"
        BY DEF TxRow, RxRow
      <3>2. \E seq, id : AppendRow(TxRow(seq, id)) \/ AppendRow(RxRow(seq, id))
        BY <1>3 DEF AppendTx, AppendRx
      <3>3. QED BY <3>1, <3>2
    <2>2. ram'.rows \subseteq ram.rows \union {row}
      BY <2>1, RamRows DEF AppendRow, Newest, BlobFields
    <2>3. mask' = mask
      BY <2>1 DEF AppendRow
    <2>4. QED BY <1>2, <2>1, <2>2, <2>3
  <1>4. CASE TransitionSync \/ TransitionDeferred \/ ReserveAck \/ CompleteAck
    <2>1. mask' = mask
      BY <1>4 DEF TransitionSync, TransitionDeferred, ReserveAck, CompleteAck
    <2>2. \E r, s : s.st # "ACKNOWLEDGED" /\ Mutate(Replace(r, s))
      <3>1. CASE TransitionSync \/ TransitionDeferred
        <4>1. PICK r \in ram.rows, next \in DeliveryStates :
                next # "ACKNOWLEDGED" /\ Mutate(Replace(r, Moved(r, next)))
          BY <3>1 DEF TransitionSync, TransitionDeferred, SyncEdges, DeferredEdges,
                      DeliveryStates
        <4>2. Moved(r, next).st = next
          BY <1>1 DEF Moved, Rows
        <4>3. QED BY <4>1, <4>2
      <3>2. CASE ReserveAck
        <4>1. PICK r \in ram.rows :
                /\ r.dir = "rx"
                /\ Mutate(Replace(r, [r EXCEPT !.ackSt = "PENDING", !.ackN = @ + 1]))
          BY <3>2 DEF ReserveAck
        <4>2. [r EXCEPT !.ackSt = "PENDING", !.ackN = r.ackN + 1].st = "NOT_APPLICABLE"
          BY <1>1, <4>1 DEF Rows, RowKnown, RowValid, DeliveryMetadataValid
        <4>3. QED BY <4>1, <4>2
      <3>3. CASE CompleteAck
        <4>1. PICK r \in ram.rows :
                r.dir = "rx" /\ \E st : Mutate(Replace(r, [r EXCEPT !.ackSt = st]))
          BY <3>3 DEF CompleteAck
        <4>2. \A st : [r EXCEPT !.ackSt = st].st = "NOT_APPLICABLE"
          BY <1>1, <4>1 DEF Rows, RowKnown, RowValid, DeliveryMetadataValid
        <4>3. QED BY <4>1, <4>2
      <3>4. QED BY <1>4, <3>1, <3>2, <3>3
    <2>3. PICK r, s : s.st # "ACKNOWLEDGED" /\ Mutate(Replace(r, s))
      BY <2>2
    <2>4. ram'.rows \subseteq ram.rows \union {s}
      BY <2>3, RamRows DEF Mutate, Replace, BlobFields
    <2>5. QED BY <1>2, <2>1, <2>3, <2>4
  <1>5. CASE Acknowledge
    <2>1. PICK r \in ram.rows :
            /\ r.st = "AWAITING_ACK"
            /\ mask' = mask \union {[id |-> r.id, st |-> r.st, rev |-> r.rev]}
            /\ Mutate(Replace(r, Moved(r, "ACKNOWLEDGED")))
      BY <1>5 DEF Acknowledge
    <2>2. PICK s : s = Moved(r, "ACKNOWLEDGED")
      OBVIOUS
    <2>3. s.id = r.id /\ s.rev = r.rev + 1
      BY <1>1, <2>2 DEF Moved, Rows
    <2>4. ram'.rows \subseteq (ram.rows \ {r}) \union {s}
      BY <2>1, <2>2, RamRows DEF Mutate, Replace, BlobFields
    <2>5. Pending(s)' # {}
      <3>1. PICK m : m = [id |-> r.id, st |-> r.st, rev |-> r.rev]
        OBVIOUS
      <3>2. m \in mask' /\ m.id = s.id /\ m.rev + 1 = s.rev
        BY <2>1, <2>3, <3>1
      <3>3. QED BY <3>2 DEF Pending
    <2>6. ASSUME NEW x \in ram.rows, x # r PROVE Pending(x)' = Pending(x)
      BY <2>1, <2>6, RamRows DEF Pending
    <2>7. \A x \in ram'.rows : Pending(x)' = {} => x \in ram.rows /\ Pending(x) = {}
      BY <2>4, <2>5, <2>6
    <2>8. MaskWaits'
      BY <1>1, <2>1 DEF MaskWaits
    <2>9. QED BY <1>1, <2>7, <2>8, ShownRow
  <1>6. QED BY <1>3, <1>4, <1>5 DEF RowsMove

LEMMA NormalizedAcks ==
  ASSUME NEW n \in Nat, NEW b, Sound(b, n)
  PROVE  Acked(Normalized(b).rows) \subseteq Acked(b.rows)
  <1> DEFINE acks == {NormalizedAck(r) : r \in b.rows}
             rows == {NormalizedDelivery(r) : r \in acks}
  <1>1. ASSUME NEW x \in rows, x.st = "ACKNOWLEDGED" PROVE x.id \in Acked(b.rows)
    <2>1. PICK r \in b.rows : x = NormalizedDelivery(NormalizedAck(r))
      OBVIOUS
    <2>2. RowValid(r)
      BY DEF Sound, RowsSound, RowKnown
    <2>3. PICK a : a = NormalizedAck(r)
      OBVIOUS
    <2>4. RowValid(a) /\ a.id = r.id
      BY <2>2, <2>3, NormalizedRow DEF SameRow
    <2>5. a.st = r.st
      BY <2>2, <2>3 DEF NormalizedAck, RowValid, Rows
    <2>6. x = a
      <3>1. CASE a.dir = "tx" /\ InterruptedByReboot(a.st)
        <4>1. x = [a EXCEPT !.st = "INTERRUPTED_BY_REBOOT", !.rev = @ + 1]
          BY <2>1, <2>3, <3>1 DEF NormalizedDelivery
        <4>2. x.st = "INTERRUPTED_BY_REBOOT"
          BY <2>4, <4>1 DEF RowValid, Rows
        <4>3. QED BY <1>1, <4>2
      <3>2. CASE ~(a.dir = "tx" /\ InterruptedByReboot(a.st))
        BY <2>1, <2>3, <3>2 DEF NormalizedDelivery
      <3>3. QED BY <3>1, <3>2
    <2>7. QED BY <1>1, <2>4, <2>5, <2>6 DEF Acked
  <1>2. Normalized(b).rows = rows
    BY DEF Normalized, Sound, BlobFields
  <1> HIDE DEF rows
  <1>3. QED BY <1>1, <1>2 DEF Acked

(* What a boot loads is acknowledged on a medium it read.                  *)
LEMMA BootLoadsAcks ==
  ASSUME SnapshotInv, CardInv, BlobsInv, Boot
  PROVE  \A id \in Acked(ram'.rows) : Held(id)
  <1> DEFINE n == used.sessions
  <1>1. PICK nvsRead \in BOOLEAN, sdRead \in BOOLEAN, changed \in BOOLEAN :
          Load(nvsRead, sdRead, changed)
    BY DEF Boot
  <1> DEFINE on == slot # NoCard
             card == IF on THEN cards[slot] ELSE NoBlob
             old == Legacy
             nvsValid == nvsRead /\ old # NoBlob
             sdAccepted == sdRead /\ card # NoBlob /\ ~changed
             merged == MergePrimary(old, card, TRUE, old.nextSeq)
  <1>2. PICK chosen :
          /\ ram' = Normalized(chosen)
          /\ \/ nvsValid /\ sdAccepted /\ chosen = merged
             \/ nvsValid /\ chosen = old
             \/ sdAccepted /\ chosen = card
             \/ chosen = EmptyBlob
    BY <1>1 DEF Load
  <1>3. /\ nvsValid => old \in Media
        /\ sdAccepted => card \in Media
    BY DEF Media, CardInv
  <1>4. n \in Nat /\ n <= MaxSessions /\ \A b \in Media : Sound(b, n)
    BY RamFacts DEF BlobsInv, Copies, Stored, Media, Legacy
  <1>5. Sound(EmptyBlob, n) /\ EmptyBlob.rows = {}
    BY <1>4, EmptySound DEF EmptyBlob
  <1> HIDE DEF card, old
  <1>6. Sound(chosen, n) /\ \A id \in Acked(chosen.rows) : Held(id)
    <2>1. CASE nvsValid /\ sdAccepted /\ chosen = merged
      <3>1. Sound(old, n) /\ Sound(card, n) /\ old.nextSeq \in Nat
        BY <1>3, <1>4, <2>1 DEF Sound
      <3>2. PICK auth, k : auth = TRUE /\ k = old.nextSeq
        OBVIOUS
      <3>3. PICK m : m = MergePrimary(old, card, auth, k)
        OBVIOUS
      <3>4. Sound(m, n) /\ Acked(m.rows) \subseteq Acked(old.rows) \union Acked(card.rows)
        <4> HIDE DEF n
        <4>1. k \in Nat /\ Sound(old, n) /\ Sound(card, n)
          BY <3>1, <3>2
        <4>2. QED BY ONLY <1>4, <3>3, <4>1, PrimarySound
      <3>5. QED BY <1>3, <2>1, <3>2, <3>3, <3>4 DEF Held
    <2>2. CASE nvsValid /\ chosen = old
      BY <1>3, <1>4, <2>2 DEF Held
    <2>3. CASE sdAccepted /\ chosen = card
      BY <1>3, <1>4, <2>3 DEF Held
    <2>4. CASE chosen = EmptyBlob
      BY <1>5, <2>4 DEF Acked
    <2>5. QED BY <1>2, <2>1, <2>2, <2>3, <2>4
  <1>7. Acked(ram'.rows) \subseteq Acked(chosen.rows)
    BY <1>2, <1>4, <1>6, NormalizedAcks
  <1>8. QED BY <1>6, <1>7

(* The mask changes with the rows or ends.                                 *)
LEMMA StepKeepsMask ==
  ASSUME BlobsInv, MaskWaits, [Next]_vars
  PROVE  MaskWaits'
  <1>1. CASE RowsMove
    BY <1>1, MovesShowNothing
  <1>2. CASE ~RowsMove /\ ~Persist
    <2>1. mask' \in {mask, {}}
      BY <1>2 DEF Next, RowsMove, vars, ClearRows, ClearErase, Toggle, Crash, Boot
    <2>2. QED BY <2>1 DEF MaskWaits
  <1>3. CASE Persist
    <2>1. mask' \in {mask, {}}
      BY <1>3 DEF Persist, PersistBegin, Reconcile, NotFinished, ReconcileStale,
                  ReconcileRolledBack, ReconcileReadFails, ReconcileAbsent,
                  ReconcileConflict, ReconcileMerges, ReconcileFails, NvsOnlySnapshot,
                  NvsOnlyWrite, NvsOnlyFinish, Snapshot, SdWrite, SdCheck, NvsWrite, Finish
    <2>2. QED BY <2>1 DEF MaskWaits
  <1>4. QED BY <1>1, <1>2, <1>3

(* An operation that finds nothing to save to the card in the slot, or     *)
(* ends with nothing left to save to its card, leaves the rows on it.      *)
LEMMA NothingToSave ==
  ASSUME SnapshotInv, CardInv, NEW who, NEW force, PersistBegin(who, force),
         slot # NoCard, ~Dirty(fl', TRUE)
  PROVE  slot \in Cards /\ SavedOn(slot)
  <1>1. fl.loaded
    BY DEF PersistBegin
  <1>2. \/ fl.genSeen /\ fl' = fl
        \/ ~fl.genSeen /\ fl' = GenerationNoted(fl)
    BY DEF PersistBegin
  <1>3. fl.genSeen /\ fl' = fl
    BY <1>2, SnapshotFacts DEF GenerationNoted, FlagFields, Dirty
  <1>4. QED BY <1>1, <1>3 DEF CardInv, SdCleanMeansSaved, SavedOn, Dirty

LEMMA NothingLeftToSave ==
  ASSUME SnapshotInv, CardInv, OperationInv, Finish, io.sd, ~Dirty(fl', TRUE)
  PROVE  io.card \in Cards /\ SavedOn(io.card)
  <1>1. io.pc = "finish"
    BY DEF Finish
  <1>2. ~(fl.sdDirty /\ ~SdSaved) /\ ~fl.recon
    BY FinishFlags DEF Dirty
  <1>3. io.card \in Cards
    BY <1>1 DEF OperationInv, OpCard
  <1>4. CASE SdSaved
    <2>1. io.snap = ram
      BY <1>1, <1>4, SnapshotFacts DEF SdSaved, WithSnapshot
    <2>2. cards[io.card] = io.snap
      BY <1>1, <1>4 DEF SdSaved, OperationInv, OpWritten
    <2>3. QED BY <1>3, <2>1, <2>2 DEF SavedOn
  <1>5. CASE ~SdSaved
    BY <1>1, <1>2, <1>3, <1>5 DEF OperationInv, OpClean
  <1>6. QED BY <1>4, <1>5

(* Where a persist operation takes the mask away, the card it works with   *)
(* holds the rows.                                                         *)
LEMMA UnmaskedIsSaved ==
  ASSUME SnapshotInv, CardInv, OperationInv, Persist, ~Reconcile, WithCard,
         mask' # mask
  PROVE  UNCHANGED <<ram, cards, nvs>> /\ \E c \in Cards : SavedOn(c)
  <1>1. (\E who, force : PersistBegin(who, force)) \/ Finish
    BY DEF Persist, NotFinished, NvsOnlySnapshot, NvsOnlyWrite, NvsOnlyFinish, Snapshot,
           SdWrite, SdCheck, NvsWrite
  <1>2. CASE Finish
    <2>1. ~Dirty(fl', TRUE) /\ io.sd /\ UNCHANGED <<ram, cards, nvs>>
      BY <1>2, FinishFlags DEF Finish, WithCard
    <2>2. QED BY <1>2, <2>1, NothingLeftToSave
  <1>3. CASE \E who, force : PersistBegin(who, force)
    <2>1. PICK who, force : PersistBegin(who, force)
      BY <1>3
    <2>2. io.pc = "idle" /\ UNCHANGED <<ram, cards, nvs>>
      BY <2>1 DEF PersistBegin
    <2>3. slot # NoCard
      BY <2>2 DEF WithCard, OperationInv, OpCard
    <2>4. ~Dirty(fl', TRUE)
      BY <2>1, <2>3 DEF PersistBegin
    <2>5. QED BY <2>1, <2>2, <2>3, <2>4, NothingToSave
  <1>4. QED BY <1>1, <1>2, <1>3

LEMMA ShownIds ==
  BlobsInv /\ MaskWaits =>
    ShownAcked = {r.id : r \in {x \in ram.rows : x.st = "ACKNOWLEDGED" /\ Pending(x) = {}}}
  <1> SUFFICES ASSUME BlobsInv, MaskWaits
               PROVE  ShownAcked =
                        {r.id : r \in {x \in ram.rows : x.st = "ACKNOWLEDGED" /\ Pending(x) = {}}}
    OBVIOUS
  <1>1. \A r \in ram.rows : Public(r).st = "ACKNOWLEDGED" <=>
                              r.st = "ACKNOWLEDGED" /\ Pending(r) = {}
    BY RamRows, ShownRow DEF Shown
  <1>2. \A r \in ram.rows : Pending(r) = {} => Public(r) = r
    BY DEF Public
  <1>3. QED BY <1>1, <1>2 DEF ShownAcked, Acked

LEMMA ShownIdsNext ==
  (BlobsInv /\ MaskWaits)' =>
    ShownAcked' = {r.id : r \in {x \in ram'.rows : x.st = "ACKNOWLEDGED" /\ Pending(x)' = {}}}
  <1>1. (BlobsInv /\ MaskWaits =>
          ShownAcked = {r.id : r \in {x \in ram.rows : x.st = "ACKNOWLEDGED" /\ Pending(x) = {}}})'
    BY ShownIds, PTL
  <1>2. QED BY <1>1

(* With a card in the slot, no step but a merge shows a reader an ACK      *)
(* before a copy holds it: nothing that happens to a flush, to the card or *)
(* to the power makes a message look delivered that a reboot would forget. *)
THEOREM AcksShownOnceSaved == Spec => AckShownOnceSaved
  <1> DEFINE Step == WithCard /\ io.pc # "reconcile" =>
                       ShownAcked' \ ShownAcked \subseteq HeldAcked'
             Inv == SnapshotInv /\ CardInv /\ NvsInv /\ BlobsInv /\ OperationInv
  <1>1. Inv /\ BlobsInv' /\ MaskWaits /\ [Next]_vars => [Step]_vars
    <2> SUFFICES ASSUME Inv, BlobsInv', MaskWaits, Next, WithCard, io.pc # "reconcile",
                        NEW id \in ShownAcked', id \notin ShownAcked
                 PROVE  id \in HeldAcked'
      OBVIOUS
    <2>1. MaskWaits'
      BY StepKeepsMask
    <2>2. PICK r \in ram'.rows : id = r.id /\ r.st = "ACKNOWLEDGED" /\ Pending(r)' = {}
      BY <2>1, ShownIdsNext
    <2>3. ~(r \in ram.rows /\ Pending(r) = {})
      BY <2>2, ShownIds
    <2>4. CASE RowsMove
      <3>1. r \in ram.rows /\ Shown(r)
        BY <2>2, <2>4, MovesShowNothing
      <3>2. QED BY <2>3, <3>1, RamRows, ShownRow
    <2>5. CASE UNCHANGED <<ram, mask>>
      <3>1. Pending(r)' = Pending(r)
        BY <2>5 DEF Pending
      <3>2. QED BY <2>2, <2>3, <2>5, <3>1
    <2>6. CASE ClearRows \/ Crash
      <3>1. ram'.rows = {}
        <4>1. CASE ClearRows
          <5>1. ram' = [ram EXCEPT !.rows = {}, !.nextSeq = 1, !.epoch = @ + 1,
                                   !.crev = @ + 1, !.lineage = FreshLineage]
            BY <4>1 DEF ClearRows
          <5>2. QED BY <5>1, RamRows DEF BlobFields
        <4>2. CASE Crash
          BY <4>2 DEF Crash, EmptyBlob
        <4>3. QED BY <2>6, <4>1, <4>2
      <3>2. QED BY <2>2, <3>1
    <2>7. CASE Boot
      <3>1. Held(id)
        BY <2>2, <2>7, BootLoadsAcks DEF Acked
      <3>2. UNCHANGED <<nvs, cards>>
        BY <2>7 DEF Boot
      <3>3. Media' = Media
        BY <3>2 DEF Media, Legacy
      <3>4. QED BY <3>1, <3>3 DEF Held, HeldAcked
    <2>8. CASE Persist
      <3>1. ~Reconcile
        BY DEF Reconcile
      <3>2. UNCHANGED ram
        BY <2>8, <3>1 DEF Persist, PersistBegin, NotFinished, NvsOnlySnapshot,
                   NvsOnlyWrite, NvsOnlyFinish, Snapshot, SdWrite, SdCheck, NvsWrite, Finish
      <3>3. CASE mask' = mask
        BY <2>5, <3>2, <3>3
      <3>4. CASE mask' # mask
        <4>1. PICK c \in Cards : SavedOn(c) /\ UNCHANGED <<ram, cards, nvs>>
          BY <2>8, <3>1, <3>4, UnmaskedIsSaved
        <4>2. r \in ram.rows
          BY <2>2, <3>2
        <4>3. cards[c] = ram
          BY <4>1, <4>2 DEF SavedOn
        <4>4. ram # NoBlob
          BY RamFacts, SoundDecodes, NoBlobAssumption
        <4>5. cards'[c] \in Media' /\ id \in Acked(cards'[c].rows)
          BY <2>2, <4>1, <4>2, <4>3, <4>4 DEF Media, Acked
        <4>6. QED BY <4>5 DEF HeldAcked
      <3>5. QED BY <3>3, <3>4
    <2>9. CASE ClearErase \/ Toggle
      BY <2>5, <2>9 DEF ClearErase, Toggle
    <2>10. QED BY <2>4, <2>6, <2>7, <2>8, <2>9 DEF Next, RowsMove
  <1> HIDE DEF Inv
  <1>2. Inv /\ MaskWaits /\ [Next]_vars => MaskWaits'
    BY StepKeepsMask DEF Inv
  <1>3. Init => MaskWaits
    <2>1. Init => mask = {}
      BY Zenon DEF Init
    <2>2. QED BY <2>1 DEF MaskWaits
  <1>4. Spec => []Inv
    BY StoreAndOperation DEF Inv
  <1>5. Spec => []MaskWaits
    BY <1>2, <1>3, <1>4, PTL DEF Spec
  <1>6. Inv => BlobsInv
    BY DEF Inv
  <1>7. QED BY <1>1, <1>4, <1>5, <1>6, PTL DEF Spec, AckShownOnceSaved
-----------------------------------------------------------------------------
(* What a card held of the history is not lost with a later write of it.   *)
(* Once reconciled with, the rows in RAM keep up with the card in the      *)
(* slot, a snapshot of them does, and the rows with the snapshot.          *)
KeepsUp(a, b) == a # NoBlob /\ Kin(a, b) => Ahead(a, b)
AdvGeneration ==
  /\ io.pc # "idle" /\ io.genOk => fl.genSeen
  /\ io.pc = "snapshot" /\ io.sd /\ io.genOk => ~fl.recon
AdvRam == fl.loaded /\ slot # NoCard /\ fl.genSeen /\ ~fl.recon => KeepsUp(cards[slot], ram)
AdvSnap ==
  io.pc = "sd" => KeepsUp(io.snap, ram) /\ (io.genOk => KeepsUp(cards[slot], io.snap))
AdvanceInv == AdvGeneration /\ AdvRam /\ AdvSnap

LEMMA InitAdvance == Init => AdvanceInv
  <1>1. Init => io = IdleIo /\ fl = ResetFlags(FALSE)
    BY Zenon DEF Init
  <1>2. QED
    BY <1>1 DEF IdleIo, ResetFlags, AdvanceInv, AdvGeneration, AdvRam, AdvSnap

(* A step that neither writes a card, nor changes the rows, nor takes a    *)
(* snapshot of them.                                                       *)
LEMMA QuietAdvance ==
  ASSUME AdvanceInv, UNCHANGED <<ram, cards>>,
         fl'.loaded = fl.loaded, fl.recon => fl'.recon,
         fl'.genSeen => fl.genSeen /\ slot' = slot,
         io'.pc = "sd" => io.pc = "sd" /\ io'.snap = io.snap,
         io'.pc # "idle" /\ io'.genOk => io.pc # "idle" /\ io.genOk /\ fl'.genSeen,
         io'.pc = "snapshot" => io.pc = "snapshot" /\ io'.sd = io.sd /\ fl'.recon = fl.recon
  PROVE  AdvanceInv'
  <1>1. io'.pc = "sd" /\ io'.genOk => slot' = slot /\ io.genOk
    OBVIOUS
  <1>2. AdvGeneration'
    BY DEF AdvanceInv, AdvGeneration
  <1>3. AdvRam'
    BY DEF AdvanceInv, AdvRam, KeepsUp
  <1>4. AdvSnap'
    BY <1>1 DEF AdvanceInv, AdvSnap, KeepsUp
  <1>5. QED BY <1>2, <1>3, <1>4 DEF AdvanceInv

(* The rows keep up with whatever they kept up with when they move, and a  *)
(* clear makes them another history.                                       *)
LEMMA RowsKeepUp ==
  ASSUME SnapshotInv, BlobsInv, BlobsInv', RowsMove \/ ClearRows,
         NEW b \in Copies \intersect Copies', KeepsUp(b, ram)
  PROVE  KeepsUp(b, ram')
  <1>1. CASE ClearRows
    <2>1. used.clears \in Nat /\ used.clears < MaxClears
      BY <1>1, BoundsAssumption DEF BlobsInv, UsedOK, ClearRows, Spend
    <2>2. b.lineage \in (0 .. used.clears) \union FoundLineages
      BY DEF BlobsInv, LineageInv
    <2>3. used.clears + 1 \notin (0 .. used.clears) \union FoundLineages
      BY <2>1, BoundsAssumption, CardsAssumption DEF FoundLineages
    <2>4. ram' = [ram EXCEPT !.rows = {}, !.nextSeq = 1, !.epoch = @ + 1,
                             !.crev = @ + 1, !.lineage = used.clears + 1]
      BY <1>1 DEF ClearRows, FreshLineage
    <2>5. ram'.lineage = used.clears + 1
      BY <2>4, RamFacts DEF Sound, BlobFields
    <2>6. QED BY <2>2, <2>3, <2>5 DEF KeepsUp, Kin
  <1>2. CASE RowsMove
    <2> DEFINE n == used.sessions
               k == used'.sessions
    <2>1. Kin(ram', ram) /\ Ahead(ram, ram')
      BY <1>2, AppendsKeepBlobs, MovesKeepBlobs DEF RowsMove
    <2>2. n \in Nat /\ k \in Nat /\ n <= k
      <3>1. n \in Nat /\ k \in Nat
        BY BoundsAssumption DEF BlobsInv, UsedOK
      <3>2. \/ used' = [used EXCEPT !.changes = @ + 1]
            \/ used' = [used EXCEPT !.changes = @ + 1, !.sessions = @ + 1]
        BY <1>2 DEF RowsMove, AppendTx, AppendRx, TransitionSync, TransitionDeferred,
                    Acknowledge, ReserveAck, CompleteAck, Mutate
      <3>3. k = n \/ k = n + 1
        BY <3>2 DEF BlobsInv, UsedOK
      <3>4. QED BY <3>1, <3>3
    <2>3. Sound(b, k) /\ Sound(ram', k)
      BY DEF BlobsInv, Copies
    <2>4. Sound(ram, n)
      BY RamFacts
    <2> HIDE DEF n, k
    <2>5. Sound(ram, k)
      BY <2>2, <2>4, MoreSessions
    <2>6. Kin(b, ram') => Ahead(b, ram) \/ b = NoBlob
      BY <2>1 DEF KeepsUp, Kin
    <2>7. Kin(b, ram') /\ b # NoBlob => Ahead(b, ram')
      BY <2>1, <2>2, <2>3, <2>5, <2>6, AheadTrans
    <2>8. QED BY <2>7 DEF KeepsUp
  <1>3. QED BY <1>1, <1>2

LEMMA RowsKeepAdvance ==
  ASSUME SnapshotInv, CardInv, BlobsInv, BlobsInv', AdvanceInv, RowsMove \/ ClearRows
  PROVE  AdvanceInv'
  <1>1. io' = [io EXCEPT !.fresh = FALSE] /\ UNCHANGED <<nvs, cards, slot>>
    BY RowsTouch
  <1>2. fl' = Touched \/ fl' = [Touched EXCEPT !.bootNext = 1]
    BY RowsTouch
  <1>3. fl'.recon = fl.recon /\ fl'.genSeen = fl.genSeen /\ fl'.loaded = fl.loaded
    BY <1>2, SnapshotFacts DEF Touched, FlagFields
  <1>4. /\ io'.pc = io.pc /\ io'.sd = io.sd /\ io'.genOk = io.genOk /\ io'.snap = io.snap
    BY <1>1, SnapshotFacts DEF IoFields
  <1>5. slot # NoCard /\ cards[slot] # NoBlob => cards[slot] \in Copies \intersect Copies'
    BY <1>1 DEF CardInv, Copies, Stored
  <1>6. io.pc = "sd" => io.snap \in Copies \intersect Copies'
    BY <1>4 DEF Copies, WithSnapshot
  <1>7. AdvRam'
    <2>1. CASE slot # NoCard /\ cards[slot] # NoBlob
      <3>1. KeepsUp(cards[slot], ram) => KeepsUp(cards[slot], ram')
        BY <1>5, <2>1, RowsKeepUp
      <3>2. QED BY <1>1, <1>3, <3>1 DEF AdvanceInv, AdvRam, KeepsUp
    <2>2. CASE ~(slot # NoCard /\ cards[slot] # NoBlob)
      BY <1>1, <2>2 DEF AdvRam, KeepsUp
    <2>3. QED BY <2>1, <2>2
  <1>8. AdvSnap'
    <2>1. io.pc = "sd" => KeepsUp(io.snap, ram')
      BY <1>6, RowsKeepUp DEF AdvanceInv, AdvSnap
    <2>2. QED BY <1>1, <1>4, <2>1 DEF AdvanceInv, AdvSnap, KeepsUp
  <1>9. AdvGeneration'
    BY <1>3, <1>4 DEF AdvanceInv, AdvGeneration
  <1>10. QED BY <1>7, <1>8, <1>9 DEF AdvanceInv

LEMMA IdleAdvance ==
  ASSUME AdvanceInv, UNCHANGED <<ram, cards, slot>>, io'.pc = "idle",
         fl'.loaded = fl.loaded, fl.recon => fl'.recon, fl'.genSeen => fl.genSeen
  PROVE  AdvanceInv'
  BY DEF AdvanceInv, AdvGeneration, AdvRam, AdvSnap, KeepsUp

LEMMA BeginKeepsAdvance ==
  ASSUME SnapshotInv, CardInv, AdvanceInv, NEW who, NEW force, PersistBegin(who, force)
  PROVE  AdvanceInv'
  <1>1. io.pc = "idle" /\ fl.loaded /\ UNCHANGED <<ram, cards, slot>>
    BY DEF PersistBegin
  <1>2. \/ fl.genSeen /\ fl' = fl
        \/ ~fl.genSeen /\ fl' = GenerationNoted(fl)
    BY DEF PersistBegin
  <1>3. (fl.genSeen /\ fl' = fl) \/ (fl'.recon /\ fl'.genSeen)
    BY <1>2, SnapshotFacts DEF GenerationNoted, FlagFields
  <1>4. io'.pc \in {"idle", "reconcile"} \/ (io'.pc = "snapshot" /\ (io'.sd => ~fl'.recon))
    <2>1. \/ io' = io
          \/ io' = [IdleIo EXCEPT !.pc = IF (slot # NoCard) /\ fl'.recon THEN "reconcile"
                                                                   ELSE "snapshot",
                                  !.who = who, !.force = force,
                                  !.sd = (slot # NoCard), !.genOk = TRUE,
                                  !.card = slot]
      BY DEF PersistBegin
    <2>2. QED BY <1>1, <2>1 DEF IdleIo
  <1>5. AdvGeneration'
    BY <1>1, <1>3, <1>4 DEF AdvGeneration
  <1>6. AdvRam'
    BY <1>1, <1>3 DEF AdvanceInv, AdvRam, KeepsUp
  <1>7. AdvSnap'
    BY <1>4 DEF AdvSnap
  <1>8. QED BY <1>5, <1>6, <1>7 DEF AdvanceInv

LEMMA ReconcileKeepsAdvance ==
  ASSUME SnapshotInv, CardInv, BlobsInv, AdvanceInv, Reconcile
  PROVE  AdvanceInv'
  <1>1. io.pc = "reconcile"
    BY DEF Reconcile
  <1>2. CASE NotFinished
    BY <1>2, Idle, IdleAdvance DEF NotFinished
  <1>3. CASE ReconcileRolledBack
    <2>1. /\ fl'.recon /\ fl'.genSeen = FALSE /\ fl'.loaded = fl.loaded
          /\ io'.pc = "nvsOnly" /\ io'.genOk = FALSE
      BY <1>3, SnapshotFacts DEF ReconcileRolledBack, FlagFields, IoFields
    <2>2. QED BY <1>3, <2>1, QuietAdvance DEF ReconcileRolledBack
  <1>4. CASE ReconcileStale \/ ReconcileReadFails \/ ReconcileConflict
    <2>1. UNCHANGED <<ram, cards, slot>> /\ ReconcileFails
      BY <1>4 DEF ReconcileStale, ReconcileReadFails, ReconcileConflict, ReconcileFails
    <2>2. /\ fl'.recon /\ fl'.genSeen = fl.genSeen /\ fl'.loaded = fl.loaded
          /\ io'.pc = "nvsOnly" /\ io'.genOk = io.genOk
      BY <2>1, SnapshotFacts DEF ReconcileFails, FlagFields, IoFields
    <2>3. io.genOk => fl.genSeen
      BY <1>1 DEF AdvanceInv, AdvGeneration
    <2>4. QED BY <1>1, <2>1, <2>2, <2>3, QuietAdvance
  <1>5. CASE ReconcileAbsent
    <2>1. /\ fl'.recon = FALSE /\ fl'.genSeen = fl.genSeen
          /\ io'.pc = "snapshot" /\ io'.genOk = io.genOk
      BY <1>5, SnapshotFacts DEF ReconcileAbsent, FlagFields, IoFields
    <2>2. UNCHANGED <<ram, cards, slot>> /\ cards[slot] = NoBlob
      BY <1>5 DEF ReconcileAbsent
    <2>3. QED
      BY <1>1, <2>1, <2>2 DEF AdvanceInv, AdvGeneration, AdvRam, AdvSnap, KeepsUp
  <1>6. CASE ReconcileMerges
    <2> DEFINE card == cards[slot]
               merged == MergePrimary(ram, card, fl.auth, LiveFrom)
    <2>1. /\ ram' = merged
          /\ io' = [io EXCEPT !.pc = "snapshot"]
          /\ fl' = [fl EXCEPT !.recon = FALSE, !.auth = TRUE,
                              !.sdDirty = merged # card,
                              !.nvsDirty = @ \/ merged # ram,
                              !.bootNext = IF fl.mutated THEN @ ELSE merged.nextSeq]
          /\ UNCHANGED <<cards, slot>> /\ io.genOk /\ card # NoBlob
      BY <1>6 DEF ReconcileMerges
    <2>2. slot # NoCard
      BY <1>1, <2>1 DEF CardInv, GenerationInv
    <2>3. card \in Copies
      BY <2>1, <2>2 DEF Copies, Stored, CardInv
    <2>4. Sound(card, used.sessions) /\ LiveFrom \in Nat
      BY <2>3, RamFacts DEF LiveFrom, BlobsInv
    <2> HIDE DEF card, merged
    <2>5. Kin(card, ram') => Ahead(card, ram')
      <3>1. PICK auth : auth = fl.auth
        OBVIOUS
      <3>2. PICK m : m = MergePrimary(ram, card, auth, LiveFrom)
        OBVIOUS
      <3>3. PICK n : n = used.sessions
        OBVIOUS
      <3>4. n \in Nat /\ n <= MaxSessions /\ Sound(ram, n) /\ Sound(card, n)
        BY <2>4, <3>3, RamFacts
      <3>5. Kin(card, m) => Ahead(card, m)
        BY ONLY <2>4, <3>2, <3>4, PrimarySound
      <3>6. QED BY <2>1, <3>1, <3>2, <3>5 DEF merged
    <2>6. fl'.genSeen = fl.genSeen /\ fl'.recon = FALSE
      BY <2>1, SnapshotFacts DEF FlagFields
    <2>7. io'.pc = "snapshot" /\ io'.genOk = io.genOk
      BY <2>1, SnapshotFacts DEF IoFields
    <2>8. cards'[slot'] = card
      BY <2>1 DEF card
    <2>9. AdvGeneration' /\ AdvSnap'
      BY <1>1, <2>6, <2>7 DEF AdvanceInv, AdvGeneration, AdvSnap
    <2>10. AdvRam'
      BY <2>5, <2>8 DEF AdvRam, KeepsUp
    <2>11. QED BY <2>9, <2>10 DEF AdvanceInv
  <1>7. QED BY <1>2, <1>3, <1>4, <1>5, <1>6 DEF Reconcile

LEMMA WritesKeepAdvance ==
  ASSUME SnapshotInv, CardInv, OperationInv, BlobsInv, AdvanceInv,
         Snapshot \/ SdWrite \/ SdCheck \/ NvsWrite
  PROVE  AdvanceInv'
  <1>1. CASE Snapshot
    <2>1. UNCHANGED <<ram, fl, cards, slot>> /\ io.pc = "snapshot" /\ fl.loaded
      BY <1>1, SnapshotFacts DEF Snapshot
    <2>2. /\ io'.genOk = io.genOk /\ io'.snap = ram
          /\ io'.pc \in {"sd", "nvs", "finish"} /\ (io'.pc = "sd" => io.sd)
      BY <1>1, SnapshotFacts DEF Snapshot, IoFields
    <2>3. io.sd /\ io.genOk => slot # NoCard /\ fl.genSeen /\ ~fl.recon
      BY <2>1 DEF CardInv, GenerationInv, AdvanceInv, AdvGeneration
    <2>4. Ahead(ram, ram)
      BY RamFacts, AheadSelf
    <2>5. QED
      BY <2>1, <2>2, <2>3, <2>4
      DEF AdvanceInv, AdvGeneration, AdvRam, AdvSnap, KeepsUp
  <1>2. CASE SdWrite
    <2>1. CASE NotFinished
      BY <2>1, Idle, IdleAdvance DEF NotFinished
    <2>2. CASE ~NotFinished
      <3>1. io.pc = "sd" /\ UNCHANGED <<ram, fl, slot>>
        BY <1>2, <2>2 DEF SdWrite
      <3>2. io'.pc = "sdCheck" /\ io'.genOk = io.genOk
        BY <1>2, <2>2, SnapshotFacts DEF SdWrite, IoFields
      <3>3. cards' = cards \/ cards' = [cards EXCEPT ![slot] = io.snap]
        BY <1>2, <2>2 DEF SdWrite
      <3>4. slot # NoCard => cards'[slot] \in {cards[slot], io.snap}
        BY <3>3 DEF CardInv
      <3>5. QED
        BY <3>1, <3>2, <3>4 DEF AdvanceInv, AdvGeneration, AdvRam, AdvSnap
    <2>3. QED BY <2>1, <2>2
  <1>3. CASE SdCheck
    <2>1. UNCHANGED <<ram, fl, cards, slot>> /\ io.pc = "sdCheck"
      BY <1>3 DEF SdCheck
    <2>2. io'.genOk = io.genOk /\ io'.pc \in {"nvs", "finish"}
      BY <1>3, SnapshotFacts DEF SdCheck, IoFields
    <2>3. QED
      BY <2>1, <2>2 DEF AdvanceInv, AdvGeneration, AdvRam, AdvSnap, KeepsUp
  <1>4. CASE NvsWrite
    <2>1. PICK ret \in {"ok", "fail"} : io' = [io EXCEPT !.pc = "finish", !.nvsRet = ret]
      BY <1>4 DEF NvsWrite
    <2>2. io'.genOk = io.genOk /\ io'.pc = "finish"
      BY <2>1, SnapshotFacts DEF IoFields
    <2>3. UNCHANGED <<ram, fl, cards, slot>> /\ io.pc = "nvs"
      BY <1>4 DEF NvsWrite
    <2>4. QED
      BY <2>2, <2>3 DEF AdvanceInv, AdvGeneration, AdvRam, AdvSnap, KeepsUp
  <1>5. QED BY <1>1, <1>2, <1>3, <1>4

LEMMA NvsOnlyKeepsAdvance ==
  ASSUME SnapshotInv, AdvanceInv, NvsOnlySnapshot \/ NvsOnlyWrite \/ NvsOnlyFinish
  PROVE  AdvanceInv'
  <1>1. CASE NvsOnlySnapshot /\ io' # IdleIo
    <2>1. io' = [io EXCEPT !.pc = "nvsOnlyWrite", !.snap = ram, !.fresh = TRUE]
      BY <1>1 DEF NvsOnlySnapshot
    <2>2. io'.pc = "nvsOnlyWrite" /\ io'.genOk = io.genOk
      BY <2>1, SnapshotFacts DEF IoFields
    <2>3. io.pc = "nvsOnly" /\ UNCHANGED <<ram, fl, cards, slot>>
      BY <1>1 DEF NvsOnlySnapshot
    <2>4. QED
      BY <2>2, <2>3 DEF AdvanceInv, AdvGeneration, AdvRam, AdvSnap, KeepsUp
  <1>2. CASE NvsOnlySnapshot /\ io' = IdleIo
    BY <1>2, Idle, IdleAdvance DEF NvsOnlySnapshot
  <1>3. CASE NvsOnlyWrite
    <2>1. PICK ret \in {"ok", "fail"} : io' = [io EXCEPT !.pc = "nvsOnlyFinish", !.nvsRet = ret]
      BY <1>3 DEF NvsOnlyWrite
    <2>2. io'.pc = "nvsOnlyFinish" /\ io'.genOk = io.genOk
      BY <2>1, SnapshotFacts DEF IoFields
    <2>3. io.pc = "nvsOnlyWrite" /\ UNCHANGED <<ram, fl, cards, slot>>
      BY <1>3 DEF NvsOnlyWrite
    <2>4. QED
      BY <2>2, <2>3 DEF AdvanceInv, AdvGeneration, AdvRam, AdvSnap, KeepsUp
  <1>4. CASE NvsOnlyFinish
    <2>1. fl'.genSeen = fl.genSeen /\ fl'.recon = fl.recon /\ fl'.loaded = fl.loaded
      BY <1>4, SnapshotFacts DEF NvsOnlyFinish, FlagFields
    <2>2. QED BY <1>4, <2>1, Idle, IdleAdvance DEF NvsOnlyFinish
  <1>5. QED BY <1>1, <1>2, <1>3, <1>4

LEMMA FinishKeepsAdvance ==
  ASSUME SnapshotInv, AdvanceInv, Finish
  PROVE  AdvanceInv'
  <1>1. fl'.loaded = fl.loaded /\ fl'.genSeen = fl.genSeen /\ (fl.recon => fl'.recon)
    BY FinishFlags
  <1>2. QED BY <1>1, Idle, IdleAdvance DEF Finish

LEMMA StorageKeepsAdvance ==
  ASSUME SnapshotInv, AdvanceInv, Toggle \/ Crash
  PROVE  AdvanceInv'
  <1>1. CASE Toggle
    <2>1. /\ fl'.genSeen = FALSE /\ fl'.loaded = fl.loaded /\ fl'.recon = fl.recon
          /\ io'.genOk = FALSE /\ io'.pc = io.pc /\ io'.sd = io.sd /\ io'.snap = io.snap
      BY <1>1, SnapshotFacts DEF Toggle, FlagFields, IoFields
    <2>2. QED BY <1>1, <2>1, QuietAdvance DEF Toggle
  <1>2. CASE Crash
    <2>1. fl'.loaded = FALSE /\ io'.pc = "idle"
      BY <1>2, Idle DEF Crash, ResetFlags
    <2>2. QED BY <2>1 DEF AdvanceInv, AdvGeneration, AdvRam, AdvSnap
  <1>3. QED BY <1>1, <1>2

(* A boot that has nothing left to reconcile has read the card.            *)
LEMMA BootKeepsAdvance ==
  ASSUME SnapshotInv, CardInv, BlobsInv, AdvanceInv, Boot
  PROVE  AdvanceInv'
  <1> DEFINE n == used.sessions
  <1>1. PICK nvsRead \in BOOLEAN, sdRead \in BOOLEAN, changed \in BOOLEAN :
          Load(nvsRead, sdRead, changed) /\ slot' = IF changed THEN NoCard ELSE slot
    BY DEF Boot
  <1> DEFINE on == slot # NoCard
             card == IF on THEN cards[slot] ELSE NoBlob
             old == Legacy
             nvsValid == nvsRead /\ old # NoBlob
             sdAccepted == sdRead /\ card # NoBlob /\ ~changed
             merged == MergePrimary(old, card, TRUE, old.nextSeq)
  <1>2. io' = io /\ io.pc = "idle" /\ cards' = cards
    BY SnapshotFacts DEF Boot
  <1>3. AdvGeneration' /\ AdvSnap'
    BY <1>2 DEF AdvGeneration, AdvSnap
  <1>4. CASE ~fl'.recon /\ slot' # NoCard /\ card # NoBlob
    <2>1. slot' = slot /\ on /\ ~changed
      BY <1>1, <1>4
    <2>2. /\ sdAccepted
          /\ \E chosen : /\ ram' = Normalized(chosen)
                         /\ (nvsValid /\ chosen = merged) \/ chosen = card
      <3>1. sdRead
        BY <1>1, <1>4, <2>1 DEF Load
      <3>2. sdAccepted
        BY <1>4, <2>1, <3>1
      <3>3. \E chosen : /\ ram' = Normalized(chosen)
                        /\ (nvsValid /\ chosen = merged) \/ chosen = card
        BY <1>1, <1>4, <2>1, <3>1, <3>2 DEF Load
      <3>4. QED BY <3>2, <3>3
    <2>3. PICK chosen : /\ ram' = Normalized(chosen)
                        /\ (nvsValid /\ chosen = merged) \/ chosen = card
      BY <2>2
    <2>4. card \in Copies /\ (nvsValid => old \in Copies)
      BY <2>1, <2>2 DEF Copies, Stored, CardInv, Legacy
    <2>5. n \in Nat /\ n <= MaxSessions
      BY RamFacts
    <2>6. Sound(card, n) /\ (nvsValid => Sound(old, n) /\ old.nextSeq \in Nat)
      BY <2>4 DEF BlobsInv, Sound
    <2>7. cards'[slot'] = card
      BY <1>2, <2>1
    <2> HIDE DEF card, old, n
    <2>8. Sound(chosen, n) /\ (Kin(card, chosen) => Ahead(card, chosen))
      <3>1. CASE chosen = card
        BY <2>5, <2>6, <3>1, AheadSelf
      <3>2. CASE nvsValid /\ chosen = merged
        <4>1. PICK auth, k : auth = TRUE /\ k = old.nextSeq
          OBVIOUS
        <4>2. PICK m : m = MergePrimary(old, card, auth, k)
          OBVIOUS
        <4>3. k \in Nat /\ Sound(old, n) /\ Sound(card, n)
          BY <2>6, <3>2, <4>1
        <4>4. Sound(m, n) /\ (Kin(card, m) => Ahead(card, m))
          BY ONLY <2>5, <4>2, <4>3, PrimarySound
        <4>5. QED BY <3>2, <4>1, <4>2, <4>4
      <3>3. QED BY <2>3, <3>1, <3>2
    <2>9. Sound(ram', n) /\ Kin(ram', chosen) /\ Ahead(chosen, ram')
      BY <2>3, <2>5, <2>8, NormalizedSound
    <2>10. Kin(card, ram') => Ahead(card, ram')
      <3>1. Kin(card, ram') => Ahead(card, chosen)
        BY <2>8, <2>9 DEF Kin
      <3>2. QED BY <2>5, <2>6, <2>8, <2>9, <3>1, AheadTrans
    <2>11. AdvRam'
      BY <2>7, <2>10 DEF AdvRam, KeepsUp
    <2>12. QED BY <1>3, <2>11 DEF AdvanceInv
  <1>5. CASE ~(~fl'.recon /\ slot' # NoCard /\ card # NoBlob)
    <2>1. slot' # NoCard => slot' = slot /\ cards'[slot'] = card
      BY <1>1, <1>2
    <2>2. AdvRam'
      BY <1>5, <2>1 DEF AdvRam, KeepsUp
    <2>3. QED BY <1>3, <2>2 DEF AdvanceInv
  <1>6. QED BY <1>4, <1>5

LEMMA StepKeepsAdvance ==
  ASSUME SnapshotInv, CardInv, OperationInv, BlobsInv, BlobsInv', AdvanceInv, [Next]_vars
  PROVE  AdvanceInv'
  <1>1. CASE UNCHANGED vars
    BY <1>1 DEF vars, AdvanceInv, AdvGeneration, AdvRam, AdvSnap, KeepsUp
  <1>2. CASE Persist
    BY <1>2, BeginKeepsAdvance, ReconcileKeepsAdvance, NvsOnlyKeepsAdvance,
       WritesKeepAdvance, FinishKeepsAdvance
    DEF Persist
  <1>3. CASE ClearErase
    BY <1>3 DEF ClearErase, AdvanceInv, AdvGeneration, AdvRam, AdvSnap, KeepsUp
  <1>4. CASE Next /\ ~Persist /\ ~ClearErase
    BY <1>4, RowsKeepAdvance, StorageKeepsAdvance, BootKeepsAdvance DEF Next, RowsMove
  <1>5. QED BY <1>1, <1>2, <1>3, <1>4

LEMMA StoreAndAdvance ==
  Spec => [](SnapshotInv /\ CardInv /\ NvsInv /\ BlobsInv /\ OperationInv /\ AdvanceInv)
  <1> DEFINE Inv == SnapshotInv /\ CardInv /\ NvsInv /\ BlobsInv /\ OperationInv
  <1>1. Inv /\ BlobsInv' /\ AdvanceInv /\ [Next]_vars => AdvanceInv'
    BY StepKeepsAdvance
  <1>2. Inv => BlobsInv
    OBVIOUS
  <1> HIDE DEF Inv
  <1>3. Spec => []Inv
    BY StoreAndOperation DEF Inv
  <1>4. Spec => [](Inv /\ AdvanceInv)
    BY <1>1, <1>2, <1>3, InitAdvance, PTL DEF Spec
  <1>5. QED BY <1>4, PTL DEF Inv

(* A card is written with nothing it does not succeed: whatever was read   *)
(* late, merged, renumbered or half written, what it held of the history   *)
(* it is given stays, with its revisions and the ACKs spent, up to the     *)
(* capacity of the ring.                                                   *)
THEOREM CardsOnlyAdvance == Spec => CardsAdvance
  <1> DEFINE Step == \A c \in Cards : cards[c] # NoBlob /\ Kin(cards[c], cards'[c]) =>
                                        Ahead(cards[c], cards'[c])
             Inv == SnapshotInv /\ CardInv /\ NvsInv /\ BlobsInv /\ OperationInv /\ AdvanceInv
  <1>1. Inv /\ [Next]_vars => [Step]_vars
    <2> SUFFICES ASSUME Inv, Next, NEW c \in Cards, cards[c] # NoBlob,
                        Kin(cards[c], cards'[c])
                 PROVE  Ahead(cards[c], cards'[c])
      OBVIOUS
    <2>1. CASE cards'[c] = cards[c]
      <3>1. Sound(cards[c], used.sessions) /\ used.sessions \in Nat
        BY RamFacts DEF BlobsInv, Copies, Stored
      <3>2. QED BY <2>1, <3>1, AheadSelf
    <2>2. CASE cards'[c] # cards[c]
      <3>1. SdWrite /\ ~NotFinished
        <4>1. CASE RowsMove \/ ClearRows
          BY <2>2, <4>1, RowsTouch
        <4>2. CASE Persist /\ (NotFinished \/ ~SdWrite)
          BY <2>2, <4>2 DEF Persist, PersistBegin, Reconcile, NotFinished, ReconcileStale,
             ReconcileRolledBack, ReconcileReadFails, ReconcileAbsent, ReconcileConflict,
             ReconcileMerges, ReconcileFails, NvsOnlySnapshot, NvsOnlyWrite, NvsOnlyFinish,
             Snapshot, SdCheck, NvsWrite, Finish
        <4>3. CASE ClearErase \/ Toggle \/ Crash \/ Boot
          BY <2>2, <4>3 DEF ClearErase, Toggle, Crash, Boot
        <4>4. QED BY <4>1, <4>2, <4>3 DEF Next, RowsMove
      <3>2. io.pc = "sd" /\ io.genOk /\ cards' = [cards EXCEPT ![slot] = io.snap]
        BY <2>2, <3>1 DEF SdWrite
      <3>3. c = slot /\ cards'[c] = io.snap
        BY <2>2, <3>2 DEF CardInv
      <3>4. KeepsUp(cards[slot], io.snap)
        BY <3>2 DEF AdvanceInv, AdvSnap
      <3>5. QED BY <3>3, <3>4 DEF KeepsUp
    <2>3. QED BY <2>1, <2>2
  <1> HIDE DEF Inv
  <1>2. Spec => []Inv
    BY StoreAndAdvance DEF Inv
  <1>3. QED BY <1>1, <1>2, PTL DEF Spec, CardsAdvance
-----------------------------------------------------------------------------
(* What an owner was told.  While the Mesh task waits for its flush, RAM   *)
(* keeps the row it saves: only a merge could take it, and the store, then *)
(* with authority, takes in the history it has or none.  The flush returns *)
(* OK only with its card holding what RAM holds.                           *)
Owed(id, rev) == [id |-> id, rev |-> rev, ackN |-> 0]
OwnerInv ==
  owner.pc = "flush" /\ owner.rev > 0 =>
    fl.loaded /\ fl.auth /\ Kept(Owed(owner.id, owner.rev), ram.rows)
CallInv ==
  io.pc # "idle" => /\ io.who = "owner" => io.force /\ owner.pc = "flush"
                    /\ ~io.sd => io.card = NoCard
PromiseInv == OwnerInv /\ CallInv /\ PromiseKept

LEMMA InitPromise == Init => PromiseInv
  <1>1. Init => /\ io = IdleIo /\ owner = IdleOwner
                /\ told = [s \in Sessions |-> NotTold]
    BY Zenon DEF Init
  <1>2. QED
    BY <1>1 DEF IdleIo, IdleOwner, NotTold, PromiseInv, OwnerInv, CallInv, PromiseKept

LEMMA OwedKept ==
  ASSUME NEW id, NEW rev \in Nat, NEW rows \in SUBSET Rows,
         NEW x, x.id = id, x.rev \in Nat, x.rev >= rev, x.ackN \in Nat, Kept(x, rows)
  PROVE  Kept(Owed(id, rev), rows)
  <1>1. \A r \in rows : r.rev \in Nat /\ r.ackN \in Nat
    BY DEF Rows
  <1>2. QED BY <1>1 DEF Kept, Owed

LEMMA OwedTrans ==
  ASSUME NEW id, NEW rev \in Nat, NEW n \in Nat, NEW a, Sound(a, n), NEW b, Sound(b, n),
         Ahead(a, b), Kept(Owed(id, rev), a.rows)
  PROVE  Kept(Owed(id, rev), b.rows)
  <1>1. PICK x : x = Owed(id, rev)
    OBVIOUS
  <1>2. Counters(x) /\ Kept(x, a.rows)
    BY <1>1 DEF Counters, Owed
  <1>3. \A y \in a.rows : Kept(y, b.rows)
    BY DEF Ahead
  <1>4. /\ RowsSound(a.rows, a.nextSeq, n) /\ RowsSound(b.rows, b.nextSeq, n)
        /\ Cardinality(b.rows) <= Capacity /\ a.nextSeq \in Nat /\ b.nextSeq \in Nat
    BY DEF Sound
  <1>5. Kept(x, b.rows)
    BY ONLY n \in Nat, <1>2, <1>3, <1>4, KeptTrans
  <1>6. QED BY <1>1, <1>5

LEMMA KeptNonempty ==
  ASSUME NEW x, Kept(x, {})
  PROVE  FALSE
  BY FS_EmptySet, CapacityAssumption DEF Kept

(* A mutation owes the Mesh task the row it has just moved.                *)
LEMMA MovesOwe ==
  ASSUME SnapshotInv, BlobsInv, BlobsInv', RowsMove, OwnerInv
  PROVE  OwnerInv'
  <1>1. fl' = Touched /\ fl.loaded /\ owner.pc = "idle"
    BY RowsTouch DEF OwnerMayMutate
  <1>2. fl'.loaded /\ fl'.auth
    BY <1>1, SnapshotFacts DEF Touched, FlagFields
  <1>3. ram'.rows \in SUBSET Rows
    BY DEF BlobsInv, Copies, Sound, RowsSound, RowKnown, RowValid
  <1>4. CASE AppendTx
    <2>1. Kept(TxRow(ram.nextSeq, used.sessions + 1), ram'.rows)
      BY <1>4, AppendsKeepBlobs
    <2>2. owner' = [pc |-> "flush", id |-> used.sessions + 1, rev |-> 1]
      BY <1>4 DEF AppendTx
    <2>3. PICK x : x = TxRow(ram.nextSeq, used.sessions + 1)
      OBVIOUS
    <2>4. x.id = used.sessions + 1 /\ x.rev = 1 /\ x.ackN = 0
      BY <2>3 DEF TxRow
    <2>5. Kept(Owed(used.sessions + 1, 1), ram'.rows)
      BY <1>3, <2>1, <2>3, <2>4, OwedKept
    <2>6. QED BY <1>2, <2>2, <2>5 DEF OwnerInv
  <1>5. CASE TransitionSync
    <2>1. PICK r \in ram.rows, next \in DeliveryStates \ {"NOT_APPLICABLE"} :
            /\ r.dir = "tx" /\ Mutate(Replace(r, Moved(r, next)))
            /\ owner' = [pc |-> "flush", id |-> r.id, rev |-> r.rev + 1]
      BY <1>5 DEF TransitionSync, SyncEdges, DeliveryStates
    <2>2. RowKnown(r, used.sessions) /\ used.sessions \in Nat
      BY RamRows, RamFacts
    <2>3. PICK m : m = Moved(r, next)
      OBVIOUS
    <2>4. RowKnown(m, used.sessions) /\ SameRow(m, r) /\ m.rev = r.rev + 1
      BY <2>1, <2>2, <2>3, MovedKnown
    <2>5. m \in ram'.rows
      <3>1. ram' = [ram EXCEPT !.rows = Replace(r, m), !.crev = @ + 1]
        BY <2>1, <2>3 DEF Mutate
      <3>2. QED BY <3>1, RamRows DEF Replace, BlobFields
    <2>6. m.id = r.id /\ m.rev \in Nat /\ m.ackN \in Nat /\ r.rev + 1 \in Nat
      BY <2>4 DEF SameRow, RowKnown, RowValid, Rows
    <2>7. Kept(m, ram'.rows)
      BY <2>5, <2>6 DEF Kept
    <2>8. Kept(Owed(r.id, r.rev + 1), ram'.rows)
      BY <1>3, <2>4, <2>6, <2>7, OwedKept
    <2>9. QED BY <1>2, <2>1, <2>8 DEF OwnerInv
  <1>6. CASE ~AppendTx /\ ~TransitionSync
    <2>1. owner' = owner
      BY <1>6 DEF RowsMove, AppendRx, TransitionDeferred, Acknowledge, ReserveAck, CompleteAck
    <2>2. QED BY <1>1, <2>1 DEF OwnerInv
  <1>7. QED BY <1>4, <1>5, <1>6

(* A merge with authority keeps the row owed.                              *)
LEMMA MergeOwes ==
  ASSUME OneSchema, SnapshotInv, CardInv, BlobsInv, BlobsInv', CallersInv, OwnerInv,
         io.pc = "reconcile", ReconcileMerges
  PROVE  OwnerInv'
  <1> DEFINE card == cards[slot]
             merged == MergePrimary(ram, card, fl.auth, LiveFrom)
  <1>1. /\ ram' = merged /\ owner' = owner /\ card # NoBlob
        /\ fl' = [fl EXCEPT !.recon = FALSE, !.auth = TRUE,
                            !.sdDirty = merged # card,
                            !.nvsDirty = @ \/ merged # ram,
                            !.bootNext = IF fl.mutated THEN @ ELSE merged.nextSeq]
    BY DEF ReconcileMerges, NoReturn
  <1>2. slot # NoCard
    BY DEF CardInv, GenerationInv, ReconcileMerges
  <1>3. card \in Copies
    BY <1>1, <1>2 DEF Copies, Stored, CardInv
  <1>4. Sound(card, used.sessions) /\ LiveFrom \in Nat
    BY <1>3, RamFacts DEF LiveFrom, BlobsInv
  <1>5. card.lineage = ram.lineage => card.epoch = ram.epoch
    BY <1>3 DEF BlobsInv, LineageInv, Known, Copies
  <1> HIDE DEF card, merged
  <1>6. fl'.loaded = fl.loaded /\ fl'.auth = TRUE
    BY <1>1, SnapshotFacts DEF FlagFields
  <1>7. ASSUME fl.auth PROVE Sound(ram', used.sessions) /\ Ahead(ram, ram')
    <2>1. PICK auth : auth = fl.auth
      OBVIOUS
    <2>2. PICK m : m = MergePrimary(ram, card, auth, LiveFrom)
      OBVIOUS
    <2>3. PICK n : n = used.sessions
      OBVIOUS
    <2>4. n \in Nat /\ n <= MaxSessions /\ Sound(ram, n) /\ Sound(card, n)
      BY <1>4, <2>3, RamFacts
    <2>5. /\ Sound(m, n) /\ (m = ram \/ Kin(m, card))
          /\ Kin(ram, m) => Ahead(ram, m)
          /\ auth => m.lineage = ram.lineage
      BY ONLY <1>4, <2>2, <2>4, PrimarySound
    <2>6. Kin(ram, m)
      BY <1>5, <1>7, <2>1, <2>5 DEF Kin
    <2>7. QED BY <1>1, <2>1, <2>2, <2>3, <2>5, <2>6 DEF merged
  <1>8. QED
    <2> SUFFICES ASSUME owner.pc = "flush", owner.rev > 0
                 PROVE  Kept(Owed(owner.id, owner.rev), ram'.rows) /\ fl.loaded
      BY <1>1, <1>6 DEF OwnerInv
    <2>1. fl.loaded /\ fl.auth /\ Kept(Owed(owner.id, owner.rev), ram.rows)
      BY DEF OwnerInv
    <2>2. owner.rev \in Nat /\ used.sessions \in Nat /\ Sound(ram, used.sessions)
      BY RamFacts DEF CallersInv
    <2>3. QED BY <1>7, <2>1, <2>2, OwedTrans

(* Every other step leaves the rows owed alone.                            *)
LEMMA QuietOwes ==
  ASSUME OwnerInv, ram' = ram, fl'.loaded = fl.loaded, fl'.auth = fl.auth,
         owner' \in {owner, IdleOwner}
  PROVE  OwnerInv'
  BY DEF OwnerInv, IdleOwner

LEMMA PersistOwes ==
  ASSUME OneSchema, SnapshotInv, CardInv, BlobsInv, BlobsInv', CallersInv, OwnerInv, Persist
  PROVE  OwnerInv'
  <1>1. CASE io.pc = "reconcile" /\ ReconcileMerges
    BY <1>1, MergeOwes
  <1>2. CASE ~(io.pc = "reconcile" /\ ReconcileMerges)
    <2>1. ram' = ram
      BY <1>2 DEF Persist, PersistBegin, Reconcile, NotFinished, ReconcileStale,
         ReconcileRolledBack, ReconcileReadFails, ReconcileAbsent, ReconcileConflict,
         ReconcileFails, NvsOnlySnapshot, NvsOnlyWrite, NvsOnlyFinish, Snapshot,
         SdWrite, SdCheck, NvsWrite, Finish
    <2>2. owner' \in {owner, IdleOwner}
      BY <1>2 DEF Persist, PersistBegin, Reconcile, NotFinished, ReconcileStale,
         ReconcileRolledBack, ReconcileReadFails, ReconcileAbsent, ReconcileConflict,
         ReconcileFails, NvsOnlySnapshot, NvsOnlyWrite, NvsOnlyFinish, Snapshot,
         SdWrite, SdCheck, NvsWrite, Finish, Return, NoReturn
    <2>3. fl'.loaded = fl.loaded /\ fl'.auth = fl.auth
      <3>1. CASE \E who, force : PersistBegin(who, force)
        BY <3>1, SnapshotFacts DEF PersistBegin, GenerationNoted, FlagFields
      <3>2. CASE Reconcile
        BY <1>2, <3>2, SnapshotFacts
        DEF Reconcile, NotFinished, ReconcileStale, ReconcileRolledBack,
            ReconcileReadFails, ReconcileAbsent, ReconcileConflict, ReconcileFails, FlagFields
      <3>3. CASE Finish
        BY <3>3, FinishFlags
      <3>4. CASE NvsOnlyFinish
        BY <3>4, SnapshotFacts DEF NvsOnlyFinish, FlagFields
      <3>5. CASE NvsOnlySnapshot \/ NvsOnlyWrite \/ Snapshot \/ SdWrite \/ SdCheck \/ NvsWrite
        BY <3>5 DEF NvsOnlySnapshot, NvsOnlyWrite, Snapshot, SdWrite, SdCheck, NvsWrite,
                    NotFinished
      <3>6. QED BY <3>1, <3>2, <3>3, <3>4, <3>5 DEF Persist
    <2>4. QED BY <2>1, <2>2, <2>3, QuietOwes
  <1>3. QED BY <1>1, <1>2

LEMMA StepOwes ==
  ASSUME OneSchema, SnapshotInv, CardInv, BlobsInv, BlobsInv', CallersInv, OwnerInv,
         [Next]_vars
  PROVE  OwnerInv'
  <1>1. CASE RowsMove
    BY <1>1, MovesOwe
  <1>2. CASE Persist
    BY <1>2, PersistOwes
  <1>3. CASE ClearRows
    <2>1. owner' = [owner EXCEPT !.rev = 0]
      BY <1>3 DEF ClearRows
    <2>2. QED BY <2>1 DEF OwnerInv, CallersInv
  <1>4. CASE Crash
    BY <1>4 DEF Crash, IdleOwner, OwnerInv
  <1>5. CASE Boot
    BY <1>5 DEF Boot, OwnerInv
  <1>6. CASE ClearErase \/ UNCHANGED vars
    BY <1>6, QuietOwes DEF ClearErase, vars
  <1>7. CASE Toggle
    <2>1. fl'.loaded = fl.loaded /\ fl'.auth = fl.auth /\ ram' = ram /\ owner' = owner
      BY <1>7, SnapshotFacts DEF Toggle, FlagFields
    <2>2. QED BY <2>1, QuietOwes
  <1>8. QED BY <1>1, <1>2, <1>3, <1>4, <1>5, <1>6, <1>7 DEF Next, RowsMove

(* The operation of an owner is forced, and the owner waits for it.        *)
LEMMA StepKeepsCall ==
  ASSUME SnapshotInv, CallersInv, CallInv, [Next]_vars
  PROVE  CallInv'
  <1>1. CASE io'.pc = "idle"
    BY <1>1 DEF CallInv
  <1>2. CASE RowsMove \/ ClearRows
    <2>1. io' = [io EXCEPT !.fresh = FALSE]
      BY <1>2, RowsTouch
    <2>2. /\ io'.pc = io.pc /\ io'.who = io.who /\ io'.force = io.force
          /\ io'.sd = io.sd /\ io'.card = io.card
      BY <2>1, SnapshotFacts DEF IoFields
    <2>3. owner.pc = "flush" => owner'.pc = "flush"
      BY <1>2 DEF RowsMove, AppendTx, AppendRx, TransitionSync, TransitionDeferred,
                  Acknowledge, ReserveAck, CompleteAck, ClearRows, OwnerMayMutate, CallersInv
    <2>4. QED BY <2>2, <2>3 DEF CallInv
  <1>3. CASE Persist /\ io'.pc # "idle"
    <2>1. CASE io.pc = "idle"
      <3>1. PICK who, force : PersistBegin(who, force)
        BY <1>3, <2>1 DEF Persist, Reconcile, NvsOnlySnapshot, NvsOnlyWrite,
                          NvsOnlyFinish, Snapshot, SdWrite, SdCheck, NvsWrite, Finish
      <3>2. io' = [IdleIo EXCEPT !.pc = IF (slot # NoCard) /\ fl'.recon THEN "reconcile"
                                                                   ELSE "snapshot",
                                 !.who = who, !.force = force,
                                 !.sd = (slot # NoCard), !.genOk = TRUE,
                                 !.card = slot]
        BY <1>3, <2>1, <3>1 DEF PersistBegin
      <3>3. io'.who = who /\ io'.force = force /\ io'.sd = (slot # NoCard) /\ io'.card = slot
        BY <3>2 DEF IdleIo
      <3>4. who = "owner" => force /\ owner.pc = "flush"
        BY <3>1 DEF PersistBegin, Caller
      <3>5. owner' = owner
        BY <1>3, <2>1, <3>1 DEF PersistBegin, NoReturn
      <3>6. QED BY <3>3, <3>4, <3>5 DEF CallInv
    <2>2. CASE io.pc # "idle"
      <3>1. ~NotFinished /\ ~Finish /\ ~NvsOnlyFinish
        BY <1>3, Idle DEF NotFinished, Finish, NvsOnlyFinish
      <3>2. Reconcile \/ NvsOnlySnapshot \/ NvsOnlyWrite \/ Snapshot \/ SdWrite \/ SdCheck
              \/ NvsWrite
        BY <1>3, <2>2, <3>1 DEF Persist, PersistBegin
      <3>3. owner' = owner
        <4>1. io' # IdleIo
          BY <1>3, Idle
        <4>2. QED
          BY <3>1, <3>2, <4>1 DEF Reconcile, ReconcileStale, ReconcileRolledBack,
             ReconcileReadFails, ReconcileAbsent, ReconcileConflict, ReconcileMerges,
             ReconcileFails, NvsOnlySnapshot, NvsOnlyWrite, Snapshot, SdWrite, SdCheck,
             NvsWrite, NoReturn
      <3>4. /\ io'.who = io.who /\ io'.force = io.force
            /\ io'.sd = io.sd /\ io'.card = io.card
        <4>1. CASE Reconcile
          BY <3>1, <4>1, SnapshotFacts
          DEF Reconcile, ReconcileStale, ReconcileRolledBack,
              ReconcileReadFails, ReconcileAbsent, ReconcileConflict, ReconcileMerges,
              ReconcileFails, IoFields
        <4>2. CASE NvsOnlySnapshot
          <5>1. io' = [io EXCEPT !.pc = "nvsOnlyWrite", !.snap = ram, !.fresh = TRUE]
            BY <1>3, <4>2, Idle DEF NvsOnlySnapshot
          <5>2. QED BY <5>1, SnapshotFacts DEF IoFields
        <4>3. CASE NvsOnlyWrite \/ Snapshot \/ SdWrite \/ SdCheck \/ NvsWrite
          BY <3>1, <4>3, SnapshotFacts
          DEF NvsOnlyWrite, Snapshot, SdWrite, SdCheck, NvsWrite, IoFields
        <4>4. QED BY <3>2, <4>1, <4>2, <4>3
      <3>5. QED BY <2>2, <3>3, <3>4 DEF CallInv
    <2>3. QED BY <2>1, <2>2
  <1>4. CASE Toggle
    <2>1. io' = [io EXCEPT !.genOk = FALSE] /\ owner' = owner
      BY <1>4 DEF Toggle
    <2>2. /\ io'.pc = io.pc /\ io'.who = io.who /\ io'.force = io.force
          /\ io'.sd = io.sd /\ io'.card = io.card
      BY <2>1, SnapshotFacts DEF IoFields
    <2>3. QED BY <2>1, <2>2 DEF CallInv
  <1>5. CASE Boot \/ ClearErase \/ UNCHANGED vars
    BY <1>5 DEF Boot, ClearErase, vars, CallInv
  <1>6. CASE Crash
    BY <1>1, <1>6, Idle DEF Crash
  <1>7. QED BY <1>1, <1>2, <1>3, <1>4, <1>5, <1>6 DEF Next, RowsMove

(* What a flush that returns tells its owner, of the card it found.        *)
LEMMA ReturnKeepsPromise ==
  ASSUME SnapshotInv, CardInv, CallersInv, OwnerInv, PromiseKept, cards' = cards,
         NEW who, NEW ok, NEW card, Return(who, ok, card),
         who = "owner" => owner.pc = "flush",
         who = "owner" /\ ok /\ card # NoCard => SavedOn(card),
         ram # NoBlob
  PROVE  PromiseKept'
  <1> SUFFICES ASSUME NEW s \in Sessions, told'[s].rev > 0, told'[s].card # NoCard
               PROVE  /\ cards'[told'[s].card] # NoBlob
                      /\ Kept(Owed(s, told'[s].rev), cards'[told'[s].card].rows)
    BY DEF PromiseKept, Owed
  <1>1. CASE told' = told
    BY <1>1 DEF PromiseKept, Owed
  <1>2. CASE told' # told
    <2>1. who = "owner" /\ ok /\ told' = [told EXCEPT ![owner.id] = Report(card)]
      BY <1>2 DEF Return
    <2>2. CASE s = owner.id
      <3>1. told'[s] = Report(card)
        BY <2>1, <2>2 DEF CallersInv
      <3>2. told'[s].rev = owner.rev /\ told'[s].card = card
        BY <3>1 DEF Report
      <3>3. Kept(Owed(s, owner.rev), ram.rows) /\ SavedOn(card)
        BY <2>1, <2>2, <3>2 DEF OwnerInv
      <3>4. ram.rows # {}
        BY <3>3, KeptNonempty
      <3>5. cards[card] = ram
        BY <3>3, <3>4 DEF SavedOn
      <3>6. QED BY <3>2, <3>3, <3>5
    <2>3. CASE s # owner.id
      <3>1. told'[s] = told[s]
        BY <2>1, <2>3 DEF CallersInv
      <3>2. QED BY <3>1 DEF PromiseKept, Owed
    <2>4. QED BY <2>2, <2>3
  <1>3. QED BY <1>1, <1>2

LEMMA QuietPromise ==
  ASSUME PromiseKept, UNCHANGED <<told, cards>>
  PROVE  PromiseKept'
  BY DEF PromiseKept

(* A write of the card keeps what was promised of it, or ends the promise. *)
LEMMA WriteKeepsPromise ==
  ASSUME CardInv, BlobsInv, CallersInv, AdvanceInv, PromiseKept, io.pc = "sd", io.genOk,
         OperationInv, SdWriting, cards' = [cards EXCEPT ![slot] = io.snap],
         told' = StillTold(slot, io.snap)
  PROVE  PromiseKept'
  <1> SUFFICES ASSUME NEW s \in Sessions, told'[s].rev > 0, told'[s].card # NoCard
               PROVE  /\ cards'[told'[s].card] # NoBlob
                      /\ Kept(Owed(s, told'[s].rev), cards'[told'[s].card].rows)
    BY DEF PromiseKept, Owed
  <1>1. told'[s] = told[s] /\ ~(/\ told[s].card = slot /\ cards[slot] # NoBlob
                                /\ ~Kin(cards[slot], io.snap))
    BY DEF StillTold, NotTold, Kin
  <1>2. told[s].card \in Cards
    BY <1>1 DEF CallersInv, Slots
  <1>3. /\ cards[told[s].card] # NoBlob
        /\ Kept(Owed(s, told[s].rev), cards[told[s].card].rows)
    BY <1>1 DEF PromiseKept, Owed
  <1>4. CASE told[s].card # slot
    <2>1. cards'[told[s].card] = cards[told[s].card]
      BY <1>2, <1>4 DEF CardInv
    <2>2. QED BY <1>1, <1>3, <2>1
  <1>5. CASE told[s].card = slot
    <2>1. cards'[slot] = io.snap
      BY <1>2, <1>5 DEF CardInv
    <2>2. Ahead(cards[slot], io.snap)
      BY <1>1, <1>3, <1>5 DEF AdvanceInv, AdvSnap, KeepsUp
    <2>3. /\ Sound(cards[slot], used.sessions) /\ Sound(io.snap, used.sessions)
          /\ used.sessions \in Nat
      BY <1>2, <1>3, <1>5, RamFacts DEF BlobsInv, Copies, Stored, WithSnapshot
    <2>4. io.snap # NoBlob
      BY <2>3, SoundDecodes, NoBlobAssumption
    <2>5. told[s].rev \in Nat
      BY DEF CallersInv
    <2>6. Kept(Owed(s, told[s].rev), io.snap.rows)
      BY <1>3, <1>5, <2>2, <2>3, <2>5, OwedTrans
    <2>7. QED BY <1>1, <1>5, <2>1, <2>4, <2>6
  <1>6. QED BY <1>4, <1>5

LEMMA StepKeepsPromise ==
  ASSUME SnapshotInv, CardInv, BlobsInv, OperationInv, AdvanceInv, CallersInv, PromiseInv,
         [Next]_vars
  PROVE  PromiseKept'
  <1>1. CASE RowsMove
    BY <1>1, RowsTouch, QuietPromise DEF PromiseInv
  <1>2. CASE ClearRows
    <2>1. told' = [s \in Sessions |-> NotTold]
      BY <1>2 DEF ClearRows
    <2>2. QED BY <2>1 DEF PromiseKept, NotTold
  <1>3. CASE ClearErase \/ Toggle \/ Crash \/ Boot \/ UNCHANGED vars
    BY <1>3, QuietPromise DEF ClearErase, Toggle, Crash, Boot, vars, ghosts, PromiseInv
  <1>4. CASE SdWrite /\ ~NotFinished
    <2>1. CASE UNCHANGED <<told, cards>>
      BY <2>1, QuietPromise DEF PromiseInv
    <2>2. CASE ~UNCHANGED <<told, cards>>
      <3>1. /\ io.pc = "sd" /\ io.genOk /\ cards' = [cards EXCEPT ![slot] = io.snap]
            /\ told' = StillTold(slot, io.snap)
        BY <1>4, <2>2 DEF SdWrite, NoReturn
      <3>2. QED BY <3>1, WriteKeepsPromise DEF PromiseInv, CardInv
    <2>3. QED BY <2>1, <2>2
  <1>5. CASE Persist /\ ~(SdWrite /\ ~NotFinished)
    <2>1. cards' = cards
      BY <1>5 DEF Persist, PersistBegin, Reconcile, NotFinished, ReconcileStale,
         ReconcileRolledBack, ReconcileReadFails, ReconcileAbsent, ReconcileConflict,
         ReconcileMerges, ReconcileFails, NvsOnlySnapshot, NvsOnlyWrite, NvsOnlyFinish,
         Snapshot, SdCheck, NvsWrite, Finish
    <2>2. ram # NoBlob
      BY RamFacts, SoundDecodes, NoBlobAssumption
    <2>3. CASE told' = told
      BY <2>1, <2>3, QuietPromise DEF PromiseInv
    <2>4. CASE told' # told
      <3>1. CASE \E who, force : PersistBegin(who, force)
        <4>1. PICK who, force : PersistBegin(who, force)
          BY <3>1
        <4>2. PICK ok : /\ Return(who, ok, slot)
                        /\ ok => ~Dirty(fl', slot # NoCard) \/ ~force
          BY <2>4, <4>1 DEF PersistBegin, NoReturn
        <4>3. who = "owner" => owner.pc = "flush" /\ force
          BY <4>1 DEF PersistBegin, Caller
        <4>4. who = "owner" /\ ok /\ slot # NoCard => SavedOn(slot)
          BY <4>1, <4>2, <4>3, NothingToSave
        <4>5. QED BY <2>1, <2>2, <4>2, <4>3, <4>4, ReturnKeepsPromise DEF PromiseInv
      <3>2. CASE Finish
        <4>1. PICK ok : /\ Return(io.who, ok, io.card)
                        /\ ok /\ io.force => ~Dirty(fl', io.sd)
          BY <3>2, FinishFlags
        <4>2. io.pc # "idle"
          BY <3>2 DEF Finish
        <4>3. io.who = "owner" => io.force /\ owner.pc = "flush"
          BY <4>2 DEF PromiseInv, CallInv
        <4>4. ~io.sd => io.card = NoCard
          BY <4>2 DEF PromiseInv, CallInv
        <4>5. io.who = "owner" /\ ok /\ io.card # NoCard => SavedOn(io.card)
          <5>1. io.sd \/ ~io.sd
            OBVIOUS
          <5>2. ASSUME io.who = "owner", ok, io.card # NoCard PROVE SavedOn(io.card)
            <6>1. io.sd /\ ~Dirty(fl', io.sd)
              BY <4>1, <4>3, <4>4, <5>2
            <6>2. ~Dirty(fl', TRUE)
              BY <6>1 DEF Dirty
            <6>3. QED BY <3>2, <6>1, <6>2, NothingLeftToSave
          <5>3. QED BY <5>2
        <4>6. QED BY <2>1, <2>2, <4>1, <4>3, <4>5, ReturnKeepsPromise DEF PromiseInv
      <3>3. CASE NotFinished \/ NvsOnlySnapshot \/ NvsOnlyFinish
        BY <2>4, <3>3 DEF NotFinished, NvsOnlySnapshot, NvsOnlyFinish, Return, NoReturn
      <3>4. CASE Reconcile \/ NvsOnlyWrite \/ Snapshot \/ SdCheck \/ NvsWrite
        BY <2>4, <3>3, <3>4 DEF Reconcile, ReconcileStale, ReconcileRolledBack,
           ReconcileReadFails, ReconcileAbsent, ReconcileConflict, ReconcileMerges,
           ReconcileFails, NvsOnlyWrite, Snapshot, SdCheck, NvsWrite, NoReturn
      <3>5. QED BY <1>5, <3>1, <3>2, <3>3, <3>4 DEF Persist
    <2>5. QED BY <2>3, <2>4
  <1>6. QED BY <1>1, <1>2, <1>3, <1>4, <1>5 DEF Next, RowsMove, Persist

(* The synchronous edges report durable only what is on the card their     *)
(* flush found, and stays there: through merges, renumberings, evictions   *)
(* of a full ring, torn and late writes, card changes, power losses and    *)
(* boots.  A clear, or another history written over the card, ends it.     *)
THEOREM PromisesAreKept == Spec /\ OneSchema => []PromiseKept
  <1> SUFFICES ASSUME OneSchema PROVE Spec => []PromiseKept
    OBVIOUS
  <1> DEFINE Inv == SnapshotInv /\ CardInv /\ NvsInv /\ BlobsInv /\ OperationInv /\ AdvanceInv
  <1>1. Inv /\ BlobsInv' /\ TypesInv /\ PromiseInv /\ [Next]_vars => PromiseInv'
    <2> SUFFICES ASSUME Inv, BlobsInv', TypesInv, PromiseInv, [Next]_vars PROVE PromiseInv'
      OBVIOUS
    <2>1. CallersInv
      BY DEF TypesInv
    <2>2. OwnerInv'
      BY <2>1, StepOwes DEF PromiseInv
    <2>3. CallInv'
      BY <2>1, StepKeepsCall DEF PromiseInv
    <2>4. PromiseKept'
      BY <2>1, StepKeepsPromise
    <2>5. QED BY <2>2, <2>3, <2>4 DEF PromiseInv
  <1>2. Inv => BlobsInv /\ SnapshotInv /\ CardInv
    OBVIOUS
  <1>3. PromiseInv => PromiseKept
    BY DEF PromiseInv
  <1> HIDE DEF Inv
  <1>4. Spec => []Inv
    BY StoreAndAdvance DEF Inv
  <1>5. Inv /\ TypesInv /\ [Next]_vars => TypesInv'
    BY <1>2, StepKeepsTypes
  <1>6. Spec => []TypesInv
    BY InitTypes, <1>4, <1>5, PTL DEF Spec
  <1>7. QED BY InitPromise, <1>1, <1>2, <1>3, <1>4, <1>6, PTL DEF Spec
=============================================================================
