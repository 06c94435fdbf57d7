--------------------------- MODULE DmRuntimeProofs ---------------------------
(***************************************************************************)
(* Where the Mesh task of DmRuntime may be, proved for any number of       *)
(* messages, faults, clears and power losses.                              *)
(*                                                                         *)
(* What the row, the owner and the radio agree on depends on where the     *)
(* task stands, so no safety invariant is inductive alone.  This module    *)
(* proves the first two layers, types (TypeInv) and control (ControlInv),  *)
(* and a lemma for each action that says what it keeps; DmRuntimeSafety    *)
(* builds the invariants on them.                                          *)
(***************************************************************************)
EXTENDS DmRuntime, TLAPS

(* Where the task can stand, and where a shared tail can return to.        *)
Tails == {"loop", "bus", "watchdog", "orphan"}
SendPcs == {"reserve", "start", "send"}
AdmitPcs == {"begin", "detach"}
DonePcs == {"txDone", "await", "txFailed"}
RetryPcs == {"retryWait", "retryTx"}
IdlePcs == {"reconcile", "deadline"}
QuietPcs == SendPcs \union AdmitPcs \union DonePcs \union RetryPcs \union IdlePcs
              \union {"unsent", "expire"}

OperationType ==
  [id : Nat, kind : {"none", "DM", "ACK"}, session : Sessions \union {NoSession},
   rev : Nat]
OwnerType ==
  [session : Sessions \union {NoSession}, rev : Nat, hash : AckHashes \union {0},
   state : DeliveryStates]
CompletionType ==
  [session : Sessions \union {NoSession}, base : Nat, admitted : BOOLEAN,
   durable : BOOLEAN]
ReceiptType ==
  [session : Sessions \union {NoSession}, base : Nat, hash : AckHashes \union {0}]
TxType ==
  [route : {"none", "direct", "flood"}, attempt : {0, 1}, retried : BOOLEAN,
   armed : BOOLEAN, ackPending : BOOLEAN, completion : CompletionType,
   receipt : ReceiptType]
UsedType ==
  [sessions : 0 .. MaxSessions, ops : Nat, radio : Nat, replies : Nat, crashes : Nat,
   clears : Nat]

TypeInv ==
  /\ rows \subseteq RowType /\ saved \subseteq RowType
  /\ mask \subseteq Sessions /\ card \in BOOLEAN
  /\ task \in [pc : Tails \union QuietPcs, then : Tails]
  /\ owner \in OwnerType
  /\ tx \in TxType
  /\ op \in OperationType /\ op.id <= used.ops
  /\ air \in OperationType /\ air.id <= used.ops
  /\ latched \subseteq [operation : OperationType, kind : {"done", "timeout"}]
  /\ \A e \in latched : e.operation.id <= used.ops
  /\ sent \in [AckHashes -> Nat]
  /\ credits \in [Sessions -> Nat]
  /\ cleared \subseteq Sessions /\ live \subseteq Sessions
  /\ boot \in 0 .. used.sessions
  /\ used \in UsedType

(* The radio is idle wherever a handler moves the delivery; a delivery     *)
(* whose ACK is admitted is not moved at all.                              *)
PcInv ==
  /\ task.pc \in QuietPcs => op = NoOp
  /\ task.pc \in AdmitPcs => owner = NoOwner /\ used.sessions # 0
  /\ task.pc \in SendPcs \union DonePcs \union RetryPcs \union {"expire"} =>
       OwnerActive(owner)
  /\ task.pc = "send" => owner.state = "TX_ACTIVE"
  /\ task.pc \in RetryPcs => tx.attempt = 0
  /\ Suppresses => task.pc \in Tails \union IdlePcs

DeliveryInv ==
  /\ OwnerActive(owner) \/ (owner = NoOwner /\ tx = NoTx)
  /\ OwnerActive(owner) =>
       /\ ~Terminal(owner.state)
       /\ owner.session <= used.sessions
       /\ owner.hash = AckHash(owner.session, tx.attempt)
  /\ tx.completion.session \in {NoSession, owner.session}
  /\ Suppresses => OwnerActive(owner) /\ owner.state = "AWAITING_ACK" /\ tx.ackPending
  /\ OperationIsOwned

ControlInv == PcInv /\ DeliveryInv

-----------------------------------------------------------------------------
(* One transition of the pending delivery, as all its callers see it.      *)

(* A flush, as far as the copy on the card goes: it unmasks an ACK only    *)
(* once the copy holds the row, or when there is no card to hold it.       *)
Saves ==
  /\ saved' \in {saved, rows'}
  /\ ~card => saved' = saved
  /\ mask' = mask \/ (mask' = {} /\ (card => saved' = rows'))

LEMMA FlushSaves ==
  ASSUME NEW ok, Flush(ok), card \in BOOLEAN
  PROVE  Saves
  BY DEF Flush, Saves, Written

Stored(next, hash, ret) ==
  IF ret = "refused"
  THEN UNCHANGED store
  ELSE /\ CasHolds(next)
       /\ rows' = Moved(next, hash)
       /\ Saves

MoveStep(next, ret, attempt) ==
  /\ Stored(next, AckHash(owner.session, attempt), ret)
  /\ owner' \in OwnerType /\ tx' \in TxType
  /\ IF ret = "refused"
     THEN owner' = owner /\ tx'.attempt = tx.attempt
     ELSE IF Terminal(next)
     THEN owner' = NoOwner /\ tx' = NoTx
     ELSE /\ owner'.session = owner.session /\ owner'.rev = owner.rev + 1
          /\ owner'.hash = AckHash(owner.session, attempt) /\ owner'.state = next
          /\ tx'.attempt = attempt
  /\ OwnerActive(owner') \/ (owner' = NoOwner /\ tx' = NoTx)
  /\ tx'.completion.session \in {NoSession, owner'.session}
  /\ ~Suppresses'

LEMMA SyncStored ==
  ASSUME TypeInv, NEW next, NEW hash, NEW ret, StoreSync(next, hash, ret)
  PROVE  Stored(next, hash, ret)
  BY FlushSaves DEF StoreSync, Stored, TypeInv

LEMMA DeferredStored ==
  ASSUME NEW next, NEW ret, StoreDeferred(next, ret), next # "ACKNOWLEDGED"
  PROVE  Stored(next, owner.hash, ret)
  BY DEF StoreDeferred, Stored, Saves, store

LEMMA HashIsHash ==
  \A s \in Sessions : \A a \in {0, 1} :
    AckHash(s, a) \in AckHashes /\ AckHash(s, a) \in Nat \ {0}
  <1> SUFFICES ASSUME NEW s \in Sessions, NEW a \in {0, 1}
               PROVE  AckHash(s, a) \in AckHashes /\ AckHash(s, a) \in Nat \ {0}
    OBVIOUS
  <1>1. s \in Nat \ {0}
    BY RuntimeBoundsAssumption DEF Sessions
  <1>2. QED BY <1>1 DEF AckHash, AckHashes

LEMMA HashInjective ==
  ASSUME NEW s \in Sessions, NEW t \in Sessions, NEW a \in {0, 1}, NEW b \in {0, 1},
         AckHash(s, a) = AckHash(t, b)
  PROVE  s = t /\ a = b
  BY RuntimeBoundsAssumption DEF AckHash, Sessions

LEMMA RowIsTyped ==
  ASSUME NEW r \in RowType
  PROVE  /\ r.id \in Nat \ {0} /\ r.id \in Sessions /\ r.rev \in Nat /\ r.dir = "tx"
         /\ r.st \in DeliveryStates /\ r.hash \in AckHashes
         /\ r.id # NoSession
  BY RuntimeBoundsAssumption DEF RowType, Sessions, NoSession

(* A row accepts a transition only while it has an owner.                  *)
LEMMA CasMeansActive ==
  ASSUME TypeInv, NEW next, CasHolds(next)
  PROVE  OwnerActive(owner)
  BY RowIsTyped DEF CasHolds, Current, OwnerActive, TypeInv

MovedRow(r, next, hash) == [r EXCEPT !.st = next, !.rev = @ + 1, !.hash = hash]

LEMMA MovedIsSet ==
  ASSUME NEW next, NEW hash
  PROVE  Moved(next, hash)
           = {IF Current(r) THEN MovedRow(r, next, hash) ELSE r : r \in rows}
  BY DEF Moved, MovedRow

LEMMA MovedFields ==
  ASSUME NEW r \in RowType, NEW next \in DeliveryStates, NEW hash \in AckHashes
  PROVE  /\ MovedRow(r, next, hash) \in RowType
         /\ MovedRow(r, next, hash).id = r.id
         /\ MovedRow(r, next, hash).st = next
         /\ MovedRow(r, next, hash).rev = r.rev + 1
         /\ MovedRow(r, next, hash).hash = hash
  <1> DEFINE rev == r.rev + 1
  <1>1. rev \in Nat /\ MovedRow(r, next, hash)
                         = [r EXCEPT !.st = next, !.rev = rev, !.hash = hash]
    BY DEF RowType, MovedRow
  <1> HIDE DEF rev
  <1>2. LET moved == [r EXCEPT !.st = next, !.rev = rev, !.hash = hash]
        IN /\ moved \in RowType
           /\ moved.id = r.id /\ moved.st = next /\ moved.rev = rev
           /\ moved.hash = hash
    BY <1>1 DEF RowType
  <1>3. QED BY <1>1, <1>2 DEF rev

LEMMA MovedIsTyped ==
  ASSUME TypeInv, NEW next \in DeliveryStates, NEW hash \in AckHashes
  PROVE  Moved(next, hash) \subseteq RowType
  BY MovedIsSet, MovedFields DEF TypeInv

LEMMA StoredIsTyped ==
  ASSUME TypeInv, NEW next \in DeliveryStates, NEW hash \in AckHashes, NEW ret,
         Stored(next, hash, ret)
  PROVE  rows' \subseteq RowType /\ saved' \subseteq RowType /\ mask' \subseteq Sessions
  <1>1. CASE ret = "refused"
    BY <1>1 DEF Stored, store, TypeInv
  <1>2. CASE ret # "refused"
    BY <1>2, MovedIsTyped DEF Stored, Saves, TypeInv
  <1>3. QED BY <1>1, <1>2

LEMMA OwnerFollows ==
  ASSUME TypeInv, NEW next \in DeliveryStates \ {"ACKNOWLEDGED"}, NEW hash, NEW ret,
         Stored(next, hash, ret)
  PROVE  OwnerOn(next, ret) = IF ret = "refused" THEN owner
                              ELSE [owner EXCEPT !.state = next, !.rev = @ + 1]
  <1>1. CASE ret = "refused"
    BY <1>1 DEF OwnerOn, Publishes
  <1>2. CASE ret # "refused"
    <2>1. OwnerActive(owner) /\ TransitionAllowed(owner.state, next)
      BY <1>2, CasMeansActive DEF Stored, CasHolds
    <2>2. QED
      BY <1>2, <2>1 DEF OwnerOn, Publishes, OwnerAccepts, OwnerAfter
  <1>3. QED BY <1>1, <1>2

LEMMA OwnerMoved ==
  ASSUME TypeInv, NEW next \in DeliveryStates \ {"ACKNOWLEDGED"}, NEW hash, NEW ret,
         Stored(next, hash, ret), ret # "refused"
  PROVE  /\ OwnerOn(next, ret) \in OwnerType
         /\ OwnerOn(next, ret).session = owner.session
         /\ OwnerOn(next, ret).rev = owner.rev + 1
         /\ OwnerOn(next, ret).hash = owner.hash
         /\ OwnerOn(next, ret).state = next
  <1> DEFINE rev == owner.rev + 1
  <1>1. rev \in Nat /\ owner \in OwnerType
    BY DEF TypeInv, OwnerType
  <1>2. OwnerOn(next, ret) = [owner EXCEPT !.state = next, !.rev = rev]
    BY OwnerFollows
  <1> HIDE DEF rev
  <1>3. /\ OwnerOn(next, ret) \in OwnerType
        /\ OwnerOn(next, ret).session = owner.session
        /\ OwnerOn(next, ret).rev = rev
        /\ OwnerOn(next, ret).hash = owner.hash
        /\ OwnerOn(next, ret).state = next
    BY <1>1, <1>2 DEF OwnerType
  <1>4. QED BY <1>3 DEF rev

LEMMA TxFollows ==
  ASSUME TypeInv, NEW next, NEW ret,
         tx.completion.session \in {NoSession, owner.session}
  PROVE  /\ TxOn(next, ret) \in TxType
         /\ TxOn(next, ret).attempt = tx.attempt
         /\ TxOn(next, ret).completion.session \in {NoSession, owner.session}
         /\ TxOn(next, ret).ackPending = tx.ackPending
         /\ ~Suppresses => ~ /\ TxOn(next, ret).completion.session # NoSession
                             /\ TxOn(next, ret).completion.admitted
         /\ ret = "refused" => TxOn(next, ret) = tx
  <1> DEFINE begun == [tx EXCEPT
               !.completion = [NoCompletion EXCEPT !.session = owner.session,
                                                   !.base = owner.rev + 1],
               !.receipt = NoReceipt]
             retired == [tx EXCEPT !.completion = NoCompletion, !.receipt = NoReceipt]
  <1>1. LET c == [NoCompletion EXCEPT !.session = owner.session, !.base = owner.rev + 1]
        IN c \in CompletionType /\ c.session = owner.session /\ ~c.admitted
    <2> DEFINE rev == owner.rev + 1
    <2>1. rev \in Nat /\ owner.session \in Sessions \union {NoSession}
      BY DEF TypeInv, OwnerType
    <2>2. NoCompletion \in CompletionType /\ ~NoCompletion.admitted
      BY DEF NoCompletion, CompletionType, NoSession
    <2> HIDE DEF rev
    <2>3. LET c == [NoCompletion EXCEPT !.session = owner.session, !.base = rev]
          IN c \in CompletionType /\ c.session = owner.session /\ ~c.admitted
      BY <2>1, <2>2 DEF CompletionType
    <2>4. QED BY <2>3 DEF rev
  <1>2. /\ begun \in TxType /\ begun.attempt = tx.attempt
        /\ begun.completion.session = owner.session
        /\ ~begun.completion.admitted /\ begun.ackPending = tx.ackPending
    <2> DEFINE c == [NoCompletion EXCEPT !.session = owner.session, !.base = owner.rev + 1]
    <2>1. c \in CompletionType /\ c.session = owner.session /\ ~c.admitted
      BY <1>1
    <2> HIDE DEF c
    <2>2. LET b == [tx EXCEPT !.completion = c, !.receipt = NoReceipt]
          IN /\ b \in TxType /\ b.attempt = tx.attempt
             /\ b.completion = c /\ b.ackPending = tx.ackPending
      BY <2>1 DEF TypeInv, TxType, ReceiptType, NoReceipt, NoSession
    <2>3. QED BY <2>1, <2>2 DEF c
  <1>3. /\ retired \in TxType /\ retired.attempt = tx.attempt
        /\ retired.completion.session = NoSession
        /\ retired.ackPending = tx.ackPending
    BY DEF TypeInv, TxType, CompletionType, ReceiptType, NoReceipt, NoCompletion, NoSession
  <1>4. tx \in TxType
    BY DEF TypeInv
  <1>5. \/ TxOn(next, ret) = tx /\ (ret = "refused" \/ tx.completion.session = NoSession
                                       \/ tx.completion.admitted)
        \/ TxOn(next, ret) = begun /\ ret # "refused"
        \/ TxOn(next, ret) = retired /\ ret # "refused"
    <2>1. tx.completion.admitted \in BOOLEAN
      BY DEF TypeInv, TxType, CompletionType
    <2>2. QED BY <2>1 DEF TxOn, Publishes
  <1> HIDE DEF begun, retired
  <1>6. QED BY <1>2, <1>3, <1>4, <1>5 DEF Suppresses

LEMMA NothingIsTyped ==
  /\ NoOwner \in OwnerType /\ ~OwnerActive(NoOwner) /\ NoOwner.session = NoSession
  /\ NoTx \in TxType /\ NoTx.completion.session = NoSession /\ NoTx.attempt = 0
  /\ NoOp \in OperationType /\ NoOp.id = 0 /\ NoOp.kind = "none"
  BY DEF NoOwner, OwnerType, OwnerActive, NoTx, TxType, CompletionType, ReceiptType,
         NoCompletion, NoReceipt, NoSession, NoOp, OperationType, DeliveryStates

(* A failure of the pending delivery: kept is what remains of tx when the  *)
(* store refuses.                                                          *)
LEMMA FailureMoves ==
  ASSUME TypeInv, DeliveryInv, ~Suppresses,
         NEW next \in DeliveryStates, next # "ACKNOWLEDGED", Terminal(next), NEW ret, NEW kept,
         Stored(next, owner.hash, ret),
         ClearIfTerminal(OwnerOn(next, ret), kept),
         ret = "refused" => /\ kept \in TxType /\ kept.attempt = tx.attempt
                            /\ kept.completion = tx.completion
                            /\ OwnerActive(owner) \/ kept = NoTx
  PROVE  MoveStep(next, ret, tx.attempt)
  <1>1. CASE ret = "refused"
    <2>1. owner' = owner /\ tx' = kept
      BY <1>1, OwnerFollows DEF ClearIfTerminal, DeliveryInv
    <2>2. Stored(next, AckHash(owner.session, tx.attempt), ret)
      BY <1>1 DEF Stored
    <2>3. QED
      BY <1>1, <2>1, <2>2 DEF MoveStep, DeliveryInv, TypeInv, Suppresses
  <1>2. CASE ret # "refused"
    <2>1. OwnerActive(owner) /\ owner.hash = AckHash(owner.session, tx.attempt)
      BY <1>2, CasMeansActive DEF Stored, DeliveryInv
    <2>2. OwnerActive(OwnerOn(next, ret)) /\ OwnerOn(next, ret).state = next
      BY <1>2, <2>1, OwnerMoved DEF OwnerActive
    <2>3. owner' = NoOwner /\ tx' = NoTx
      BY <2>2 DEF ClearIfTerminal
    <2>4. QED
      BY <1>2, <2>1, <2>3, NothingIsTyped DEF MoveStep, Suppresses
  <1>3. QED BY <1>1, <1>2

(* Any other transition that keeps the ACK hash.                           *)
LEMMA AdvanceMoves ==
  ASSUME TypeInv, DeliveryInv, ~Suppresses,
         NEW next \in DeliveryStates, next # "ACKNOWLEDGED", ~Terminal(next), NEW ret,
         Stored(next, owner.hash, ret),
         owner' = OwnerOn(next, ret),
         tx' \in TxType, tx'.attempt = tx.attempt,
         tx'.completion = TxOn(next, ret).completion,
         OwnerActive(owner) \/ tx' = NoTx
  PROVE  MoveStep(next, ret, tx.attempt)
  <1>1. /\ tx'.completion.session \in {NoSession, owner.session}
        /\ ~ /\ tx'.completion.session # NoSession
             /\ tx'.completion.admitted
    BY TxFollows DEF DeliveryInv
  <1>2. CASE ret = "refused"
    <2>1. owner' = owner
      BY <1>2, OwnerFollows
    <2>2. Stored(next, AckHash(owner.session, tx.attempt), ret)
      BY <1>2 DEF Stored
    <2>3. QED
      BY <1>1, <1>2, <2>1, <2>2 DEF MoveStep, DeliveryInv, TypeInv, Suppresses
  <1>3. CASE ret # "refused"
    <2>1. OwnerActive(owner) /\ owner.hash = AckHash(owner.session, tx.attempt)
      BY <1>3, CasMeansActive DEF Stored, DeliveryInv
    <2>2. /\ owner' \in OwnerType /\ owner'.session = owner.session
          /\ owner'.rev = owner.rev + 1 /\ owner'.hash = owner.hash
          /\ owner'.state = next
      BY <1>3, OwnerMoved
    <2>3. QED
      BY <1>1, <1>3, <2>1, <2>2 DEF MoveStep, Suppresses, OwnerActive
  <1>4. QED BY <1>2, <1>3

-----------------------------------------------------------------------------
(* The ten actions that move the pending delivery, seen alike.             *)

PcType == [pc : Tails \union QuietPcs, then : Tails]

PcStep(next, ret, attempt) ==
  /\ task.pc \notin AdmitPcs /\ task'.pc \notin AdmitPcs /\ task'.pc \notin {"txDone", "txFailed"}
  /\ task'.pc \in SendPcs \union RetryPcs \union {"expire"} =>
       ~Terminal(next) /\ task.pc \in SendPcs \union RetryPcs
  /\ task'.pc \in SendPcs =>
       /\ ret = "ok"
       /\ \/ task.pc \in SendPcs /\ attempt = tx.attempt
          \/ task.pc = "retryTx" /\ attempt = 1
  /\ task'.pc = "send" => next = "TX_ACTIVE" /\ (card => saved' = rows')
  /\ task'.pc \in RetryPcs => task.pc = "retryWait" /\ attempt = tx.attempt
  /\ task'.pc = "await" => task.pc = "txDone" /\ owner'.state = "TX_DONE"
  /\ attempt # tx.attempt => task.pc = "retryTx" /\ attempt = 1
  /\ next \in {"TX_DONE", "AWAITING_ACK", "RETRY_WAIT"} =>
       task.pc \in {"txDone", "await", "retryWait"}

Pending(next, ret, attempt) ==
  /\ next \in DeliveryStates \ {"ACKNOWLEDGED"} /\ attempt \in {0, 1}
  /\ MoveStep(next, ret, attempt)
  /\ ~Suppresses /\ op = NoOp
  /\ task' \in PcType
  /\ PcStep(next, ret, attempt)
  /\ UNCHANGED <<radio, reply, others, used>>

PendingAction ==
  \/ ReserveRadio \/ StartRadio \/ FailBeforeRadio \/ TxDone \/ AwaitAck \/ TxFailed
  \/ TerminalizeOrphan \/ RetryWait \/ RetryTx \/ FailAckTimeout

LEMMA ToRadioIsPending ==
  ASSUME TypeInv, ControlInv, NEW pc, NEW next, NEW then, ToRadio(pc, next, then),
         \/ pc = "reserve" /\ next = "WAITING_RADIO" /\ then = "start"
         \/ pc = "start" /\ next = "TX_ACTIVE" /\ then = "send"
  PROVE  \E ret : Pending(next, ret, tx.attempt)
  <1>1. PICK ret \in SyncOutcomes :
          /\ StoreSync(next, owner.hash, ret)
          /\ owner' = OwnerOn(next, ret)
          /\ tx' = TxOn(next, ret)
          /\ Goto(IF GoOn(ret) THEN then ELSE "unsent")
    BY DEF ToRadio
  <1>2. task.pc = pc /\ UNCHANGED <<radio, reply, others, used>>
    BY DEF ToRadio, At
  <1>3. ~Suppresses /\ op = NoOp /\ OwnerActive(owner)
    BY <1>2 DEF ControlInv, PcInv, QuietPcs, SendPcs, Tails, IdlePcs
  <1>4. next \in DeliveryStates /\ next # "ACKNOWLEDGED" /\ ~Terminal(next)
    BY DEF DeliveryStates, Terminal
  <1>5. tx' \in TxType /\ tx'.attempt = tx.attempt
    BY <1>1, TxFollows DEF ControlInv, DeliveryInv
  <1>6. MoveStep(next, ret, tx.attempt)
    BY <1>1, <1>3, <1>4, <1>5, SyncStored, AdvanceMoves DEF ControlInv
  <1>7. /\ task' \in PcType
        /\ task'.pc = (IF ret = "ok" THEN then ELSE "unsent")
    BY <1>1 DEF Goto, GoOn, TypeInv, PcType, QuietPcs, SendPcs
  <1>8. ret = "ok" /\ card => saved' = rows'
    BY <1>1 DEF StoreSync, Flush, Written
  <1>9. PcStep(next, ret, tx.attempt)
    BY <1>2, <1>4, <1>7, <1>8 DEF PcStep, SendPcs, AdmitPcs, RetryPcs
  <1>10. tx.attempt \in {0, 1}
    BY DEF TypeInv, TxType
  <1>11. Pending(next, ret, tx.attempt)
    BY <1>2, <1>3, <1>4, <1>6, <1>7, <1>9, <1>10 DEF Pending
  <1>12. QED BY <1>11

(* The actions that end in ClearIfTerminal.                                *)
LEMMA FailureIsPending ==
  ASSUME TypeInv, ControlInv, ~Suppresses, op = NoOp,
         task.pc \in {"unsent", "txFailed", "expire", "orphan"},
         NEW next \in {"FAILED_QUEUE", "FAILED_RADIO", "FAILED_TIMEOUT"},
         NEW ret, NEW kept,
         StoreSync(next, owner.hash, ret),
         ClearIfTerminal(OwnerOn(next, ret), kept),
         \/ kept = TxOn(next, ret)
         \/ kept = [TxOn(next, ret) EXCEPT !.armed = TRUE] /\ OwnerActive(owner),
         task' \in [pc : Tails \union {"reconcile"}, then : Tails],
         UNCHANGED <<radio, reply, others, used>>
  PROVE  Pending(next, ret, tx.attempt)
  <1>1. next \in DeliveryStates /\ next # "ACKNOWLEDGED" /\ Terminal(next)
    BY DEF DeliveryStates, Terminal
  <1>2. tx \in TxType /\ (OwnerActive(owner) \/ tx = NoTx)
    BY DEF TypeInv, ControlInv, DeliveryInv
  <1>3. ret = "refused" => TxOn(next, ret) = tx
    BY TxFollows DEF ControlInv, DeliveryInv
  <1>4. ret = "refused" => /\ kept \in TxType /\ kept.attempt = tx.attempt
                           /\ kept.completion = tx.completion
                           /\ OwnerActive(owner) \/ kept = NoTx
    <2> SUFFICES ASSUME ret = "refused"
                 PROVE  /\ kept \in TxType /\ kept.attempt = tx.attempt
                        /\ kept.completion = tx.completion
                        /\ OwnerActive(owner) \/ kept = NoTx
      OBVIOUS
    <2>1. CASE kept = TxOn(next, ret)
      BY <1>2, <1>3, <2>1
    <2>2. CASE kept = [TxOn(next, ret) EXCEPT !.armed = TRUE] /\ OwnerActive(owner)
      <3>1. kept = [tx EXCEPT !.armed = TRUE]
        BY <1>3, <2>2
      <3>2. QED BY <1>2, <2>2, <3>1 DEF TxType
    <2>3. QED BY <2>1, <2>2
  <1>5. MoveStep(next, ret, tx.attempt)
    BY <1>1, <1>4, SyncStored, FailureMoves DEF ControlInv
  <1>6. task' \in PcType
    BY DEF PcType, QuietPcs, IdlePcs
  <1>7. PcStep(next, ret, tx.attempt)
    BY <1>1 DEF PcStep, Tails, SendPcs, AdmitPcs, RetryPcs
  <1>8. QED BY <1>1, <1>2, <1>5, <1>6, <1>7 DEF Pending, TxType

LEMMA TailIsTyped ==
  ASSUME TypeInv, Return \/ Goto("reconcile")
  PROVE  task' \in [pc : Tails \union {"reconcile"}, then : Tails]
  BY DEF TypeInv, Return, Goto, Tails

LEMMA FailuresArePending ==
  ASSUME TypeInv, ControlInv,
         FailBeforeRadio \/ TxFailed \/ TerminalizeOrphan \/ FailAckTimeout
  PROVE  \E next, ret : Pending(next, ret, tx.attempt)
  <1>1. CASE FailBeforeRadio
    <2>1. task.pc = "unsent" /\ Return /\ UNCHANGED <<radio, reply, others, used>>
      BY <1>1 DEF FailBeforeRadio, At
    <2>2. PICK next \in {"FAILED_QUEUE", "FAILED_RADIO"}, ret \in SyncOutcomes :
            /\ StoreSync(next, owner.hash, ret)
            /\ ClearIfTerminal(OwnerOn(next, ret), TxOn(next, ret))
      BY <1>1 DEF FailBeforeRadio
    <2>3. ~Suppresses /\ op = NoOp
      BY <2>1 DEF ControlInv, PcInv, QuietPcs, Tails, IdlePcs
    <2>4. Pending(next, ret, tx.attempt)
      BY <2>1, <2>2, <2>3, TailIsTyped, FailureIsPending
    <2>5. QED BY <2>4
  <1>2. CASE TxFailed
    <2>1. task.pc = "txFailed" /\ Return /\ UNCHANGED <<radio, reply, others, used>>
      BY <1>2 DEF TxFailed, At
    <2>2. PICK ret \in SyncOutcomes :
            /\ StoreSync("FAILED_RADIO", owner.hash, ret)
            /\ ClearIfTerminal(OwnerOn("FAILED_RADIO", ret), TxOn("FAILED_RADIO", ret))
      BY <1>2 DEF TxFailed
    <2>3. ~Suppresses /\ op = NoOp
      BY <2>1 DEF ControlInv, PcInv, QuietPcs, DonePcs, Tails, IdlePcs
    <2>4. Pending("FAILED_RADIO", ret, tx.attempt)
      BY <2>1, <2>2, <2>3, TailIsTyped, FailureIsPending
    <2>5. QED BY <2>4
  <1>3. CASE TerminalizeOrphan
    <2>1. /\ task.pc = "orphan" /\ Goto("reconcile") /\ ~Busy /\ Orphaned
          /\ UNCHANGED <<radio, reply, others, used>>
      BY <1>3 DEF TerminalizeOrphan, At
    <2>2. PICK next \in OrphanFailure(owner.state), ret \in SyncOutcomes :
            /\ StoreSync(next, owner.hash, ret)
            /\ ClearIfTerminal(OwnerOn(next, ret), TxOn(next, ret))
      BY <1>3 DEF TerminalizeOrphan
    <2>3. next \in {"FAILED_QUEUE", "FAILED_RADIO", "FAILED_TIMEOUT"}
      BY <2>2 DEF OrphanFailure
    <2>4. ~Suppresses /\ op = NoOp
      BY <2>1 DEF Orphaned, Busy
    <2>5. Pending(next, ret, tx.attempt)
      BY <2>1, <2>2, <2>3, <2>4, TailIsTyped, FailureIsPending
    <2>6. QED BY <2>5
  <1>4. CASE FailAckTimeout
    <2>1. task.pc = "expire" /\ Return /\ UNCHANGED <<radio, reply, others, used>>
      BY <1>4 DEF FailAckTimeout, At
    <2>2. PICK ret \in SyncOutcomes :
            /\ StoreSync("FAILED_TIMEOUT", owner.hash, ret)
            /\ ClearIfTerminal(OwnerOn("FAILED_TIMEOUT", ret),
                               [TxOn("FAILED_TIMEOUT", ret) EXCEPT !.armed = TRUE])
      BY <1>4 DEF FailAckTimeout
    <2>3. ~Suppresses /\ op = NoOp /\ OwnerActive(owner)
      BY <2>1 DEF ControlInv, PcInv, QuietPcs, Tails, IdlePcs
    <2>4. Pending("FAILED_TIMEOUT", ret, tx.attempt)
      BY <2>1, <2>2, <2>3, TailIsTyped, FailureIsPending
    <2>5. QED BY <2>4
  <1>5. QED BY <1>1, <1>2, <1>3, <1>4

(* After the radio: the deferred transitions.                              *)
LEMMA RadioDoneIsPending ==
  ASSUME TypeInv, ControlInv, TxDone \/ AwaitAck
  PROVE  \E next, ret : Pending(next, ret, tx.attempt)
  <1>1. tx \in TxType /\ tx.attempt \in {0, 1} /\ tx.armed \in BOOLEAN
    BY DEF TypeInv, TxType
  <1>2. UNCHANGED <<radio, reply, others, used>> /\ task.pc \in {"txDone", "await"}
    BY DEF TxDone, AwaitAck, At
  <1>3. ~Suppresses /\ op = NoOp /\ OwnerActive(owner)
    BY <1>2 DEF ControlInv, PcInv, QuietPcs, DonePcs, Tails, IdlePcs
  <1>4. CASE TxDone
    <2>1. PICK ret \in DeferredOutcomes :
            /\ StoreDeferred("TX_DONE", ret)
            /\ owner' = OwnerOn("TX_DONE", ret)
            /\ tx' = TxOn("TX_DONE", ret)
            /\ IF owner'.state = "TX_DONE" THEN Goto("await") ELSE Return
      BY <1>4 DEF TxDone
    <2>2. "TX_DONE" \in DeliveryStates /\ ~Terminal("TX_DONE")
      BY DEF DeliveryStates, Terminal
    <2>3. Stored("TX_DONE", owner.hash, ret)
      BY <2>1, DeferredStored
    <2>4. tx' \in TxType /\ tx'.attempt = tx.attempt
      BY <2>1, TxFollows DEF ControlInv, DeliveryInv
    <2>5. MoveStep("TX_DONE", ret, tx.attempt)
      BY <1>3, <2>1, <2>2, <2>3, <2>4, AdvanceMoves DEF ControlInv
    <2>6. task.pc = "txDone" /\ task' \in PcType
      BY <1>4, <2>1 DEF TxDone, At, Goto, Return, TypeInv, PcType, QuietPcs, DonePcs, Tails
    <2>7. \/ task'.pc = "await" /\ owner'.state = "TX_DONE"
          \/ task'.pc \in Tails
      BY <2>1 DEF Goto, Return, TypeInv
    <2>8. PcStep("TX_DONE", ret, tx.attempt)
      BY <2>6, <2>7 DEF PcStep, Tails, SendPcs, AdmitPcs, RetryPcs
    <2>9. Pending("TX_DONE", ret, tx.attempt)
      BY <1>1, <1>2, <1>3, <2>2, <2>5, <2>6, <2>8 DEF Pending
    <2>10. QED BY <2>9
  <1>5. CASE AwaitAck
    <2>1. PICK ret \in DeferredOutcomes :
            /\ StoreDeferred("AWAITING_ACK", ret)
            /\ owner' = OwnerOn("AWAITING_ACK", ret)
            /\ tx' = [TxOn("AWAITING_ACK", ret) EXCEPT !.armed = @ \/ Arms(owner')]
      BY <1>5 DEF AwaitAck
    <2>2. "AWAITING_ACK" \in DeliveryStates /\ ~Terminal("AWAITING_ACK")
      BY DEF DeliveryStates, Terminal
    <2>3. Stored("AWAITING_ACK", owner.hash, ret)
      BY <2>1, DeferredStored
    <2>4. /\ TxOn("AWAITING_ACK", ret) \in TxType
          /\ TxOn("AWAITING_ACK", ret).attempt = tx.attempt
      BY TxFollows DEF ControlInv, DeliveryInv
    <2>5. /\ tx' \in TxType /\ tx'.attempt = tx.attempt
          /\ tx'.completion = TxOn("AWAITING_ACK", ret).completion
      BY <2>1, <2>4 DEF TxType
    <2>6. MoveStep("AWAITING_ACK", ret, tx.attempt)
      BY <1>3, <2>1, <2>2, <2>3, <2>5, AdvanceMoves DEF ControlInv
    <2>7. task.pc = "await" /\ task' \in PcType /\ task'.pc \in Tails
      BY <1>5 DEF AwaitAck, At, Return, TypeInv, PcType, Tails
    <2>8. PcStep("AWAITING_ACK", ret, tx.attempt)
      BY <2>7 DEF PcStep, Tails, SendPcs, AdmitPcs, RetryPcs
    <2>9. Pending("AWAITING_ACK", ret, tx.attempt)
      BY <1>1, <1>2, <1>3, <2>2, <2>6, <2>7, <2>8 DEF Pending
    <2>10. QED BY <2>9
  <1>6. QED BY <1>4, <1>5

(* The flood retry: the second attempt changes the ACK hash.               *)
LEMMA RetryWaitIsPending ==
  ASSUME TypeInv, ControlInv, RetryWait
  PROVE  \E next, ret : Pending(next, ret, tx.attempt)
  <1>1. task.pc = "retryWait" /\ UNCHANGED <<radio, reply, others, used>>
    BY DEF RetryWait, At
  <1>2. ~Suppresses /\ op = NoOp /\ OwnerActive(owner) /\ tx.attempt \in {0, 1}
    BY <1>1 DEF ControlInv, PcInv, QuietPcs, RetryPcs, Tails, IdlePcs, TypeInv, TxType
  <1>3. PICK ret \in SyncOutcomes :
          /\ StoreSync("RETRY_WAIT", owner.hash, ret)
          /\ owner' = OwnerOn("RETRY_WAIT", ret)
          /\ tx' = TxOn("RETRY_WAIT", ret)
          /\ Goto(IF ret = "ok" THEN "retryTx" ELSE "expire")
    BY DEF RetryWait
  <1>4. "RETRY_WAIT" \in DeliveryStates /\ ~Terminal("RETRY_WAIT")
    BY DEF DeliveryStates, Terminal
  <1>5. tx' \in TxType /\ tx'.attempt = tx.attempt
    BY <1>3, TxFollows DEF ControlInv, DeliveryInv
  <1>6. MoveStep("RETRY_WAIT", ret, tx.attempt)
    BY <1>2, <1>3, <1>4, <1>5, SyncStored, AdvanceMoves DEF ControlInv
  <1>7. task' \in PcType /\ task'.pc \in {"retryTx", "expire"}
    BY <1>3 DEF Goto, TypeInv, PcType, QuietPcs, RetryPcs
  <1>8. PcStep("RETRY_WAIT", ret, tx.attempt)
    BY <1>1, <1>4, <1>7 DEF PcStep, SendPcs, AdmitPcs, RetryPcs
  <1>9. Pending("RETRY_WAIT", ret, tx.attempt)
    BY <1>1, <1>2, <1>4, <1>6, <1>7, <1>8 DEF Pending
  <1>10. QED BY <1>9

LEMMA RetryTxIsPending ==
  ASSUME TypeInv, ControlInv, RetryTx
  PROVE  \E next, ret : Pending(next, ret, 1)
  <1> DEFINE hash == AckHash(owner.session, 1)
  <1>1. task.pc = "retryTx" /\ UNCHANGED <<radio, reply, others, used>>
    BY DEF RetryTx, At
  <1>2. ~Suppresses /\ op = NoOp /\ OwnerActive(owner) /\ tx \in TxType
    BY <1>1 DEF ControlInv, PcInv, QuietPcs, RetryPcs, Tails, IdlePcs, TypeInv
  <1>3. PICK ret \in SyncOutcomes :
          /\ StoreSync("RETRY_TX", hash, ret)
          /\ owner' = IF Publishes(ret)
                      THEN [OwnerOn("RETRY_TX", ret) EXCEPT !.hash = hash]
                      ELSE owner
          /\ tx' = SecondAttempt(ret)
          /\ Goto(CASE ret = "ok" -> "reserve"
                    [] ret = "unsaved" -> "unsent"
                    [] OTHER -> "expire")
    BY DEF RetryTx
  <1>4. "RETRY_TX" \in DeliveryStates /\ ~Terminal("RETRY_TX")
    BY DEF DeliveryStates, Terminal
  <1>5. /\ tx' \in TxType /\ tx'.completion = tx.completion
        /\ tx'.attempt = IF ret = "refused" THEN tx.attempt ELSE 1
    BY <1>2, <1>3 DEF SecondAttempt, TxType, SyncOutcomes
  <1>6. Stored("RETRY_TX", hash, ret)
    BY <1>3, SyncStored
  <1>7. tx'.completion.session \in {NoSession, owner.session} /\ ~Suppresses'
    BY <1>2, <1>5 DEF ControlInv, DeliveryInv, Suppresses
  <1>8. MoveStep("RETRY_TX", ret, 1)
    <2>1. CASE ret = "refused"
      BY <1>2, <1>3, <1>5, <1>6, <1>7, <2>1 DEF MoveStep, Publishes, TypeInv
    <2>2. CASE ret # "refused"
      <3>1. hash \in AckHashes
        BY <1>2, HashIsHash DEF TypeInv, OwnerType, OwnerActive
      <3> HIDE DEF hash
      <3>2. owner' = [OwnerOn("RETRY_TX", ret) EXCEPT !.hash = hash]
        BY <1>3, <2>2 DEF Publishes
      <3>3. /\ owner' \in OwnerType
            /\ owner'.session = owner.session /\ owner'.rev = owner.rev + 1
            /\ owner'.hash = hash /\ owner'.state = "RETRY_TX"
        BY <1>4, <1>6, <2>2, <3>1, <3>2, OwnerMoved DEF OwnerType
      <3>4. QED
        BY <1>2, <1>4, <1>5, <1>6, <1>7, <2>2, <3>3 DEF MoveStep, OwnerActive, hash
    <2>3. QED BY <2>1, <2>2
  <1>9. /\ task' \in PcType
        /\ \/ task'.pc = "reserve" /\ ret = "ok"
           \/ task'.pc \in {"unsent", "expire"}
    BY <1>3 DEF Goto, SyncOutcomes, TypeInv, PcType, QuietPcs, SendPcs
  <1>10. PcStep("RETRY_TX", ret, 1)
    BY <1>1, <1>4, <1>9 DEF PcStep, SendPcs, AdmitPcs, RetryPcs
  <1>11. Pending("RETRY_TX", ret, 1)
    BY <1>1, <1>2, <1>4, <1>8, <1>9, <1>10 DEF Pending
  <1>12. QED BY <1>11

LEMMA ActionIsPending ==
  ASSUME TypeInv, ControlInv, PendingAction
  PROVE  \E next, ret, attempt : Pending(next, ret, attempt)
  <1>1. CASE ReserveRadio
    BY <1>1, ToRadioIsPending DEF ReserveRadio
  <1>2. CASE StartRadio
    BY <1>2, ToRadioIsPending DEF StartRadio
  <1>3. CASE FailBeforeRadio \/ TxFailed \/ TerminalizeOrphan \/ FailAckTimeout
    BY <1>3, FailuresArePending
  <1>4. CASE TxDone \/ AwaitAck
    BY <1>4, RadioDoneIsPending
  <1>5. CASE RetryWait
    BY <1>5, RetryWaitIsPending
  <1>6. CASE RetryTx
    BY <1>6, RetryTxIsPending
  <1>7. QED BY <1>1, <1>2, <1>3, <1>4, <1>5, <1>6 DEF PendingAction

-----------------------------------------------------------------------------
(* Types.                                                                  *)

LEMMA SessionSpent ==
  ASSUME TypeInv, Spend("sessions", MaxSessions)
  PROVE  /\ used' \in UsedType /\ used'.ops = used.ops
         /\ used'.sessions = used.sessions + 1 /\ used'.sessions \in Sessions
  <1> DEFINE n == used.sessions + 1
  <1>1. used \in UsedType /\ n \in 0 .. MaxSessions /\ n \in Sessions
    BY RuntimeBoundsAssumption DEF TypeInv, UsedType, Spend, Sessions
  <1>2. used' = [used EXCEPT !.sessions = n]
    BY DEF Spend
  <1> HIDE DEF n
  <1>3. used' \in UsedType /\ used'.ops = used.ops /\ used'.sessions = n
    BY <1>1, <1>2 DEF UsedType
  <1>4. QED BY <1>1, <1>3 DEF n

LEMMA OperationSpent ==
  ASSUME TypeInv, used' = [used EXCEPT !.ops = @ + 1]
  PROVE  /\ used' \in UsedType /\ used'.sessions = used.sessions
         /\ used'.ops = used.ops + 1
  <1> DEFINE n == used.ops + 1
  <1>1. used \in UsedType /\ n \in Nat
    BY DEF TypeInv, UsedType
  <1>2. used' = [used EXCEPT !.ops = n]
    OBVIOUS
  <1> HIDE DEF n
  <1>3. used' \in UsedType /\ used'.ops = n /\ used'.sessions = used.sessions
    BY <1>1, <1>2 DEF UsedType
  <1>4. QED BY <1>3 DEF n

LEMMA OtherSpent ==
  ASSUME TypeInv, NEW what \in {"radio", "replies", "crashes", "clears"}, NEW bound,
         Spend(what, bound)
  PROVE  /\ used' \in UsedType
         /\ used'.sessions = used.sessions /\ used'.ops = used.ops
  <1> DEFINE n == used[what] + 1
  <1>1. used \in UsedType /\ n \in Nat
    BY DEF TypeInv, UsedType
  <1>2. used' = [used EXCEPT ![what] = n]
    BY DEF Spend
  <1> HIDE DEF n
  <1>3. QED BY <1>1, <1>2 DEF UsedType

(* The steps that move neither rows, delivery nor radio.                   *)
Waits ==
  \/ IdlePoll \/ BusQuiet \/ WatchdogNotDue \/ WatchdogRefused \/ MaintenanceCut
  \/ NoOrphan \/ NothingToReconcile \/ DeadlineNotDue
  \/ RxMessage \/ ReplyNotSent

LEMMA WaitsKeep ==
  ASSUME TypeInv, ControlInv, Waits
  PROVE  /\ UNCHANGED <<store, delivery, radio, others>>
         /\ used' \in UsedType /\ used'.sessions = used.sessions /\ used'.ops = used.ops
         /\ task' \in PcType /\ task'.pc \in Tails \union IdlePcs
         /\ task'.pc \in IdlePcs => op = NoOp
  <1>1. UNCHANGED <<store, delivery, radio, others>>
    BY DEF Waits, IdlePoll, BusQuiet, WatchdogNotDue, WatchdogRefused, MaintenanceCut,
           NoOrphan, NothingToReconcile, DeadlineNotDue, WatchdogRearms, radio,
           RxMessage, ReplyNotSent
  <1>2. /\ task' \in PcType /\ task'.pc \in Tails \union IdlePcs
        /\ task'.pc \in IdlePcs => task.pc = "reconcile" \/ op = NoOp
    BY DEF Waits, IdlePoll, BusQuiet, WatchdogNotDue, WatchdogRefused, MaintenanceCut,
           NoOrphan, NothingToReconcile, DeadlineNotDue, RxMessage, ReplyNotSent,
           Busy, At, Goto, TypeInv, PcType, Tails, IdlePcs, QuietPcs
  <1>3. used' \in UsedType /\ used'.sessions = used.sessions /\ used'.ops = used.ops
    BY OtherSpent
       DEF Waits, IdlePoll, BusQuiet, WatchdogNotDue, WatchdogRefused, MaintenanceCut,
           NoOrphan, NothingToReconcile, DeadlineNotDue, RxMessage, ReplyNotSent, TypeInv
  <1>4. QED BY <1>1, <1>2, <1>3 DEF ControlInv, PcInv, QuietPcs, IdlePcs

(* The end of an operation, from the terminal, the watchdog or the bus.    *)
EndsOperation ==
  \/ TakeTerminal \/ BusFault \/ WatchdogRecovers

LEMMA EndKeeps ==
  ASSUME TypeInv, ControlInv, EndsOperation
  PROVE  /\ UNCHANGED <<store, delivery, others>>
         /\ used' \in UsedType /\ used'.sessions = used.sessions /\ used'.ops = used.ops
         /\ task' \in PcType
         /\ air' \in {air, NoOp} /\ latched' \subseteq latched
         /\ \/ op' = op /\ task'.pc \in Tails
            \/ op' = NoOp /\ task'.pc \in Tails
            \/ /\ op' = NoOp /\ task'.pc \in {"txDone", "txFailed"}
               /\ op.kind = "DM" /\ TerminalMatches(op)
  <1>0. used \in UsedType
    BY DEF TypeInv
  <1>1. ASSUME NEW kind, NEW then \in Tails, EndOperation(kind, then)
        PROVE  /\ task' \in PcType /\ op' = NoOp
               /\ \/ task'.pc \in Tails
                  \/ task'.pc \in {"txDone", "txFailed"} /\ op.kind = "DM"
    BY <1>1 DEF EndOperation, OperationClears, Call, PcType, Tails, QuietPcs, DonePcs
  <1>2. CASE TakeTerminal
    <2>1. /\ latched' = {} /\ UNCHANGED <<store, delivery, air, others, used>>
      BY <1>2 DEF TakeTerminal
    <2>2. \/ \E kind, operation : TerminalMatches(operation) /\ EndOperation(kind, "bus")
          \/ Goto("bus") /\ UNCHANGED op
      BY <1>2 DEF TakeTerminal
    <2>3. CASE Goto("bus") /\ UNCHANGED op
      BY <1>0, <2>1, <2>3 DEF Goto, TypeInv, PcType, Tails
    <2>4. CASE \E kind, operation : TerminalMatches(operation) /\ EndOperation(kind, "bus")
      BY <1>0, <1>1, <2>1, <2>4 DEF TerminalMatches, Tails
    <2>5. QED BY <2>2, <2>3, <2>4
  <1>3. CASE BusFault
    <2>1. /\ TerminalMatches(op) /\ EndOperation("timeout", "watchdog")
          /\ UNCHANGED <<store, delivery, air, latched, others>>
          /\ Spend("radio", MaxRadioFaults)
      BY <1>3 DEF BusFault
    <2>2. QED BY <1>1, <2>1, OtherSpent DEF Tails
  <1>4. CASE WatchdogRecovers
    <2>1. /\ TerminalMatches(op) /\ EndOperation("timeout", "orphan") /\ air' = NoOp
          /\ UNCHANGED <<store, delivery, latched, others, used>>
      BY <1>4 DEF WatchdogRecovers
    <2>2. QED BY <1>0, <1>1, <2>1 DEF Tails
  <1>5. QED BY <1>2, <1>3, <1>4 DEF EndsOperation

(* The row of a new message.                                               *)
NewRow(r, s) ==
  /\ r \in RowType /\ r.id = s /\ r.st = "QUEUED" /\ r.rev = 1
  /\ r.hash = AckHash(s, 0)

LEMMA SendDmKeeps ==
  ASSUME TypeInv, HandleSendDm
  PROVE  /\ used' \in UsedType /\ used'.ops = used.ops
         /\ used'.sessions = used.sessions + 1 /\ used'.sessions \in Sessions
         /\ \E r : NewRow(r, used'.sessions) /\ rows' = rows \union {r}
         /\ Saves
         /\ task' \in PcType /\ task'.pc \in AdmitPcs
         /\ ~OwnerActive(owner) /\ op = NoOp
         /\ live' \in {live, live \union {used'.sessions}}
         /\ ~card => live' = live \union {used'.sessions}
         /\ UNCHANGED <<delivery, radio, reply, card, sent, credits, cleared, boot>>
  <1>1. /\ used' \in UsedType /\ used'.ops = used.ops
        /\ used'.sessions = used.sessions + 1 /\ used'.sessions \in Sessions
    BY SessionSpent DEF HandleSendDm
  <1> DEFINE s == used'.sessions
             hash == AckHash(s, 0)
             r == [TxRow(s, s) EXCEPT !.hash = hash]
  <1>2. rows' = rows \union {r}
    BY DEF HandleSendDm
  <1>3. hash \in AckHashes /\ s \in Sessions
    BY <1>1, HashIsHash
  <1>4. NewRow(r, s)
    <2> HIDE DEF s, hash
    <2>1. /\ r \in RowType /\ r.id = s /\ r.st = "QUEUED" /\ r.rev = 1
          /\ r.hash = hash
      BY <1>3 DEF TxRow, RowType, DeliveryStates
    <2>2. QED BY <2>1 DEF NewRow, hash
  <1>5. PICK ok \in BOOLEAN : Flush(ok) /\ Call(IF ok THEN "begin" ELSE "detach", "bus")
    BY DEF HandleSendDm
  <1>6. Saves
    BY <1>5, FlushSaves DEF TypeInv
  <1>7. task' \in PcType /\ task'.pc \in AdmitPcs
    BY <1>5 DEF Call, PcType, QuietPcs, AdmitPcs, Tails
  <1>8. /\ ~OwnerActive(owner) /\ op = NoOp
        /\ live' \in {live, live \union {used'.sessions}}
        /\ ~card => live' = live \union {used'.sessions}
        /\ UNCHANGED <<delivery, radio, reply, card, sent, credits, cleared, boot>>
    BY DEF HandleSendDm, Busy
  <1>9. (\E q : NewRow(q, s) /\ rows' = rows \union {q})
    BY <1>2, <1>4
  <1>10. QED BY <1>1, <1>6, <1>7, <1>8, <1>9

(* The detached row fails; every other row stays.                          *)
FailedRow(q, r) ==
  /\ q \in RowType /\ q.id = r.id /\ q.st = "FAILED_QUEUE"

LEMMA DetachKeeps ==
  ASSUME TypeInv, RecordDetachedFailure
  PROVE  /\ \A q \in rows' : \/ q \in rows /\ ~Detached(q)
                             \/ \E r \in rows : Detached(r) /\ FailedRow(q, r)
         /\ \A r \in rows : \/ r \in rows' /\ ~Detached(r)
                            \/ Detached(r) /\ \E q \in rows' : FailedRow(q, r)
         /\ Saves
         /\ task.pc = "detach" /\ task' \in PcType /\ task'.pc \in Tails
         /\ UNCHANGED <<delivery, radio, reply, others, used>>
  <1> DEFINE failed(r) == [r EXCEPT !.st = "FAILED_QUEUE", !.rev = 2]
  <1>1. \A r \in rows : FailedRow(failed(r), r)
    BY DEF FailedRow, TypeInv, RowType, DeliveryStates
  <1>2. \/ rows' = {IF Detached(r) THEN failed(r) ELSE r : r \in rows}
        \/ rows' = rows /\ ~\E r \in rows : Detached(r)
    BY DEF RecordDetachedFailure, store
  <1> HIDE DEF failed
  <1>3. /\ \A q \in rows' : \/ q \in rows /\ ~Detached(q)
                            \/ \E r \in rows : Detached(r) /\ FailedRow(q, r)
        /\ \A r \in rows : \/ r \in rows' /\ ~Detached(r)
                           \/ Detached(r) /\ \E q \in rows' : FailedRow(q, r)
    BY <1>1, <1>2
  <1>4. Saves
    BY FlushSaves DEF RecordDetachedFailure, store, Saves, TypeInv
  <1>5. /\ task.pc = "detach" /\ task' \in PcType /\ task'.pc \in Tails
        /\ UNCHANGED <<delivery, radio, reply, others, used>>
    BY DEF RecordDetachedFailure, At, Return, TypeInv, PcType, Tails
  <1>6. QED BY <1>3, <1>4, <1>5

LEMMA BeginKeeps ==
  ASSUME TypeInv, ControlInv, BeginPending
  PROVE  /\ owner' \in OwnerType /\ owner'.session = used.sessions /\ owner'.rev = 1
         /\ owner'.hash = AckHash(used.sessions, 0) /\ owner'.state = "QUEUED"
         /\ OwnerActive(owner')
         /\ tx' \in TxType /\ tx'.attempt = 0 /\ tx'.completion.session = NoSession
         /\ task.pc = "begin" /\ task' \in PcType /\ task'.pc = "reserve"
         /\ UNCHANGED <<store, radio, reply, others, used>>
  <1>1. /\ task.pc = "begin" /\ task' \in PcType /\ task'.pc = "reserve"
        /\ UNCHANGED <<store, radio, reply, others, used>>
    BY DEF BeginPending, At, Goto, TypeInv, PcType, QuietPcs, SendPcs
  <1>2. used.sessions \in Sessions /\ used.sessions # 0
    BY <1>1 DEF ControlInv, PcInv, AdmitPcs, TypeInv, UsedType, Sessions
  <1>3. AckHash(used.sessions, 0) \in AckHashes
    BY <1>2, HashIsHash
  <1>4. /\ owner' \in OwnerType /\ owner'.session = used.sessions /\ owner'.rev = 1
        /\ owner'.hash = AckHash(used.sessions, 0) /\ owner'.state = "QUEUED"
    BY <1>2, <1>3 DEF BeginPending, OwnerBegin, OwnerType, DeliveryStates
  <1>5. /\ tx' \in TxType /\ tx'.attempt = 0 /\ tx'.completion.session = NoSession
    BY NothingIsTyped DEF BeginPending, TxType
  <1>6. QED BY <1>1, <1>2, <1>4, <1>5 DEF OwnerActive, NoSession

LEMMA SendKeeps ==
  ASSUME TypeInv, ControlInv, Send
  PROVE  /\ used' \in UsedType /\ used'.sessions = used.sessions
         /\ used'.ops = used.ops + 1
         /\ op' \in OperationType /\ op'.id = used'.ops /\ op'.kind = "DM"
         /\ op'.session = owner.session /\ op'.rev = owner.rev
         /\ air' = op'
         /\ owner.hash \in AckHashes /\ sent' = [sent EXCEPT ![owner.hash] = @ + 1]
         /\ OwnerActive(owner) /\ owner.state = "TX_ACTIVE"
         /\ task.pc = "send" /\ task' \in PcType /\ task'.pc \in Tails
         /\ UNCHANGED <<store, delivery, latched, reply, card, credits, cleared, boot, live>>
  <1>1. used' = [used EXCEPT !.ops = @ + 1]
    BY DEF Send
  <1>2. /\ used' \in UsedType /\ used'.sessions = used.sessions
        /\ used'.ops = used.ops + 1 /\ used'.ops \in Nat
    BY <1>1, OperationSpent DEF UsedType, TypeInv
  <1>3. task.pc = "send" /\ task' \in PcType /\ task'.pc \in Tails
    BY DEF Send, At, Return, TypeInv, PcType, Tails
  <1>4. OwnerActive(owner) /\ owner.state = "TX_ACTIVE"
    BY <1>3 DEF ControlInv, PcInv, SendPcs
  <1>5. owner.hash \in AckHashes
    BY <1>4, HashIsHash DEF ControlInv, DeliveryInv, TypeInv, OwnerType, OwnerActive, TxType
  <1>6. /\ op' = [id |-> used'.ops, kind |-> "DM", session |-> owner.session,
                  rev |-> owner.rev]
        /\ air' = op' /\ sent' = [sent EXCEPT ![owner.hash] = @ + 1]
        /\ UNCHANGED <<store, delivery, latched, reply, card, credits, cleared, boot, live>>
    BY DEF Send, OperationBegins
  <1>7. /\ op' \in OperationType /\ op'.id = used'.ops /\ op'.kind = "DM"
        /\ op'.session = owner.session /\ op'.rev = owner.rev
    BY <1>2, <1>6 DEF OperationType, TypeInv, OwnerType
  <1>8. QED BY <1>2, <1>3, <1>4, <1>5, <1>6, <1>7

LEMMA RxAckKeeps ==
  ASSUME TypeInv, ControlInv, NEW hash \in AckHashes, RxAck(hash)
  PROVE  /\ OwnerActive(owner) /\ owner.state = "AWAITING_ACK" /\ ~Suppresses
         /\ task.pc = "loop" /\ task' \in PcType /\ task'.pc = "bus"
         /\ tx' \in TxType /\ tx'.attempt = tx.attempt
         /\ tx'.completion.session \in {NoSession, owner.session}
         /\ UNCHANGED <<saved, owner, radio, reply, others, used>>
         /\ \/ UNCHANGED <<rows, mask>> /\ ~Suppresses'
            \/ /\ CasHolds("ACKNOWLEDGED") /\ rows' = Moved("ACKNOWLEDGED", owner.hash)
               /\ mask' = mask \union {owner.session}
               /\ Suppresses' /\ tx'.ackPending
  <1>1. /\ OwnerActive(owner) /\ owner.state = "AWAITING_ACK" /\ ~Suppresses
        /\ task.pc = "loop" /\ UNCHANGED <<owner, radio, reply, others, used>>
        /\ owner.hash = hash /\ tx.completion.session = owner.session
    BY DEF RxAck, Ready, At, OwnerAckMatches
  <1>2. task' \in PcType /\ task'.pc = "bus"
    BY DEF RxAck, Goto, TypeInv, PcType, Tails
  <1> DEFINE receipt == [session |-> owner.session, base |-> owner.rev, hash |-> hash]
             accepted == [tx EXCEPT !.completion.admitted = TRUE, !.ackPending = TRUE,
                                    !.receipt = receipt]
             dropped == [tx EXCEPT !.receipt = NoReceipt]
  <1>3. PICK ret \in DeferredOutcomes :
          /\ StoreDeferred("ACKNOWLEDGED", ret)
          /\ tx' = IF ret = "ok" THEN accepted ELSE dropped
    BY DEF RxAck
  <1>4. receipt \in ReceiptType
    BY DEF ReceiptType, TypeInv, OwnerType
  <1>5. /\ accepted \in TxType /\ accepted.attempt = tx.attempt
        /\ accepted.completion.session = tx.completion.session
        /\ accepted.completion.admitted /\ accepted.ackPending
    <2> HIDE DEF receipt
    <2>1. tx.completion \in CompletionType /\ tx \in TxType
      BY DEF TypeInv, TxType
    <2> DEFINE c == [tx.completion EXCEPT !.admitted = TRUE]
    <2>2. c \in CompletionType /\ c.session = tx.completion.session /\ c.admitted
      BY <2>1 DEF CompletionType
    <2> HIDE DEF c
    <2>3. LET a == [tx EXCEPT !.completion = c, !.ackPending = TRUE, !.receipt = receipt]
          IN /\ a \in TxType /\ a.attempt = tx.attempt /\ a.completion = c
             /\ a.ackPending
      BY <1>4, <2>1, <2>2 DEF TxType
    <2>4. accepted = [tx EXCEPT !.completion = c, !.ackPending = TRUE, !.receipt = receipt]
      BY DEF c
    <2>5. QED BY <2>2, <2>3, <2>4
  <1>6. /\ dropped \in TxType /\ dropped.attempt = tx.attempt
        /\ dropped.completion = tx.completion
    BY DEF TypeInv, TxType, ReceiptType, NoReceipt
  <1>7. saved' = saved
    BY <1>3 DEF StoreDeferred
  <1> HIDE DEF accepted, dropped
  <1>8. CASE ret = "refused"
    <2>1. UNCHANGED <<rows, mask>> /\ tx' = dropped
      BY <1>3, <1>8 DEF StoreDeferred
    <2>2. QED BY <1>1, <1>2, <1>6, <1>7, <2>1 DEF Suppresses
  <1>9. CASE ret = "ok"
    <2>1. /\ CasHolds("ACKNOWLEDGED") /\ rows' = Moved("ACKNOWLEDGED", owner.hash)
          /\ mask' = mask \union {owner.session} /\ tx' = accepted
      BY <1>3, <1>9 DEF StoreDeferred
    <2>2. QED BY <1>1, <1>2, <1>5, <1>7, <2>1 DEF Suppresses, OwnerActive
  <1>10. QED BY <1>3, <1>8, <1>9 DEF DeferredOutcomes

LEMMA DeadlineKeeps ==
  ASSUME TypeInv, ControlInv, DeadlineFails \/ RetryAsFlood
  PROVE  /\ UNCHANGED <<store, owner, radio, reply, others>>
         /\ used' \in UsedType /\ used'.sessions = used.sessions /\ used'.ops = used.ops
         /\ OwnerActive(owner) /\ owner.state = "AWAITING_ACK" /\ ~Suppresses
         /\ op = NoOp
         /\ tx' \in TxType /\ tx'.attempt = tx.attempt /\ tx'.completion = tx.completion
         /\ task' \in PcType
         /\ task'.pc = "expire" \/ (task'.pc = "retryWait" /\ tx.attempt = 0)
  <1>1. task.pc = "deadline" /\ owner.state = "AWAITING_ACK" /\ ~Suppresses
    BY DEF DeadlineFails, RetryAsFlood, DeadlineDue, At
  <1>2. OwnerActive(owner) /\ op = NoOp
    BY <1>1 DEF ControlInv, PcInv, DeliveryInv, QuietPcs, IdlePcs, NoOwner
  <1>3. /\ tx' \in TxType /\ tx'.attempt = tx.attempt /\ tx'.completion = tx.completion
    BY DEF DeadlineFails, RetryAsFlood, TypeInv, TxType
  <1>4. used' \in UsedType /\ used'.sessions = used.sessions /\ used'.ops = used.ops
    BY OtherSpent DEF DeadlineFails, RetryAsFlood, TypeInv
  <1>5. /\ task' \in PcType
        /\ task'.pc = "expire" \/ (task'.pc = "retryWait" /\ tx.attempt = 0)
    BY DEF DeadlineFails, RetryAsFlood, RetryAllowed, Call, PcType, QuietPcs, RetryPcs, Tails
  <1>6. UNCHANGED <<store, owner, radio, reply, others>>
    BY DEF DeadlineFails, RetryAsFlood
  <1>7. QED BY <1>1, <1>2, <1>3, <1>4, <1>5, <1>6

LEMMA CrashKeeps ==
  ASSUME TypeInv, Crash
  PROVE  /\ used' \in UsedType /\ used'.sessions = used.sessions /\ used'.ops = used.ops
         /\ rows' \subseteq RowType
         /\ \A q \in rows' : \E r \in saved :
              q.id = r.id /\ (q.st = "ACKNOWLEDGED" => r.st = "ACKNOWLEDGED")
         /\ mask' = {} /\ task' \in PcType /\ task'.pc = "loop"
         /\ owner' = NoOwner /\ tx' = NoTx /\ op' = NoOp /\ air' = NoOp
         /\ latched' = {} /\ boot' = used.sessions /\ card' \in BOOLEAN
         /\ IF card' THEN rows' = {NormalizedDelivery(r) : r \in saved} ELSE rows' = {}
         /\ UNCHANGED <<saved, sent, credits, cleared, live>>
  <1>1. rows' = IF card' THEN {NormalizedDelivery(r) : r \in saved} ELSE {}
    BY DEF Crash
  <1>2. ASSUME NEW r \in RowType
        PROVE  /\ NormalizedDelivery(r) \in RowType /\ NormalizedDelivery(r).id = r.id
               /\ NormalizedDelivery(r).st = "ACKNOWLEDGED" => r.st = "ACKNOWLEDGED"
    <2> DEFINE rev == r.rev + 1
    <2>1. rev \in Nat
      BY DEF RowType
    <2>2. NormalizedDelivery(r) = r
            \/ NormalizedDelivery(r) = [r EXCEPT !.st = "INTERRUPTED_BY_REBOOT", !.rev = rev]
      BY DEF NormalizedDelivery
    <2> HIDE DEF rev
    <2>3. LET q == [r EXCEPT !.st = "INTERRUPTED_BY_REBOOT", !.rev = rev]
          IN q \in RowType /\ q.id = r.id /\ q.st = "INTERRUPTED_BY_REBOOT"
      BY <2>1 DEF RowType, DeliveryStates
    <2>4. QED BY <2>2, <2>3
  <1>3. /\ rows' \subseteq RowType
        /\ \A q \in rows' : \E r \in saved :
             q.id = r.id /\ (q.st = "ACKNOWLEDGED" => r.st = "ACKNOWLEDGED")
    BY <1>1, <1>2 DEF TypeInv
  <1>4. used' \in UsedType /\ used'.sessions = used.sessions /\ used'.ops = used.ops
    BY OtherSpent DEF Crash
  <1>5. QED BY <1>3, <1>4 DEF Crash, PcType, Tails

LEMMA NotStartedKeeps ==
  ASSUME TypeInv, RadioNotStarted
  PROVE  /\ UNCHANGED <<store, delivery, radio, others>>
         /\ used' \in UsedType /\ used'.sessions = used.sessions /\ used'.ops = used.ops
         /\ task.pc = "begin" /\ task' \in PcType /\ task'.pc = "detach"
  BY OtherSpent DEF RadioNotStarted, At, Goto, TypeInv, PcType, QuietPcs, AdmitPcs

LEMMA ReplyKeeps ==
  ASSUME TypeInv, SendReply
  PROVE  /\ used' \in UsedType /\ used'.sessions = used.sessions
         /\ used'.ops = used.ops + 1
         /\ op' \in OperationType /\ op'.id = used'.ops /\ op'.kind = "ACK"
         /\ air' = op' /\ op = NoOp
         /\ task.pc = "loop" /\ task' \in PcType /\ task'.pc = "bus"
         /\ UNCHANGED <<store, delivery, latched, others>>
  <1>1. used' = [used EXCEPT !.ops = @ + 1]
    BY DEF SendReply
  <1>2. /\ used' \in UsedType /\ used'.sessions = used.sessions
        /\ used'.ops = used.ops + 1 /\ used'.ops \in Nat
    BY <1>1, OperationSpent DEF UsedType, TypeInv
  <1>3. op' = [NoOp EXCEPT !.id = used'.ops, !.kind = "ACK"] /\ air' = op'
    BY DEF SendReply, OperationBegins
  <1>4. op' \in OperationType /\ op'.id = used'.ops /\ op'.kind = "ACK"
    BY <1>2, <1>3, NothingIsTyped DEF OperationType
  <1>5. /\ op = NoOp /\ task.pc = "loop" /\ task' \in PcType /\ task'.pc = "bus"
        /\ UNCHANGED <<store, delivery, latched, others>>
    BY DEF SendReply, OperationBegins, Busy, At, Goto, TypeInv, PcType, Tails
  <1>6. QED BY <1>2, <1>3, <1>4, <1>5

LEMMA FinalizeKeeps ==
  ASSUME TypeInv, FinalizeAck
  PROVE  /\ OwnerActive(owner) /\ owner.session \in Sessions
         /\ owner.state = "AWAITING_ACK" /\ Suppresses
         /\ \E r \in rows : r.id = owner.session /\ ShowsAck(r)
         /\ credits' = [credits EXCEPT ![owner.session] = @ + 1]
         /\ credits' \in [Sessions -> Nat]
         /\ owner' = NoOwner /\ tx' = NoTx
         /\ task.pc = "reconcile" /\ task' \in PcType /\ task'.pc = "deadline"
         /\ UNCHANGED <<store, radio, card, sent, cleared, boot, live, used>>
  <1>1. owner.session \in Sessions /\ AckIsSaved
    BY DEF FinalizeAck, AckIsSaved, TypeInv, OwnerType, OwnerActive
  <1>2. credits' = [credits EXCEPT ![owner.session] = @ + 1]
    BY DEF FinalizeAck
  <1>3. credits' \in [Sessions -> Nat]
    BY <1>1, <1>2 DEF TypeInv
  <1>4. task.pc = "reconcile" /\ task' \in PcType /\ task'.pc = "deadline"
    BY DEF FinalizeAck, At, Goto, TypeInv, PcType, QuietPcs, IdlePcs
  <1>5. QED BY <1>1, <1>2, <1>3, <1>4 DEF AckIsSaved, FinalizeAck

LEMMA ClearKeeps ==
  ASSUME TypeInv, Clear
  PROVE  /\ rows' = {} /\ mask' = {} /\ saved' \in {saved, {}}
         /\ ~card => saved' = saved
         /\ cleared' = cleared \union Ids(rows)
         /\ used' \in UsedType /\ used'.sessions = used.sessions /\ used'.ops = used.ops
         /\ UNCHANGED <<task, delivery, radio, reply, card, sent, credits, boot, live>>
  BY OtherSpent DEF Clear

LEMMA NextCases ==
  ASSUME Next
  PROVE  \/ PendingAction \/ Waits \/ EndsOperation
         \/ HandleSendDm \/ RecordDetachedFailure \/ RadioNotStarted \/ BeginPending
         \/ Send \/ SendReply \/ (\E h \in AckHashes : RxAck(h)) \/ FinalizeAck
         \/ DeadlineFails \/ RetryAsFlood
         \/ DriverEnds \/ (\E ok \in BOOLEAN : WorkerFlush(ok)) \/ Clear \/ Crash
  BY DEF Next, TaskStep, PendingAction, Waits, EndsOperation

LEMMA InitTyped == Init => TypeInv
  <1> SUFFICES ASSUME Init PROVE TypeInv
    OBVIOUS
  <1>1. used \in UsedType /\ used.sessions = 0 /\ used.ops = 0
    BY RuntimeBoundsAssumption DEF Init, UsedType
  <1>2. QED BY <1>1, NothingIsTyped DEF Init, TypeInv, Tails

LEMMA PendingTyped ==
  ASSUME TypeInv, NEW next, NEW ret, NEW attempt, Pending(next, ret, attempt)
  PROVE  TypeInv'
  <1>1. rows' \subseteq RowType /\ saved' \subseteq RowType /\ mask' \subseteq Sessions
    <2>1. CASE ret = "refused"
      BY <2>1 DEF Pending, MoveStep, Stored, store, TypeInv
    <2>2. CASE ret # "refused"
      <3>1. OwnerActive(owner)
        BY <2>2, CasMeansActive DEF Pending, MoveStep, Stored
      <3>2. AckHash(owner.session, attempt) \in AckHashes
        BY <3>1, HashIsHash DEF Pending, TypeInv, OwnerType, OwnerActive
      <3>3. QED BY <3>2, StoredIsTyped DEF Pending, MoveStep
    <2>3. QED BY <2>1, <2>2
  <1>2. QED BY <1>1 DEF Pending, MoveStep, TypeInv, PcType, radio, others

LEMMA NextTyped ==
  ASSUME TypeInv, ControlInv, [Next]_vars
  PROVE  TypeInv'
  <1>1. CASE PendingAction
    BY <1>1, ActionIsPending, PendingTyped
  <1>2. CASE Waits
    BY <1>2, WaitsKeep DEF TypeInv, PcType, store, delivery, radio, others
  <1>3. CASE EndsOperation
    BY <1>3, EndKeeps, NothingIsTyped DEF TypeInv, PcType, store, delivery, others, UsedType
  <1>4. CASE HandleSendDm
    <2>1. PICK r : NewRow(r, used'.sessions) /\ rows' = rows \union {r}
      BY <1>4, SendDmKeeps
    <2>2. rows' \subseteq RowType /\ saved' \subseteq RowType /\ mask' \subseteq Sessions
      BY <1>4, <2>1, SendDmKeeps DEF NewRow, Saves, TypeInv
    <2>3. boot \in 0 .. used'.sessions
      BY <1>4, SendDmKeeps DEF TypeInv, UsedType
    <2>4. QED
      BY <1>4, <2>2, <2>3, SendDmKeeps DEF TypeInv, PcType, delivery, radio
  <1>5. CASE RecordDetachedFailure
    <2>1. rows' \subseteq RowType /\ saved' \subseteq RowType /\ mask' \subseteq Sessions
      BY <1>5, DetachKeeps DEF FailedRow, Saves, TypeInv
    <2>2. QED
      BY <1>5, <2>1, DetachKeeps DEF TypeInv, PcType, delivery, radio, others
  <1>6. CASE RadioNotStarted
    BY <1>6, NotStartedKeeps DEF TypeInv, PcType, store, delivery, radio, others
  <1>7. CASE BeginPending
    BY <1>7, BeginKeeps DEF TypeInv, PcType, store, radio, others
  <1>8. CASE Send
    <2>1. sent' \in [AckHashes -> Nat]
      BY <1>8, SendKeeps DEF TypeInv
    <2>2. used.ops \in Nat /\ used'.ops = used.ops + 1
      BY <1>8, SendKeeps DEF TypeInv, UsedType
    <2>3. \A e \in latched' : e.operation.id <= used'.ops
      BY <1>8, <2>2, SendKeeps DEF TypeInv, OperationType
    <2>4. QED
      BY <1>8, <2>1, <2>2, <2>3, SendKeeps DEF TypeInv, PcType, store, delivery
  <1>9. CASE SendReply
    <2>1. used.ops \in Nat /\ used'.ops = used.ops + 1
      BY <1>9, ReplyKeeps DEF TypeInv, UsedType
    <2>2. \A e \in latched' : e.operation.id <= used'.ops
      BY <1>9, <2>1, ReplyKeeps DEF TypeInv, OperationType
    <2>3. QED
      BY <1>9, <2>1, <2>2, ReplyKeeps DEF TypeInv, PcType, store, delivery, others
  <1>10. ASSUME NEW h \in AckHashes, RxAck(h) PROVE TypeInv'
    <2>1. rows' \subseteq RowType /\ saved' \subseteq RowType /\ mask' \subseteq Sessions
      <3>1. "ACKNOWLEDGED" \in DeliveryStates
        BY DEF DeliveryStates
      <3>2. owner.session \in Sessions /\ owner.hash \in AckHashes
        BY <1>10, RxAckKeeps, HashIsHash
           DEF TypeInv, OwnerType, OwnerActive, ControlInv, DeliveryInv, TxType
      <3>3. QED BY <1>10, <3>1, <3>2, RxAckKeeps, MovedIsTyped DEF TypeInv
    <2>2. QED
      BY <1>10, <2>1, RxAckKeeps DEF TypeInv, PcType, radio, others
  <1>11. CASE FinalizeAck
    BY <1>11, FinalizeKeeps, NothingIsTyped DEF TypeInv, PcType, store, radio
  <1>12. CASE DeadlineFails \/ RetryAsFlood
    BY <1>12, DeadlineKeeps DEF TypeInv, PcType, store, radio, others
  <1>13. CASE DriverEnds
    BY <1>13, NothingIsTyped DEF DriverEnds, TypeInv, store, delivery, others, UsedType
  <1>14. ASSUME NEW ok \in BOOLEAN, WorkerFlush(ok) PROVE TypeInv'
    BY <1>14, FlushSaves DEF WorkerFlush, Saves, TypeInv, delivery, radio, others
  <1>15. CASE Clear
    <2>1. cleared' \subseteq Sessions
      BY <1>15, ClearKeeps, RowIsTyped DEF TypeInv, Ids
    <2>2. QED BY <1>15, <2>1, ClearKeeps DEF TypeInv, delivery, radio
  <1>16. CASE Crash
    BY <1>16, CrashKeeps, NothingIsTyped DEF TypeInv, PcType, UsedType
  <1>17. CASE UNCHANGED vars
    BY <1>17 DEF vars, TypeInv, store, delivery, radio, others
  <1>18. QED
    BY NextCases, <1>1, <1>2, <1>3, <1>4, <1>5, <1>6, <1>7, <1>8, <1>9, <1>10, <1>11,
       <1>12, <1>13, <1>14, <1>15, <1>16, <1>17

-----------------------------------------------------------------------------
(* Control.                                                                *)

LEMMA InitControl == Init => ControlInv
  BY NothingIsTyped
     DEF Init, ControlInv, PcInv, DeliveryInv, QuietPcs, SendPcs, AdmitPcs, DonePcs,
         RetryPcs, IdlePcs, Tails, Suppresses, OperationIsOwned

LEMMA PendingControlled ==
  ASSUME TypeInv, ControlInv, NEW next, NEW ret, NEW attempt, Pending(next, ret, attempt)
  PROVE  ControlInv'
  <1>1. op' = NoOp /\ used' = used
    BY DEF Pending, radio
  <1>2. ret # "refused" => OwnerActive(owner)
    BY CasMeansActive DEF Pending, MoveStep, Stored
  <1>3. DeliveryInv'
    <2>1. OwnerActive(owner)' <=> OwnerActive(owner')
      BY DEF OwnerActive
    <2>2. OwnerActive(owner') =>
            /\ ~Terminal(owner'.state)
            /\ owner'.session <= used'.sessions
            /\ owner'.hash = AckHash(owner'.session, tx'.attempt)
      BY <1>1, <1>2, NothingIsTyped DEF Pending, MoveStep, ControlInv, DeliveryInv
    <2>3. OperationIsOwned'
      BY <1>1, NothingIsTyped DEF OperationIsOwned
    <2>4. QED
      BY <2>1, <2>2, <2>3 DEF Pending, MoveStep, DeliveryInv
  <1>4. task'.pc \in SendPcs \union DonePcs \union RetryPcs \union {"expire"} =>
          OwnerActive(owner')
    <2>1. CASE task'.pc = "await"
      BY <2>1 DEF Pending, PcStep, MoveStep, NoOwner
    <2>2. CASE task'.pc \in SendPcs \union RetryPcs \union {"expire"}
      <3>1. ~Terminal(next) /\ OwnerActive(owner)
        BY <2>2 DEF Pending, PcStep, ControlInv, PcInv
      <3>2. QED BY <3>1 DEF Pending, MoveStep, OwnerActive
    <2>3. QED BY <2>1, <2>2 DEF Pending, PcStep, DonePcs
  <1>5. task'.pc = "send" => owner'.state = "TX_ACTIVE"
    BY DEF Pending, PcStep, MoveStep, SendPcs, RetryPcs, Terminal
  <1>6. task'.pc \in RetryPcs => tx'.attempt = 0
    <2>1. SUFFICES ASSUME task'.pc \in RetryPcs PROVE tx'.attempt = 0
      OBVIOUS
    <2>2. task.pc \in RetryPcs /\ attempt = tx.attempt /\ ~Terminal(next)
      BY <2>1 DEF Pending, PcStep, RetryPcs
    <2>3. tx.attempt = 0
      BY <2>2 DEF ControlInv, PcInv
    <2>4. QED BY <2>2, <2>3 DEF Pending, MoveStep
  <1>7. PcInv'
    BY <1>1, <1>4, <1>5, <1>6 DEF Pending, PcStep, MoveStep, PcInv, OwnerActive
  <1>8. QED BY <1>3, <1>7 DEF ControlInv

(* What the invariant says about the delivery while neither it nor the     *)
(* radio changes.                                                          *)
LEMMA DeliveryKept ==
  ASSUME DeliveryInv, UNCHANGED delivery, used'.sessions = used.sessions,
         op' = op \/ op'.kind # "DM"
  PROVE  DeliveryInv'
  BY DEF DeliveryInv, delivery, OperationIsOwned, TerminalMatches, Suppresses, OwnerActive

LEMMA NextControlled ==
  ASSUME TypeInv, ControlInv, [Next]_vars
  PROVE  ControlInv'
  <1> USE DEF Tails, QuietPcs, SendPcs, AdmitPcs, DonePcs, RetryPcs, IdlePcs
  <1>0. NoOp.kind # "DM"
    BY DEF NoOp
  <1>1. CASE PendingAction
    BY <1>1, ActionIsPending, PendingControlled
  <1>2. CASE Waits
    BY <1>2, WaitsKeep, DeliveryKept DEF ControlInv, PcInv, delivery, radio, Suppresses
  <1>3. CASE EndsOperation
    <2>1. DeliveryInv'
      BY <1>0, <1>3, EndKeeps, DeliveryKept DEF ControlInv
    <2>2. CASE task'.pc \in {"txDone", "txFailed"}
      <3>1. op' = NoOp /\ op.kind = "DM" /\ TerminalMatches(op)
        BY <1>3, <2>2, EndKeeps
      <3>2. owner.state = "TX_ACTIVE" /\ UNCHANGED delivery
        BY <1>3, <3>1, EndKeeps DEF TerminalMatches
      <3>3. OwnerActive(owner) /\ ~Suppresses
        BY <3>2 DEF ControlInv, DeliveryInv, NoOwner
      <3>4. QED
        BY <2>1, <2>2, <3>1, <3>2, <3>3 DEF ControlInv, PcInv, delivery, Suppresses, OwnerActive
    <2>3. CASE task'.pc \in Tails
      BY <2>1, <2>3 DEF ControlInv, PcInv
    <2>4. QED BY <1>3, <2>2, <2>3, EndKeeps
  <1>4. CASE HandleSendDm
    <2>1. /\ UNCHANGED <<owner, tx, op>> /\ ~OwnerActive(owner) /\ op = NoOp
          /\ used'.sessions # 0 /\ task'.pc \in AdmitPcs
      BY <1>4, SendDmKeeps, RuntimeBoundsAssumption DEF delivery, radio, Sessions
    <2>2. owner = NoOwner /\ tx = NoTx /\ ~Suppresses
      BY <2>1 DEF ControlInv, DeliveryInv
    <2>3. QED
      BY <1>0, <2>1, <2>2, NothingIsTyped
         DEF ControlInv, PcInv, DeliveryInv, Suppresses, OperationIsOwned
  <1>5. CASE RecordDetachedFailure
    BY <1>5, DetachKeeps, DeliveryKept DEF ControlInv, PcInv, delivery, radio, Suppresses
  <1>6. CASE RadioNotStarted
    <2>1. DeliveryInv'
      BY <1>6, NotStartedKeeps, DeliveryKept DEF ControlInv, radio
    <2>2. QED
      BY <1>6, <2>1, NotStartedKeeps DEF ControlInv, PcInv, delivery, radio, Suppresses
  <1>7. CASE BeginPending
    <2>1. op' = NoOp /\ used' = used /\ op = NoOp
      BY <1>7, BeginKeeps DEF ControlInv, PcInv, radio
    <2>2. ~Suppresses'
      BY <1>7, BeginKeeps DEF Suppresses
    <2>3. used.sessions <= used.sessions
      BY DEF TypeInv, UsedType
    <2>4. DeliveryInv'
      BY <1>0, <1>7, <2>1, <2>2, <2>3, BeginKeeps
         DEF DeliveryInv, OperationIsOwned, Terminal, OwnerActive
    <2>5. PcInv'
      BY <1>7, <2>1, <2>2, BeginKeeps DEF PcInv, OwnerActive
    <2>6. QED BY <2>4, <2>5 DEF ControlInv
  <1>8. CASE Send
    <2>1. OperationIsOwned'
      BY <1>8, SendKeeps DEF OperationIsOwned, TerminalMatches, delivery
    <2>2. DeliveryInv'
      BY <1>8, <2>1, SendKeeps DEF ControlInv, DeliveryInv, delivery, Suppresses, OwnerActive
    <2>3. QED BY <1>8, <2>2, SendKeeps DEF ControlInv, PcInv
  <1>9. CASE SendReply
    BY <1>9, ReplyKeeps, DeliveryKept DEF ControlInv, PcInv, delivery, Suppresses
  <1>10. ASSUME NEW h \in AckHashes, RxAck(h) PROVE ControlInv'
    <2>1. UNCHANGED <<owner, op, used>>
      BY <1>10, RxAckKeeps DEF radio
    <2>2. Suppresses' => tx'.ackPending
      BY <1>10, RxAckKeeps
    <2>3. DeliveryInv'
      BY <1>10, <2>1, <2>2, RxAckKeeps
         DEF ControlInv, DeliveryInv, OperationIsOwned, TerminalMatches, OwnerActive
    <2>4. QED BY <1>10, <2>1, <2>3, RxAckKeeps DEF ControlInv, PcInv
  <1>11. CASE FinalizeAck
    <2>1. op' = op /\ op = NoOp
      BY <1>11, FinalizeKeeps DEF ControlInv, PcInv, radio
    <2>2. QED
      BY <1>0, <1>11, <2>1, FinalizeKeeps, NothingIsTyped
         DEF ControlInv, PcInv, DeliveryInv, Suppresses, OperationIsOwned, OwnerActive
  <1>12. CASE DeadlineFails \/ RetryAsFlood
    <2>1. ~Suppresses' /\ UNCHANGED <<owner, op>>
      BY <1>12, DeadlineKeeps DEF Suppresses, radio
    <2>2. DeliveryInv'
      BY <1>12, <2>1, DeadlineKeeps
         DEF ControlInv, DeliveryInv, OperationIsOwned, TerminalMatches, OwnerActive
    <2>3. PcInv'
      BY <1>12, <2>1, DeadlineKeeps DEF PcInv, OwnerActive
    <2>4. QED BY <2>2, <2>3 DEF ControlInv
  <1>13. CASE DriverEnds
    BY <1>13, DeliveryKept DEF DriverEnds, ControlInv, PcInv, delivery, Suppresses
  <1>14. ASSUME NEW ok \in BOOLEAN, WorkerFlush(ok) PROVE ControlInv'
    BY <1>14, DeliveryKept DEF WorkerFlush, ControlInv, PcInv, delivery, radio, Suppresses
  <1>15. CASE Clear
    BY <1>15, ClearKeeps, DeliveryKept DEF ControlInv, PcInv, delivery, radio, Suppresses
  <1>16. CASE Crash
    BY <1>0, <1>16, CrashKeeps, NothingIsTyped
       DEF ControlInv, PcInv, DeliveryInv, Suppresses, OperationIsOwned, OwnerActive
  <1>17. CASE UNCHANGED vars
    BY <1>17, DeliveryKept DEF vars, ControlInv, PcInv, delivery, radio, Suppresses
  <1>18. QED
    BY NextCases, <1>1, <1>2, <1>3, <1>4, <1>5, <1>6, <1>7, <1>8, <1>9, <1>10, <1>11,
       <1>12, <1>13, <1>14, <1>15, <1>16, <1>17

-----------------------------------------------------------------------------
LEMMA TypesFollow == TypeInv /\ ControlInv => TypeOK
  BY DEF TypeInv, ControlInv, DeliveryInv, TypeOK, OwnerType, TxType, CompletionType,
         OperationType, UsedType

LEMMA Controlled == Spec => [](TypeInv /\ ControlInv)
  <1>1. Init => TypeInv /\ ControlInv
    BY InitTyped, InitControl
  <1>2. TypeInv /\ ControlInv /\ [Next]_vars => TypeInv' /\ ControlInv'
    BY NextTyped, NextControlled
  <1>3. QED BY <1>1, <1>2, PTL DEF Spec

(* Types, and nothing of a delivery outlives its owner.                    *)
THEOREM RuntimeTyped == Spec => []TypeOK
  BY Controlled, TypesFollow, PTL

(* The message on the radio is the owner's current revision, so that its   *)
(* terminal, the watchdog or the bus recovery can end it.                  *)
THEOREM RadioIsOwned == Spec => []OperationIsOwned
  <1>1. ControlInv => OperationIsOwned
    BY DEF ControlInv, DeliveryInv
  <1>2. QED BY Controlled, <1>1, PTL
=============================================================================
